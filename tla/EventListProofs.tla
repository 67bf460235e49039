--------------------------- MODULE EventListProofs ---------------------------
\* Proofs about EventList for any number of nodes, strands, events and steps.
EXTENDS EventList, FiniteSetTheorems, SequenceTheorems, WellFoundedInduction, TLAPS

Node == [l1 : Nat, l2 : Nat, type : IntersectionType, next : Pointers]

\* The memory: what malloc gave out, and what was stored there
NodesOK(ns) ==
  /\ DOMAIN ns \subseteq Addresses
  /\ ns \in [DOMAIN ns -> Node]
  /\ \A a \in DOMAIN ns : Data(ns[a]) \in Events

\* s has the addresses the next pointers lead to from a, each once, up to NULL.
Chain(ns, a, s) ==
  /\ s \in Seq(DOMAIN ns)
  /\ \A i, j \in 1..Len(s) : s[i] = s[j] => i = j
  /\ a = (IF s = <<>> THEN NULL ELSE s[1])
  /\ \A i \in 1..Len(s) : ns[s[i]].next = (IF i = Len(s) THEN NULL ELSE s[i + 1])

\* lst is the list of the nodes at s.
IsList(ns, lst, s) ==
  /\ Chain(ns, lst.head, s)
  /\ lst = [head |-> IF s = <<>> THEN NULL ELSE s[1],
            tail |-> IF s = <<>> THEN NULL ELSE s[Len(s)], size |-> Len(s)]

-----------------------------------------------------------------------------
(* What the next pointers lead to.                                         *)

\* A set of naturals that is not empty has a least one.
LEMMA LeastNatural ==
  ASSUME NEW S \in SUBSET Nat, S # {}
  PROVE  \E n \in S : \A m \in S : n <= m
<1>1. \E R : IsWellFoundedOn(R, Nat) /\ \A m, k \in Nat : m < k => <<m, k>> \in R
  <2>1. \A m, k \in Nat : m < k => <<m, k>> \in OpToRel(<, Nat)
    BY DEF OpToRel
  <2>. QED
    BY <2>1, NatLessThanWellFounded
<1>2. PICK R : IsWellFoundedOn(R, Nat) /\ \A m, k \in Nat : m < k => <<m, k>> \in R
  BY <1>1
<1>3. S \subseteq Nat
  OBVIOUS
<1>4. PICK n \in S : \A m \in S : ~(<<m, n>> \in R)
  <2>1. IsWellFoundedOn(R, Nat)
    BY <1>2
  <2>. QED
    BY <1>3, <2>1, WFMin
<1>5. \A m \in S : n <= m
  <2>. TAKE m \in S
  <2>1. ~(m < n)
    BY <1>2, <1>3, <1>4
  <2>. QED
    BY <1>3, <2>1
<1>. QED
  BY <1>5

LEMMA CountUpTo ==
  ASSUME NEW n \in Nat
  PROVE  Cardinality(1..n) = n
BY FS_Interval

LEMMA NodesFinite ==
  ASSUME NEW ns, NodesOK(ns)
  PROVE  IsFiniteSet(DOMAIN ns) /\ Cardinality(DOMAIN ns) \in Nat
         /\ Cardinality(DOMAIN ns) <= Cardinality(Addresses)
<1>1. IsFiniteSet(Addresses) /\ DOMAIN ns \in SUBSET Addresses
  BY EventListAssumption DEF NodesOK
<1>. QED
  BY <1>1, FS_Subset, FS_CardinalityType

\* A sequence without repetitions is no longer than the set it is from is large.
LEMMA ChainShort ==
  ASSUME NEW ns, NodesOK(ns), NEW a, NEW s, Chain(ns, a, s)
  PROVE  Len(s) \in Nat /\ Len(s) <= Cardinality(DOMAIN ns)
<1>1. s \in Injection(1..Len(s), DOMAIN ns)
  <2>1. s \in [1..Len(s) -> DOMAIN ns]
    BY DEF Chain
  <2>. QED
    BY <2>1 DEF Chain, Injection, IsInjective
<1>2. Cardinality(1..Len(s)) <= Cardinality(DOMAIN ns)
  BY <1>1, NodesFinite, FS_Injection
<1>3. Len(s) \in Nat
  BY DEF Chain
<1>4. Cardinality(1..Len(s)) = Len(s)
  BY <1>3, CountUpTo
<1>. QED
  BY <1>2, <1>3, <1>4

NextHop(ns, b) == IF b \in DOMAIN ns THEN ns[b].next ELSE NULL
HopsOf(ns, a, f) ==
  f = [n \in 0..Cardinality(DOMAIN ns) |-> IF n = 0 THEN a ELSE NextHop(ns, f[n - 1])]

LEMMA HopsChosen ==
  ASSUME NEW ns, NEW a, NEW g, HopsOf(ns, a, g)
  PROVE  HopsOf(ns, a, Hops(ns, a))
<1>1. Hops(ns, a) = CHOOSE f : HopsOf(ns, a, f)
  BY DEF Hops, HopsOf, NextHop
<1>. QED
  BY <1>1

\* The chain itself follows the pointers.
ChainHops(ns, s) == [n \in 0..Cardinality(DOMAIN ns) |-> IF n < Len(s) THEN s[n + 1] ELSE NULL]

LEMMA ChainIsHops ==
  ASSUME NEW ns, NodesOK(ns), NEW a, NEW s, Chain(ns, a, s)
  PROVE  HopsOf(ns, a, ChainHops(ns, s))
<1>. DEFINE N == Cardinality(DOMAIN ns)  g == ChainHops(ns, s)
<1>1. N \in Nat /\ Len(s) \in Nat /\ Len(s) <= N
  BY NodesFinite, ChainShort
<1>2. \A i \in 1..Len(s) : s[i] \in DOMAIN ns
  BY DEF Chain
<1>3. NULL \notin DOMAIN ns
  BY EventListAssumption DEF NodesOK
<1>4. \A n \in 0..N : g[n] = (IF n < Len(s) THEN s[n + 1] ELSE NULL)
  BY DEF ChainHops
<1>5. ASSUME NEW n \in 0..N
      PROVE  g[n] = IF n = 0 THEN a ELSE NextHop(ns, g[n - 1])
  <2>1. CASE n = 0
    <3>1. g[0] = IF 0 < Len(s) THEN s[1] ELSE NULL
      BY <1>1, <1>4
    <3>2. s = <<>> <=> Len(s) = 0
      BY DEF Chain
    <3>. QED
      BY <2>1, <3>1, <3>2, <1>1 DEF Chain
  <2>2. CASE n # 0 /\ n - 1 < Len(s)
    <3>1. g[n - 1] = s[n] /\ n \in 1..Len(s)
      BY <1>1, <1>4, <2>2
    <3>2. NextHop(ns, g[n - 1]) = ns[s[n]].next
      BY <1>2, <3>1 DEF NextHop
    <3>3. ns[s[n]].next = (IF n = Len(s) THEN NULL ELSE s[n + 1])
      BY <3>1 DEF Chain
    <3>4. g[n] = IF n < Len(s) THEN s[n + 1] ELSE NULL
      BY <1>4
    <3>. QED
      BY <1>1, <2>2, <3>1, <3>2, <3>3, <3>4
  <2>3. CASE n # 0 /\ ~(n - 1 < Len(s))
    <3>1. g[n - 1] = NULL /\ g[n] = NULL
      BY <1>1, <1>4, <2>3
    <3>. QED
      BY <1>3, <2>3, <3>1 DEF NextHop
  <2>. QED
    BY <2>1, <2>2, <2>3
<1>6. g = [n \in 0..N |-> g[n]]
  BY DEF ChainHops
<1>. HIDE DEF g
<1>7. [n \in 0..N |-> g[n]] = [n \in 0..N |-> IF n = 0 THEN a ELSE NextHop(ns, g[n - 1])]
  BY <1>5
<1>. QED
  BY <1>6, <1>7 DEF HopsOf, g

\* There is one way to follow the pointers.
LEMMA HopsUnique ==
  ASSUME NEW ns, NodesOK(ns), NEW a, NEW f, HopsOf(ns, a, f), NEW g, HopsOf(ns, a, g)
  PROVE  f = g
<1>. DEFINE N == Cardinality(DOMAIN ns)
            D == {n \in 0..N : f[n] # g[n]}
<1>1. N \in Nat
  BY NodesFinite
<1>2. \A n \in 0..N : /\ f[n] = IF n = 0 THEN a ELSE NextHop(ns, f[n - 1])
                      /\ g[n] = IF n = 0 THEN a ELSE NextHop(ns, g[n - 1])
  BY DEF HopsOf
<1>3. ASSUME D # {} PROVE FALSE
  <2>1. PICK n \in D : \A m \in D : n <= m
    <3>1. D \in SUBSET Nat
      BY <1>1
    <3>. HIDE DEF D
    <3>. QED
      BY <1>3, <3>1, LeastNatural
  <2>2. n \in 0..N /\ f[n] # g[n] /\ n # 0
    BY <1>1, <1>2
  <2>3. n - 1 \in 0..N /\ n - 1 \notin D
    BY <1>1, <2>1, <2>2
  <2>4. f[n - 1] = g[n - 1]
    BY <2>3
  <2>. QED
    BY <1>2, <2>2, <2>4
<1>4. \A n \in 0..N : f[n] = g[n]
  BY <1>3
<1>5. DOMAIN f = 0..N /\ DOMAIN g = 0..N /\ f = [n \in 0..N |-> f[n]] /\ g = [n \in 0..N |-> g[n]]
  BY DEF HopsOf
<1>. QED
  BY <1>4, <1>5

\* From(ns, a) is the chain that begins at a.
LEMMA FromChain ==
  ASSUME NEW ns, NodesOK(ns), NEW a, NEW s, Chain(ns, a, s)
  PROVE  From(ns, a) = s
<1>. DEFINE N == Cardinality(DOMAIN ns)
            at == Hops(ns, a)
            ends == {n \in 1..N : at[n - 1] \in DOMAIN ns}
<1>1. at = ChainHops(ns, s)
  BY ChainIsHops, HopsChosen, HopsUnique
<1>2. N \in Nat /\ Len(s) \in Nat /\ Len(s) <= N
  BY NodesFinite, ChainShort
<1>3. \A n \in 0..N : at[n] = (IF n < Len(s) THEN s[n + 1] ELSE NULL)
  BY <1>1 DEF ChainHops
<1>4. NULL \notin DOMAIN ns /\ \A i \in 1..Len(s) : s[i] \in DOMAIN ns
  BY EventListAssumption DEF NodesOK, Chain
<1>. HIDE DEF at
<1>5. ends = 1..Len(s)
  <2>1. \A n \in 1..N : n - 1 \in 0..N /\ (at[n - 1] \in DOMAIN ns <=> n <= Len(s))
    BY <1>2, <1>3, <1>4
  <2>. QED
    BY <1>2, <2>1
<1>6. Cardinality(ends) = Len(s)
  <2>1. Cardinality(1..Len(s)) = Len(s)
    BY <1>2, CountUpTo
  <2>. QED
    BY <1>5, <2>1
<1>7. From(ns, a) = [i \in 1..Cardinality(ends) |-> at[i - 1]]
  BY DEF From, at
<1>. HIDE DEF ends
<1>8. \A i \in 1..Len(s) : at[i - 1] = s[i]
  BY <1>2, <1>3
<1>9. [i \in 1..Len(s) |-> at[i - 1]] = [i \in 1..Len(s) |-> s[i]]
  BY <1>8
<1>10. s = [i \in 1..Len(s) |-> s[i]]
  BY DEF Chain
<1>. QED
  BY <1>6, <1>7, <1>9, <1>10

-----------------------------------------------------------------------------
(* What appending and merging do to the chains.                            *)

LEMMA EventsAre ==
  Events \subseteq [l1 : Nat, l2 : Nat, type : IntersectionType]
<1>. SUFFICES ASSUME NEW e \in Events
              PROVE  e \in [l1 : Nat, l2 : Nat, type : IntersectionType]
  OBVIOUS
<1>1. PICK f \in Findings : e \in UNION {Range(f[i]) : i \in DOMAIN f}
  BY DEF Events
<1>2. PICK i \in DOMAIN f : e \in Range(f[i])
  BY <1>1
<1>3. f \in Seq(Seq([l1 : Nat, l2 : Nat, type : IntersectionType]))
  BY EventListAssumption
<1>4. f[i] \in Seq([l1 : Nat, l2 : Nat, type : IntersectionType])
  BY <1>2, <1>3
<1>5. PICK k \in DOMAIN f[i] : e = f[i][k]
  BY <1>2 DEF Range
<1>. DEFINE T == [l1 : Nat, l2 : Nat, type : IntersectionType]
<1>6. f[i] \in Seq(T)
  BY <1>4
<1>. HIDE DEF T
<1>7. f[i][k] \in T
  BY <1>5, <1>6
<1>. QED
  BY <1>5, <1>7 DEF T

\* A node is what it stores and where it leads to.
LEMMA NodeFields ==
  ASSUME NEW n
  PROVE  n \in Node => /\ n = [l1 |-> n.l1, l2 |-> n.l2, type |-> n.type, next |-> n.next]
                       /\ n.l1 \in Nat /\ n.l2 \in Nat /\ n.type \in IntersectionType /\ n.next \in Pointers
BY DEF Node

\* m has the nodes of ns, but that k leads to b.
Relinked(ns, m, k, b) ==
  /\ DOMAIN ns \subseteq DOMAIN m
  /\ \A x \in DOMAIN ns : /\ Data(m[x]) = Data(ns[x])
                          /\ m[x].next = (IF x = k THEN b ELSE ns[x].next)

Apart(s, t) == \A i \in 1..Len(s), j \in 1..Len(t) : s[i] # t[j]

LEMMA ChainKept ==
  ASSUME NEW ns, NEW m, NEW k, NEW b, Relinked(ns, m, k, b),
         NEW c, NEW t, Chain(ns, c, t), \A i \in 1..Len(t) : t[i] # k
  PROVE  Chain(m, c, t)
<1>1. t \in Seq(DOMAIN m)
  <2>1. t \in Seq(DOMAIN ns) /\ DOMAIN ns \subseteq DOMAIN m
    BY DEF Chain, Relinked
  <2>. QED
    BY <2>1
<1>2. \A i \in 1..Len(t) : t[i] \in DOMAIN ns
  BY DEF Chain
<1>3. \A i \in 1..Len(t) : m[t[i]].next = ns[t[i]].next
  BY <1>2 DEF Relinked
<1>. QED
  BY <1>1, <1>3 DEF Chain

LEMMA ChainJoined ==
  ASSUME NEW ns, NEW m, NEW b, NEW c, NEW t, Chain(ns, c, t), t # <<>>,
         Relinked(ns, m, t[Len(t)], b), NEW u, Chain(m, b, u), u # <<>>, Apart(t, u)
  PROVE  Chain(m, c, t \o u)
<1>. DEFINE v == t \o u
<1>1. /\ t \in Seq(DOMAIN m) /\ u \in Seq(DOMAIN m) /\ Len(t) \in Nat /\ Len(u) \in Nat
      /\ Len(t) > 0 /\ Len(u) > 0
  <2>1. t \in Seq(DOMAIN ns) /\ DOMAIN ns \subseteq DOMAIN m
    BY DEF Chain, Relinked
  <2>2. t \in Seq(DOMAIN m) /\ u \in Seq(DOMAIN m)
    BY <2>1 DEF Chain
  <2>. QED
    BY <2>2
<1>2. v \in Seq(DOMAIN m) /\ Len(v) = Len(t) + Len(u)
  BY <1>1
<1>3. /\ \A i \in 1..Len(t) : v[i] = t[i]
      /\ \A i \in 1..Len(v) : i > Len(t) => v[i] = u[i - Len(t)] /\ i - Len(t) \in 1..Len(u)
  BY <1>1, <1>2
<1>. HIDE DEF v
<1>4. \A i, j \in 1..Len(v) : v[i] = v[j] => i = j
  <2>. SUFFICES ASSUME NEW i \in 1..Len(v), NEW j \in 1..Len(v), v[i] = v[j], i # j
                PROVE  FALSE
    OBVIOUS
  <2>1. CASE i <= Len(t) /\ j <= Len(t)
    <3>1. i \in 1..Len(t) /\ j \in 1..Len(t) /\ t[i] = t[j]
      BY <1>1, <1>2, <1>3, <2>1
    <3>. QED
      BY <3>1 DEF Chain
  <2>2. CASE i > Len(t) /\ j > Len(t)
    <3>1. i - Len(t) \in 1..Len(u) /\ j - Len(t) \in 1..Len(u) /\ u[i - Len(t)] = u[j - Len(t)]
      BY <1>1, <1>2, <1>3, <2>2
    <3>2. i - Len(t) = j - Len(t)
      BY <3>1 DEF Chain
    <3>. QED
      BY <1>1, <1>2, <3>2
  <2>3. CASE i <= Len(t) /\ j > Len(t)
    <3>1. i \in 1..Len(t) /\ j - Len(t) \in 1..Len(u) /\ t[i] = u[j - Len(t)]
      BY <1>1, <1>2, <1>3, <2>3
    <3>. QED
      BY <3>1 DEF Apart
  <2>4. CASE i > Len(t) /\ j <= Len(t)
    <3>1. j \in 1..Len(t) /\ i - Len(t) \in 1..Len(u) /\ t[j] = u[i - Len(t)]
      BY <1>1, <1>2, <1>3, <2>4
    <3>. QED
      BY <3>1 DEF Apart
  <2>. QED
    BY <1>1, <1>2, <2>1, <2>2, <2>3, <2>4
<1>5. c = (IF v = <<>> THEN NULL ELSE v[1])
  <2>1. v # <<>> /\ v[1] = t[1]
    BY <1>1, <1>2, <1>3
  <2>. QED
    BY <2>1 DEF Chain
<1>6. ASSUME NEW i \in 1..Len(v)
      PROVE  m[v[i]].next = (IF i = Len(v) THEN NULL ELSE v[i + 1])
  <2>1. CASE i < Len(t)
    <3>1. i \in 1..Len(t) /\ i + 1 \in 1..Len(t) /\ v[i] = t[i] /\ v[i + 1] = t[i + 1] /\ i # Len(v)
      BY <1>1, <1>2, <1>3, <2>1
    <3>2. t[i] # t[Len(t)] /\ t[i] \in DOMAIN ns /\ ns[t[i]].next = t[i + 1]
      BY <1>1, <2>1, <3>1 DEF Chain
    <3>. QED
      BY <3>1, <3>2 DEF Relinked
  <2>2. CASE i = Len(t)
    <3>1. i \in 1..Len(t) /\ v[i] = t[Len(t)] /\ i + 1 \in 1..Len(v) /\ i # Len(v)
      BY <1>1, <1>2, <1>3, <2>2
    <3>2. v[i + 1] = u[1]
      <4>1. i + 1 > Len(t) /\ (i + 1) - Len(t) = 1
        BY <1>1, <2>2
      <4>. QED
        BY <1>3, <3>1, <4>1
    <3>3. t[Len(t)] \in DOMAIN ns
      BY <1>1 DEF Chain
    <3>4. m[t[Len(t)]].next = b /\ b = u[1]
      BY <3>3 DEF Relinked, Chain
    <3>. QED
      BY <3>1, <3>2, <3>4
  <2>3. CASE i > Len(t)
    <3>. DEFINE j == i - Len(t)
    <3>1. j \in 1..Len(u) /\ v[i] = u[j] /\ (i = Len(v) <=> j = Len(u))
      BY <1>1, <1>2, <1>3, <2>3
    <3>2. i # Len(v) => v[i + 1] = u[j + 1]
      <4>. SUFFICES ASSUME i # Len(v) PROVE v[i + 1] = u[j + 1]
        OBVIOUS
      <4>1. i + 1 \in 1..Len(v) /\ i + 1 > Len(t) /\ (i + 1) - Len(t) = j + 1
        BY <1>1, <1>2, <2>3
      <4>. QED
        BY <1>3, <4>1
    <3>3. m[u[j]].next = (IF j = Len(u) THEN NULL ELSE u[j + 1])
      BY <3>1 DEF Chain
    <3>. QED
      BY <3>1, <3>2, <3>3
  <2>. QED
    BY <1>1, <1>2, <2>1, <2>2, <2>3
<1>. QED
  BY <1>2, <1>4, <1>5, <1>6 DEF Chain, v

\* Linking one node to another
LEMMA LinkedFields ==
  ASSUME NEW ns, NodesOK(ns), NEW k \in DOMAIN ns, NEW b \in DOMAIN ns
  PROVE  /\ NodesOK(Linked(ns, k, b)) /\ DOMAIN Linked(ns, k, b) = DOMAIN ns
         /\ Relinked(ns, Linked(ns, k, b), k, b)
<1>. DEFINE m == Linked(ns, k, b)
<1>1. k # NULL /\ m = [ns EXCEPT ![k].next = b]
  BY EventListAssumption DEF NodesOK, Linked
<1>2. DOMAIN m = DOMAIN ns
  BY <1>1
<1>3. ASSUME NEW x \in DOMAIN ns
      PROVE  /\ m[x] \in Node /\ Data(m[x]) = Data(ns[x])
             /\ m[x].next = (IF x = k THEN b ELSE ns[x].next)
  <2>1. ns[x] \in Node /\ b \in Pointers
    BY DEF NodesOK, Pointers
  <2>2. CASE x # k
    <3>1. m[x] = ns[x]
      BY <1>1, <2>2 DEF NodesOK
    <3>. QED
      BY <2>1, <2>2, <3>1
  <2>3. CASE x = k
    <3>1. m[x] = [ns[x] EXCEPT !.next = b]
      BY <1>1, <2>3 DEF NodesOK
    <3>2. [ns[x] EXCEPT !.next = b] \in Node
      BY <2>1 DEF Node
    <3>3. /\ m[x].l1 = ns[x].l1 /\ m[x].l2 = ns[x].l2 /\ m[x].type = ns[x].type
          /\ m[x].next = b
      BY <2>1, <3>1 DEF Node
    <3>. QED
      BY <2>3, <3>1, <3>2, <3>3 DEF Data
  <2>. QED
    BY <2>2, <2>3
<1>. HIDE DEF m
<1>5. m = [x \in DOMAIN m |-> m[x]]
  BY <1>1 DEF NodesOK
<1>6. NodesOK(m)
  BY <1>2, <1>3, <1>5 DEF NodesOK
<1>. QED
  BY <1>2, <1>3, <1>6 DEF m, Relinked

\* The memory with a new node that leads nowhere
Allocated(ns, a, e) ==
  [x \in DOMAIN ns \cup {a} |->
     IF x = a THEN [l1 |-> e.l1, l2 |-> e.l2, type |-> e.type, next |-> NULL] ELSE ns[x]]

LEMMA AllocatedFields ==
  ASSUME NEW ns, NodesOK(ns), NEW a \in Addresses \ DOMAIN ns, NEW e \in Events
  PROVE  /\ NodesOK(Allocated(ns, a, e)) /\ DOMAIN Allocated(ns, a, e) = DOMAIN ns \cup {a}
         /\ Data(Allocated(ns, a, e)[a]) = e /\ Allocated(ns, a, e)[a].next = NULL
         /\ Relinked(ns, Allocated(ns, a, e), a, NULL)
<1>. DEFINE m == Allocated(ns, a, e)
            r == [l1 |-> e.l1, l2 |-> e.l2, type |-> e.type, next |-> NULL]
<1>1. e \in [l1 : Nat, l2 : Nat, type : IntersectionType]
  BY EventsAre
<1>2. r \in Node
  BY <1>1 DEF Node, Pointers
<1>3. Data(r) = e
  BY <1>1 DEF Data
<1>4. r.next = NULL
  OBVIOUS
<1>. HIDE DEF r
<1>5. m = [x \in DOMAIN ns \cup {a} |-> IF x = a THEN r ELSE ns[x]]
  BY DEF Allocated, r
<1>. HIDE DEF m
<1>6. DOMAIN m = DOMAIN ns \cup {a} /\ m[a] = r /\ \A x \in DOMAIN ns : m[x] = ns[x] /\ x # a
  BY <1>5
<1>7. m \in [DOMAIN m -> Node] /\ DOMAIN m \subseteq Addresses /\ \A x \in DOMAIN m : Data(m[x]) \in Events
  BY <1>2, <1>3, <1>5, <1>6 DEF NodesOK
<1>8. Relinked(ns, m, a, NULL)
  BY <1>6 DEF Relinked
<1>. QED
  BY <1>3, <1>4, <1>6, <1>7, <1>8 DEF NodesOK, m

\* Two changes of links, one after the other
LEMMA RelinkedTwice ==
  ASSUME NEW ns, NEW n, NEW m, NEW j, NEW c, NEW k, NEW b, Relinked(ns, n, j, c),
         j \notin DOMAIN ns, Relinked(n, m, k, b)
  PROVE  Relinked(ns, m, k, b)
BY DEF Relinked

LEMMA OneNode ==
  ASSUME NEW m, NEW a \in DOMAIN m, m[a].next = NULL
  PROVE  Chain(m, a, <<a>>) /\ <<a>> # <<>>
<1>1. <<a>> \in Seq(DOMAIN m) /\ Len(<<a>>) = 1 /\ <<a>>[1] = a /\ <<a>> # <<>>
  OBVIOUS
<1>2. \A i \in 1..1 : i = 1
  OBVIOUS
<1>. QED
  BY <1>1, <1>2 DEF Chain

\* Relinking the end of one list leaves every list that is apart as it is.
LEMMA OthersKept ==
  ASSUME NEW ns, NEW m, NEW b, NEW c, NEW s, Chain(ns, c, s), s # <<>>, Relinked(ns, m, s[Len(s)], b)
  PROVE  \A d, t : Chain(ns, d, t) /\ Apart(t, s) => Chain(m, d, t)
<1>. SUFFICES ASSUME NEW d, NEW t, Chain(ns, d, t), Apart(t, s)
              PROVE  Chain(m, d, t)
  OBVIOUS
<1>1. Len(s) \in 1..Len(s)
  BY DEF Chain
<1>2. \A i \in 1..Len(t) : t[i] # s[Len(s)]
  BY <1>1 DEF Apart
<1>. QED
  BY <1>2, ChainKept

WithNodeOK(ns, m, lst, s, a, e) ==
  /\ NodesOK(m) /\ DOMAIN m = DOMAIN ns \cup {a}
  /\ Data(m[a]) = e /\ \A x \in DOMAIN ns : Data(m[x]) = Data(ns[x])
  /\ IsList(m, Appended(lst, a), s \o <<a>>)
  /\ \A d, t : Chain(ns, d, t) /\ Apart(t, s) => Chain(m, d, t)

\* IntersectionEventList_appendNode() puts the node behind the last one.
LEMMA AppendedList ==
  ASSUME NEW ns, NodesOK(ns), NEW lst, NEW s, IsList(ns, lst, s),
         NEW a \in Addresses \ DOMAIN ns, NEW e \in Events
  PROVE  WithNodeOK(ns, WithNode(ns, lst, a, e), lst, s, a, e)
<1>. DEFINE n == Allocated(ns, a, e)  m == WithNode(ns, lst, a, e)
<1>1. /\ NodesOK(n) /\ DOMAIN n = DOMAIN ns \cup {a} /\ Data(n[a]) = e /\ n[a].next = NULL
      /\ Relinked(ns, n, a, NULL)
  BY AllocatedFields
<1>2. /\ Chain(ns, lst.head, s) /\ lst.head = (IF s = <<>> THEN NULL ELSE s[1])
      /\ lst.tail = (IF s = <<>> THEN NULL ELSE s[Len(s)]) /\ lst.size = Len(s)
      /\ s \in Seq(DOMAIN ns) /\ Len(s) \in Nat /\ (s # <<>> => Len(s) \in 1..Len(s))
      /\ (s # <<>> => 1 \in 1..Len(s))
  BY DEF IsList, Chain
<1>3. NULL \notin DOMAIN ns /\ a \notin DOMAIN ns /\ NULL # a
  BY EventListAssumption DEF NodesOK
<1>4. m = Linked(n, IF lst.head = NULL THEN NULL ELSE lst.tail, a)
  BY DEF WithNode, Allocated
<1>. HIDE DEF n, m
<1>5. Appended(lst, a) = [head |-> IF s = <<>> THEN a ELSE s[1], tail |-> a, size |-> Len(s) + 1]
  <2>1. lst.head = NULL <=> s = <<>>
    <3>1. s # <<>> => s[1] \in DOMAIN ns
      BY <1>2
    <3>. QED
      BY <1>2, <1>3, <3>1
  <2>. QED
    BY <1>2, <2>1 DEF Appended
<1>6. CASE s = <<>>
  <2>1. m = n
    BY <1>2, <1>4, <1>6 DEF Linked
  <2>2. s \o <<a>> = <<a>> /\ Len(<<a>>) = 1 /\ Len(s) = 0
    BY <1>6
  <2>3. Chain(m, a, <<a>>) /\ <<a>> # <<>>
    BY <1>1, <2>1, OneNode
  <2>4. Appended(lst, a) = [head |-> a, tail |-> a, size |-> 1]
    BY <1>5, <1>6, <2>2
  <2>5. IsList(m, Appended(lst, a), <<a>>)
    BY <2>2, <2>3, <2>4 DEF IsList
  <2>6. ASSUME NEW d, NEW t, Chain(ns, d, t)
        PROVE  Chain(m, d, t)
    <3>1. \A i \in 1..Len(t) : t[i] # a
      BY <1>3, <2>6 DEF Chain
    <3>. QED
      BY <1>1, <2>1, <2>6, <3>1, ChainKept
  <2>7. \A x \in DOMAIN ns : Data(m[x]) = Data(ns[x])
    BY <1>1, <2>1 DEF Relinked
  <2>. QED
    BY <1>1, <2>1, <2>2, <2>5, <2>6, <2>7 DEF WithNodeOK, m
<1>7. CASE s # <<>>
  <2>. DEFINE k == s[Len(s)]
  <2>1. k \in DOMAIN ns /\ s[1] \in DOMAIN ns
    BY <1>2, <1>7
  <2>2. m = Linked(n, k, a)
    <3>1. lst.head # NULL
      BY <1>2, <1>3, <1>7, <2>1
    <3>. QED
      BY <1>2, <1>4, <1>7, <3>1
  <2>3. NodesOK(m) /\ DOMAIN m = DOMAIN n /\ Relinked(n, m, k, a)
    BY <1>1, <2>1, <2>2, LinkedFields
  <2>4. Relinked(ns, m, k, a)
    BY <1>1, <1>3, <2>3, RelinkedTwice
  <2>5. Data(m[a]) = e /\ m[a].next = NULL /\ a \in DOMAIN m
    BY <1>1, <1>3, <2>1, <2>3 DEF Relinked
  <2>6. Chain(m, a, <<a>>) /\ <<a>> # <<>>
    BY <2>5, OneNode
  <2>7. Apart(s, <<a>>)
    BY <1>2, <1>3 DEF Apart
  <2>8. Chain(m, lst.head, s \o <<a>>)
    BY <1>2, <1>7, <2>4, <2>6, <2>7, ChainJoined
  <2>. DEFINE v == s \o <<a>>
  <2>9. Len(v) = Len(s) + 1 /\ v # <<>> /\ v[1] = s[1] /\ v[Len(v)] = a
    BY <1>2, <1>7
  <2>10. IsList(m, Appended(lst, a), v)
    <3>1. lst.head = s[1] /\ Appended(lst, a) = [head |-> s[1], tail |-> a, size |-> Len(s) + 1]
      BY <1>2, <1>5, <1>7
    <3>. HIDE DEF v
    <3>. QED
      BY <2>8, <2>9, <3>1 DEF IsList, v
  <2>11. \A d, t : Chain(ns, d, t) /\ Apart(t, s) => Chain(m, d, t)
    BY <1>2, <1>7, <2>4, OthersKept
  <2>12. \A x \in DOMAIN ns : Data(m[x]) = Data(ns[x])
    BY <2>4 DEF Relinked
  <2>. QED
    BY <1>1, <2>3, <2>5, <2>10, <2>11, <2>12 DEF WithNodeOK, m
<1>. QED
  BY <1>6, <1>7

Merged(ns, m, s, t) ==
  /\ NodesOK(m.nodes) /\ DOMAIN m.nodes = DOMAIN ns
  /\ \A x \in DOMAIN ns : Data(m.nodes[x]) = Data(ns[x])
  /\ IsList(m.nodes, m.left, s \o t) /\ m.right = Empty
  /\ \A d, u : Chain(ns, d, u) /\ Apart(u, s) => Chain(m.nodes, d, u)

\* IntersectionEventList_mergeNodes() puts one list behind the other and leaves
\* the other empty, whether they have nodes or not.
LEMMA MergedLists ==
  ASSUME NEW ns, NodesOK(ns), NEW left, NEW s, IsList(ns, left, s),
         NEW right, NEW t, IsList(ns, right, t), Apart(s, t)
  PROVE  Merged(ns, mergeNodes(ns, left, right), s, t)
<1>. DEFINE m == mergeNodes(ns, left, right)
<1>1. /\ Chain(ns, left.head, s) /\ Chain(ns, right.head, t)
      /\ left = [head |-> IF s = <<>> THEN NULL ELSE s[1],
                 tail |-> IF s = <<>> THEN NULL ELSE s[Len(s)], size |-> Len(s)]
      /\ right = [head |-> IF t = <<>> THEN NULL ELSE t[1],
                  tail |-> IF t = <<>> THEN NULL ELSE t[Len(t)], size |-> Len(t)]
  BY DEF IsList
<1>2. /\ s \in Seq(DOMAIN ns) /\ t \in Seq(DOMAIN ns) /\ Len(s) \in Nat /\ Len(t) \in Nat
      /\ left.size = Len(s) /\ right.size = Len(t) /\ (s = <<>> <=> Len(s) = 0) /\ (t = <<>> <=> Len(t) = 0)
  BY <1>1 DEF Chain
<1>3. CASE t = <<>>
  <2>1. m.nodes = ns /\ m.left = left /\ m.right = right
    BY <1>2, <1>3 DEF mergeNodes
  <2>2. right = Empty
    BY <1>1, <1>2, <1>3 DEF Empty
  <2>3. s \o t = s
    BY <1>2, <1>3
  <2>. QED
    BY <2>1, <2>2, <2>3 DEF Merged
<1>4. CASE t # <<>> /\ s = <<>>
  <2>1. m.nodes = ns /\ m.left = right /\ m.right = Empty
    BY <1>2, <1>4 DEF mergeNodes
  <2>2. s \o t = t
    BY <1>2, <1>4
  <2>. QED
    BY <2>1, <2>2 DEF Merged
<1>5. CASE t # <<>> /\ s # <<>>
  <2>. DEFINE k == s[Len(s)]  b == t[1]  v == s \o t
  <2>1. k \in DOMAIN ns /\ b \in DOMAIN ns /\ left.tail = k /\ right.head = b /\ left.head = s[1]
        /\ right.tail = t[Len(t)]
    BY <1>1, <1>2, <1>5
  <2>2. /\ m.nodes = Linked(ns, k, b) /\ m.right = Empty
        /\ m.left = [head |-> s[1], tail |-> t[Len(t)], size |-> Len(s) + Len(t)]
    BY <1>2, <1>5, <2>1 DEF mergeNodes
  <2>3. NodesOK(m.nodes) /\ DOMAIN m.nodes = DOMAIN ns /\ Relinked(ns, m.nodes, k, b)
    BY <2>1, <2>2, LinkedFields
  <2>4. Chain(m.nodes, b, t)
    <3>1. \A i \in 1..Len(t) : t[i] # k
      <4>1. Len(s) \in 1..Len(s)
        BY <1>2, <1>5
      <4>. QED
        BY <4>1 DEF Apart
    <3>. QED
      BY <1>1, <2>1, <2>3, <3>1, ChainKept
  <2>5. Chain(m.nodes, left.head, v)
    BY <1>1, <1>5, <2>3, <2>4, ChainJoined
  <2>6. Len(v) = Len(s) + Len(t) /\ v # <<>> /\ v[1] = s[1] /\ v[Len(v)] = t[Len(t)]
    BY <1>2, <1>5
  <2>7. IsList(m.nodes, m.left, v)
    <3>. HIDE DEF v, m
    <3>. QED
      BY <2>1, <2>2, <2>5, <2>6 DEF IsList
  <2>8. \A d, u : Chain(ns, d, u) /\ Apart(u, s) => Chain(m.nodes, d, u)
    BY <1>1, <1>5, <2>3, OthersKept
  <2>9. \A x \in DOMAIN ns : Data(m.nodes[x]) = Data(ns[x])
    BY <2>3 DEF Relinked
  <2>. QED
    BY <2>2, <2>3, <2>7, <2>8, <2>9 DEF Merged
<1>. QED
  BY <1>3, <1>4, <1>5

-----------------------------------------------------------------------------
(* What sorting, walking and freeing do to the chains.                     *)

\* A change of what the nodes store changes no chain.
LEMMA ChainSameLinks ==
  ASSUME NEW ns, NEW m, DOMAIN m = DOMAIN ns, \A x \in DOMAIN ns : m[x].next = ns[x].next,
         NEW c, NEW t, Chain(ns, c, t)
  PROVE  Chain(m, c, t)
<1>1. \A i \in 1..Len(t) : t[i] \in DOMAIN ns
  BY DEF Chain
<1>. QED
  BY <1>1 DEF Chain

Swapped(ns, m, x, y) ==
  /\ NodesOK(m) /\ DOMAIN m = DOMAIN ns
  /\ \A z \in DOMAIN ns : m[z].next = ns[z].next
  /\ Data(m[x]) = Data(ns[y]) /\ Data(m[y]) = Data(ns[x])
  /\ \A z \in DOMAIN ns \ {x, y} : Data(m[z]) = Data(ns[z])

\* IntersectionEventNode_swapData() leaves the links as they are.
LEMMA SwapKeepsLinks ==
  ASSUME NEW ns, NodesOK(ns), NEW x \in DOMAIN ns, NEW y \in DOMAIN ns
  PROVE  Swapped(ns, swapData(ns, x, y), x, y)
<1>. DEFINE m == swapData(ns, x, y)
            With(n, o) == [n EXCEPT !.l1 = o.l1, !.l2 = o.l2, !.type = o.type]
<1>1. /\ m \in [DOMAIN ns -> Node] /\ DOMAIN m = DOMAIN ns
      /\ m[x] = With(ns[x], ns[y]) /\ m[y] = With(ns[y], ns[x])
      /\ \A z \in DOMAIN ns \ {x, y} : m[z] = ns[z]
  <2>1. ns \in [DOMAIN ns -> Node] /\ ns[x] \in Node /\ ns[y] \in Node
    BY DEF NodesOK
  <2>2. /\ With(ns[x], ns[y]) \in Node /\ With(ns[y], ns[x]) \in Node
        /\ With(ns[x], ns[x]) = ns[x]
    BY <2>1 DEF Node
  <2>3. DOMAIN m = DOMAIN ns
    BY DEF swapData
  <2>4. \A z \in DOMAIN ns \ {x, y} : m[z] = ns[z]
    BY <2>1 DEF swapData
  <2>5. CASE x # y
    <3>1. m[x] = With(ns[x], ns[y]) /\ m[y] = With(ns[y], ns[x])
      BY <2>1, <2>5 DEF swapData, Node
    <3>2. m = [z \in DOMAIN ns |-> m[z]]
      BY DEF swapData
    <3>. HIDE DEF m, With
    <3>. QED
      BY <2>1, <2>2, <2>3, <2>4, <3>1, <3>2
  <2>6. CASE x = y
    <3>1. m[x] = With(ns[x], ns[y]) /\ m[y] = With(ns[y], ns[x])
      BY <2>1, <2>2, <2>6 DEF swapData, Node
    <3>2. m = [z \in DOMAIN ns |-> m[z]]
      BY DEF swapData
    <3>. HIDE DEF m, With
    <3>. QED
      BY <2>1, <2>2, <2>3, <2>4, <3>1, <3>2
  <2>. QED
    BY <2>5, <2>6
<1>2. \A n, o \in Node : /\ With(n, o).next = n.next
                         /\ Data(With(n, o)) = Data(o)
  BY DEF Node, Data
<1>3. ns[x] \in Node /\ ns[y] \in Node /\ \A z \in DOMAIN ns : Data(ns[z]) \in Events
      /\ DOMAIN ns \subseteq Addresses
  BY DEF NodesOK
<1>. HIDE DEF m, With
<1>4. /\ Data(m[x]) = Data(ns[y]) /\ Data(m[y]) = Data(ns[x])
      /\ m[x].next = ns[x].next /\ m[y].next = ns[y].next
  BY <1>1, <1>2, <1>3
<1>5. \A z \in DOMAIN ns : m[z].next = ns[z].next
  BY <1>1, <1>4
<1>6. \A z \in DOMAIN ns : Data(m[z]) \in Events
  BY <1>1, <1>3, <1>4
<1>7. NodesOK(m)
  BY <1>1, <1>3, <1>6 DEF NodesOK
<1>. QED
  BY <1>1, <1>4, <1>5, <1>7 DEF Swapped, m

\* The end of a chain is a chain.
LEMMA ChainEnd ==
  ASSUME NEW ns, NEW a, NEW s, Chain(ns, a, s), NEW p \in 1..Len(s)
  PROVE  /\ Chain(ns, s[p], SubSeq(s, p, Len(s)))
         /\ Len(SubSeq(s, p, Len(s))) = Len(s) - p + 1
         /\ \A i \in 1..(Len(s) - p + 1) : SubSeq(s, p, Len(s))[i] = s[p + i - 1]
<1>. DEFINE t == SubSeq(s, p, Len(s))  n == Len(s) - p + 1
<1>1. s \in Seq(DOMAIN ns) /\ Len(s) \in Nat /\ p \in Nat /\ n \in Nat /\ n > 0
  BY DEF Chain
<1>2. Len(t) = n /\ t \in Seq(DOMAIN ns) /\ \A i \in 1..n : t[i] = s[p + i - 1]
  <2>1. Len(t) = n /\ \A i \in 1..n : t[i] = s[p + i - 1]
    BY <1>1
  <2>2. \A i \in 1..n : p + i - 1 \in 1..Len(s)
    BY <1>1
  <2>3. \A i \in 1..n : t[i] \in DOMAIN ns
    BY <1>1, <2>1, <2>2
  <2>4. t = [i \in 1..n |-> t[i]]
    BY <1>1
  <2>. QED
    BY <1>1, <2>1, <2>3, <2>4
<1>. HIDE DEF t
<1>3. \A i, j \in 1..n : t[i] = t[j] => i = j
  <2>. SUFFICES ASSUME NEW i \in 1..n, NEW j \in 1..n, t[i] = t[j]
                PROVE  i = j
    OBVIOUS
  <2>1. p + i - 1 \in 1..Len(s) /\ p + j - 1 \in 1..Len(s) /\ s[p + i - 1] = s[p + j - 1]
    BY <1>1, <1>2
  <2>2. p + i - 1 = p + j - 1
    BY <2>1 DEF Chain
  <2>. QED
    BY <1>1, <2>2
<1>4. t # <<>> /\ t[1] = s[p]
  <2>1. 1 \in 1..n /\ p + 1 - 1 = p
    BY <1>1
  <2>. QED
    BY <1>2, <2>1
<1>5. ASSUME NEW i \in 1..n
      PROVE  ns[t[i]].next = (IF i = n THEN NULL ELSE t[i + 1])
  <2>1. p + i - 1 \in 1..Len(s) /\ (p + i - 1 = Len(s) <=> i = n) /\ (p + i - 1) + 1 = p + (i + 1) - 1
    BY <1>1
  <2>2. t[i] = s[p + i - 1] /\ (i # n => t[i + 1] = s[p + (i + 1) - 1])
    BY <1>1, <1>2
  <2>3. ns[s[p + i - 1]].next = (IF p + i - 1 = Len(s) THEN NULL ELSE s[(p + i - 1) + 1])
    BY <2>1 DEF Chain
  <2>. QED
    BY <2>1, <2>2, <2>3
<1>6. Chain(ns, s[p], t)
  BY <1>2, <1>3, <1>4, <1>5 DEF Chain
<1>. QED
  BY <1>2, <1>6 DEF t

\* What is left of a list when its first node is freed
LEMMA ChainFreed ==
  ASSUME NEW ns, NodesOK(ns), NEW a, NEW s, Chain(ns, a, s), s # <<>>,
         NEW m, m = [x \in DOMAIN ns \ {a} |-> ns[x]]
  PROVE  /\ a \in DOMAIN ns /\ NodesOK(m) /\ Chain(m, ns[a].next, Tail(s))
         /\ \A i \in 1..(Len(s) - 1) : Tail(s)[i] = s[i + 1]
         /\ Len(Tail(s)) = Len(s) - 1
<1>. DEFINE t == Tail(s)  n == Len(s) - 1
<1>1. s \in Seq(DOMAIN ns) /\ Len(s) \in Nat /\ n \in Nat /\ a = s[1] /\ 1 \in 1..Len(s) /\ a \in DOMAIN ns
  BY DEF Chain
<1>2. Len(t) = n /\ \A i \in 1..n : t[i] = s[i + 1] /\ i + 1 \in 1..Len(s)
  BY <1>1
<1>3. \A i \in 1..n : t[i] \in DOMAIN m /\ t[i] # a
  <2>. TAKE i \in 1..n
  <2>1. t[i] = s[i + 1] /\ i + 1 \in 1..Len(s) /\ i + 1 # 1
    BY <1>1, <1>2
  <2>2. s[i + 1] # s[1] /\ s[i + 1] \in DOMAIN ns
    BY <1>1, <2>1 DEF Chain
  <2>. QED
    BY <1>1, <2>1, <2>2
<1>4. t \in Seq(DOMAIN m)
  <2>1. t = [i \in 1..n |-> t[i]]
    <3>1. t \in Seq(DOMAIN ns)
      BY <1>1
    <3>. HIDE DEF t, n
    <3>2. Len(t) = n
      BY <1>2
    <3>. QED
      BY <3>1, <3>2
  <2>. HIDE DEF t
  <2>. QED
    BY <1>1, <1>2, <1>3, <2>1
<1>5. NodesOK(m)
  BY DEF NodesOK
<1>. HIDE DEF t
<1>6. \A i, j \in 1..n : t[i] = t[j] => i = j
  <2>. SUFFICES ASSUME NEW i \in 1..n, NEW j \in 1..n, t[i] = t[j]
                PROVE  i = j
    OBVIOUS
  <2>1. i + 1 = j + 1
    BY <1>2 DEF Chain
  <2>. QED
    BY <1>1, <2>1
<1>7. ns[a].next = (IF t = <<>> THEN NULL ELSE t[1])
  <2>1. ns[s[1]].next = (IF 1 = Len(s) THEN NULL ELSE s[1 + 1])
    BY <1>1 DEF Chain
  <2>2. t = <<>> <=> Len(s) = 1
    BY <1>1, <1>2, <1>4
  <2>3. t # <<>> => t[1] = s[1 + 1]
    BY <1>1, <1>2, <2>2
  <2>. QED
    BY <1>1, <2>1, <2>2, <2>3
<1>8. ASSUME NEW i \in 1..n
      PROVE  m[t[i]].next = (IF i = n THEN NULL ELSE t[i + 1])
  <2>1. m[t[i]] = ns[s[i + 1]]
    BY <1>2, <1>3
  <2>2. ns[s[i + 1]].next = (IF i + 1 = Len(s) THEN NULL ELSE s[(i + 1) + 1])
    BY <1>2 DEF Chain
  <2>3. i # n => t[i + 1] = s[(i + 1) + 1]
    BY <1>1, <1>2
  <2>. QED
    BY <1>1, <2>1, <2>2, <2>3
<1>9. Chain(m, ns[a].next, t)
  BY <1>2, <1>4, <1>6, <1>7, <1>8 DEF Chain
<1>. QED
  BY <1>1, <1>2, <1>5, <1>9 DEF t

\* sort_IntersectionEventList() finds a least node.
IsLeast(at, i) ==
  /\ i \in DOMAIN at
  /\ \A j \in DOMAIN at : compareData(nodes[at[i]], nodes[at[j]]) <= 0
  /\ \A j \in 1..(i - 1) : compareData(nodes[at[i]], nodes[at[j]]) # 0

LEMMA LeastThereIs ==
  ASSUME NodesOK(nodes), NEW at \in Seq(DOMAIN nodes), at # <<>>
  PROVE  IsLeast(at, Least(at))
<1>. DEFINE K == DOMAIN at
            l1(i) == nodes[at[i]].l1
            l2(i) == nodes[at[i]].l2
<1>1. K = 1..Len(at) /\ 1 \in K /\ Len(at) \in Nat
  OBVIOUS
<1>2. \A i \in K : l1(i) \in Nat /\ l2(i) \in Nat
  <2>. TAKE i \in K
  <2>1. nodes[at[i]] \in Node
    BY DEF NodesOK
  <2>. QED
    BY <2>1, NodeFields
<1>. HIDE DEF l1, l2
<1>3. PICK i1 \in K : \A j \in K : l1(i1) <= l1(j)
  <2>. DEFINE S == {l1(j) : j \in K}
  <2>1. S \in SUBSET Nat /\ S # {}
    BY <1>1, <1>2
  <2>2. PICK n \in S : \A k \in S : n <= k
    <3>. HIDE DEF S
    <3>. QED
      BY <2>1, LeastNatural
  <2>. QED
    BY <2>2
<1>4. PICK i2 \in K : l1(i2) = l1(i1) /\ \A j \in K : l1(j) = l1(i1) => l2(i2) <= l2(j)
  <2>. DEFINE S == {l2(j) : j \in {k \in K : l1(k) = l1(i1)}}
  <2>1. S \in SUBSET Nat /\ S # {}
    BY <1>2, <1>3
  <2>2. PICK n \in S : \A k \in S : n <= k
    <3>. HIDE DEF S
    <3>. QED
      BY <2>1, LeastNatural
  <2>. QED
    BY <2>2
<1>5. PICK i \in K : /\ l1(i) = l1(i1) /\ l2(i) = l2(i2)
                     /\ \A j \in K : l1(j) = l1(i1) /\ l2(j) = l2(i2) => i <= j
  <2>. DEFINE S == {k \in K : l1(k) = l1(i1) /\ l2(k) = l2(i2)}
  <2>1. S \in SUBSET Nat /\ S # {}
    BY <1>1, <1>4
  <2>2. PICK n \in S : \A k \in S : n <= k
    <3>. HIDE DEF S
    <3>. QED
      BY <2>1, LeastNatural
  <2>. QED
    BY <2>2
<1>6. ASSUME NEW j \in K
      PROVE  compareData(nodes[at[i]], nodes[at[j]]) <= 0
  <2>1. l1(i) < l1(j) \/ (l1(i) = l1(j) /\ l2(i) <= l2(j))
    BY <1>2, <1>3, <1>4, <1>5
  <2>. QED
    BY <1>2, <2>1 DEF compareData, l1, l2
<1>7. ASSUME NEW j \in 1..(i - 1)
      PROVE  compareData(nodes[at[i]], nodes[at[j]]) # 0
  <2>1. j \in K /\ ~(i <= j)
    BY <1>1
  <2>2. ~(l1(j) = l1(i) /\ l2(j) = l2(i))
    BY <1>5, <2>1
  <2>. QED
    BY <1>2, <2>2 DEF compareData, l1, l2
<1>8. IsLeast(at, i)
  BY <1>6, <1>7 DEF IsLeast
<1>9. Least(at) = CHOOSE k : IsLeast(at, k)
  <2>1. Least(at) = CHOOSE k \in K :
                      /\ \A j \in K : compareData(nodes[at[k]], nodes[at[j]]) <= 0
                      /\ \A j \in 1..(k - 1) : compareData(nodes[at[k]], nodes[at[j]]) # 0
    BY DEF Least
  <2>. QED
    BY <2>1 DEF IsLeast
<1>. QED
  BY <1>8, <1>9

-----------------------------------------------------------------------------
(* The views of the strands, as chains.                                    *)

Stores(ns, s, p) ==
  p \in Seq(Events) /\ Len(p) = Len(s) /\ \A k \in 1..Len(s) : Data(ns[s[k]]) = p[k]

\* c has the chain of each view: it stores what the view has promised, they have
\* no node in common, and every node is in one of them.
Holds(ns, vs, ps, c) ==
  /\ \A i \in 1..Len(vs) : IsList(ns, vs[i], c[i]) /\ Stores(ns, c[i], ps[i])
  /\ \A i, j \in 1..Len(vs) : i # j => Apart(c[i], c[j])
  /\ \A a \in DOMAIN ns : \E i \in 1..Len(vs) : a \in Range(c[i])

LEMMA RangeOfChain ==
  ASSUME NEW ns, NEW a, NEW s, Chain(ns, a, s)
  PROVE  /\ Range(s) \subseteq DOMAIN ns
         /\ \A x : x \in Range(s) <=> \E k \in 1..Len(s) : s[k] = x
<1>1. DOMAIN s = 1..Len(s) /\ \A k \in 1..Len(s) : s[k] \in DOMAIN ns
  BY DEF Chain
<1>. QED
  BY <1>1 DEF Range

LEMMA ApartSymmetric ==
  ASSUME NEW s, NEW t, Apart(s, t)
  PROVE  Apart(t, s)
BY DEF Apart

LEMMA ConcatApart ==
  ASSUME NEW S, NEW s \in Seq(S), NEW t \in Seq(S), NEW u, Apart(s, u), Apart(t, u)
  PROVE  Apart(s \o t, u)
<1>. SUFFICES ASSUME NEW i \in 1..Len(s \o t), NEW j \in 1..Len(u)
              PROVE  (s \o t)[i] # u[j]
  BY DEF Apart
<1>1. CASE i <= Len(s)
  <2>1. i \in 1..Len(s) /\ (s \o t)[i] = s[i]
    BY <1>1
  <2>. QED
    BY <2>1 DEF Apart
<1>2. CASE i > Len(s)
  <2>1. i - Len(s) \in 1..Len(t) /\ (s \o t)[i] = t[i - Len(s)]
    BY <1>2
  <2>. QED
    BY <2>1 DEF Apart
<1>. QED
  BY <1>1, <1>2

LEMMA ConcatRange ==
  ASSUME NEW S, NEW s \in Seq(S), NEW t \in Seq(S)
  PROVE  Range(s \o t) = Range(s) \cup Range(t)
<1>1. \A i \in 1..Len(s) : i \in 1..Len(s \o t) /\ (s \o t)[i] = s[i]
  OBVIOUS
<1>2. \A i \in 1..Len(t) : Len(s) + i \in 1..Len(s \o t) /\ (s \o t)[Len(s) + i] = t[i]
  OBVIOUS
<1>3. \A i \in 1..Len(s \o t) :
        \/ i \in 1..Len(s) /\ (s \o t)[i] = s[i]
        \/ i - Len(s) \in 1..Len(t) /\ (s \o t)[i] = t[i - Len(s)]
  OBVIOUS
<1>4. DOMAIN s = 1..Len(s) /\ DOMAIN t = 1..Len(t) /\ DOMAIN (s \o t) = 1..Len(s \o t)
  OBVIOUS
<1>5. ASSUME NEW x \in Range(s \o t) PROVE x \in Range(s) \cup Range(t)
  <2>1. PICK i \in 1..Len(s \o t) : x = (s \o t)[i]
    BY <1>4 DEF Range
  <2>. QED
    BY <1>3, <1>4, <2>1 DEF Range
<1>6. ASSUME NEW x \in Range(s) PROVE x \in Range(s \o t)
  <2>1. PICK i \in 1..Len(s) : x = s[i]
    BY <1>4 DEF Range
  <2>. QED
    BY <1>1, <1>4, <2>1 DEF Range
<1>7. ASSUME NEW x \in Range(t) PROVE x \in Range(s \o t)
  <2>1. PICK i \in 1..Len(t) : x = t[i]
    BY <1>4 DEF Range
  <2>. QED
    BY <1>2, <1>4, <2>1 DEF Range
<1>. QED
  BY <1>5, <1>6, <1>7

LEMMA ConcatStores ==
  ASSUME NEW ns, NEW S, NEW s \in Seq(S), NEW t \in Seq(S), NEW p, NEW q, Stores(ns, s, p), Stores(ns, t, q)
  PROVE  Stores(ns, s \o t, p \o q)
<1>1. /\ p \in Seq(Events) /\ q \in Seq(Events) /\ Len(p) = Len(s) /\ Len(q) = Len(t)
      /\ p \o q \in Seq(Events) /\ Len(p \o q) = Len(s \o t)
  BY DEF Stores
<1>2. ASSUME NEW k \in 1..Len(s \o t)
      PROVE  Data(ns[(s \o t)[k]]) = (p \o q)[k]
  <2>1. CASE k <= Len(s)
    <3>1. k \in 1..Len(s) /\ (s \o t)[k] = s[k] /\ (p \o q)[k] = p[k]
      BY <1>1, <2>1
    <3>. QED
      BY <3>1 DEF Stores
  <2>2. CASE k > Len(s)
    <3>1. k - Len(s) \in 1..Len(t) /\ (s \o t)[k] = t[k - Len(s)] /\ (p \o q)[k] = q[k - Len(s)]
      BY <1>1, <2>2
    <3>. QED
      BY <3>1 DEF Stores
  <2>3. k <= Len(s) \/ k > Len(s)
    <3>1. k \in Int /\ Len(s) \in Int
      OBVIOUS
    <3>. QED
      BY <3>1
  <2>. QED
    BY <2>1, <2>2, <2>3
<1>. QED
  BY <1>1, <1>2 DEF Stores

\* Nodes that keep their data store what they stored.
LEMMA StoresKept ==
  ASSUME NEW ns, NEW m, \A x \in DOMAIN ns : Data(m[x]) = Data(ns[x]),
         NEW a, NEW s, Chain(ns, a, s), NEW p, Stores(ns, s, p)
  PROVE  Stores(m, s, p)
<1>1. \A k \in 1..Len(s) : s[k] \in DOMAIN ns
  BY DEF Chain
<1>. QED
  BY <1>1 DEF Stores

\* Of the views, the one at i got the event e in a node at a.
GotNode(vs, ps, ws, qs, i, a, e) ==
  /\ Len(ws) = Len(vs)
  /\ \A j \in 1..Len(vs) : /\ ws[j] = (IF j = i THEN Appended(vs[i], a) ELSE vs[j])
                            /\ qs[j] = (IF j = i THEN Append(ps[i], e) ELSE ps[j])

\* The views when one of them got a node
LEMMA HoldsAppended ==
  ASSUME NEW ns, NodesOK(ns), NEW vs, NEW ps, NEW c, Holds(ns, vs, ps, c),
         Len(vs) \in Nat, NEW i \in 1..Len(vs), NEW a \in Addresses \ DOMAIN ns, NEW e \in Events,
         NEW m, m = WithNode(ns, vs[i], a, e),
         NEW ws, NEW qs, GotNode(vs, ps, ws, qs, i, a, e)
  PROVE  NodesOK(m) /\ \E d : Holds(m, ws, qs, d)
<1>. DEFINE s == c[i]
            d == [j \in 1..Len(vs) |-> IF j = i THEN s \o <<a>> ELSE c[j]]
<1>1. IsList(ns, vs[i], s) /\ Stores(ns, s, ps[i]) /\ Chain(ns, vs[i].head, s)
  BY DEF Holds, IsList
<1>2. WithNodeOK(ns, m, vs[i], s, a, e)
  BY <1>1, AppendedList
<1>3. /\ NodesOK(m) /\ DOMAIN m = DOMAIN ns \cup {a}
      /\ Data(m[a]) = e /\ \A x \in DOMAIN ns : Data(m[x]) = Data(ns[x])
  BY <1>2 DEF WithNodeOK
<1>4. \A j \in 1..Len(vs) : /\ IsList(ns, vs[j], c[j]) /\ Chain(ns, vs[j].head, c[j])
                            /\ Range(c[j]) \subseteq DOMAIN ns
  <2>1. \A j \in 1..Len(vs) : IsList(ns, vs[j], c[j])
    BY DEF Holds
  <2>2. \A j \in 1..Len(vs) : Chain(ns, vs[j].head, c[j])
    BY <2>1 DEF IsList
  <2>. QED
    BY <2>1, <2>2, RangeOfChain
<1>5. s \in Seq(DOMAIN m) /\ <<a>> \in Seq(DOMAIN m) /\ Len(<<a>>) = 1 /\ <<a>>[1] = a
  <2>1. s \in Seq(DOMAIN ns)
    BY <1>1 DEF Chain
  <2>. QED
    BY <1>3, <2>1
<1>6. Stores(m, s \o <<a>>, Append(ps[i], e))
  <2>1. Stores(m, s, ps[i])
    BY <1>1, <1>3, StoresKept
  <2>2. Stores(m, <<a>>, <<e>>)
    <3>1. <<e>> \in Seq(Events) /\ Len(<<e>>) = 1 /\ <<e>>[1] = e
      OBVIOUS
    <3>. QED
      BY <1>3, <1>5, <3>1 DEF Stores
  <2>3. Append(ps[i], e) = ps[i] \o <<e>>
    BY <1>1 DEF Stores
  <2>. HIDE DEF s
  <2>4. Stores(m, s \o <<a>>, ps[i] \o <<e>>)
    BY <1>5, <2>1, <2>2, ConcatStores
  <2>. QED
    BY <2>3, <2>4
<1>7. \A j \in 1..Len(vs) : Apart(c[j], <<a>>)
  <2>. TAKE j \in 1..Len(vs)
  <2>1. \A k \in 1..Len(c[j]) : c[j][k] \in DOMAIN ns
    BY <1>4 DEF Chain
  <2>. QED
    BY <1>5, <2>1 DEF Apart
<1>. HIDE DEF s
<1>8. ASSUME NEW j \in 1..Len(vs)
      PROVE  IsList(m, ws[j], d[j]) /\ Stores(m, d[j], qs[j])
  <2>1. CASE j = i
    <3>1. d[j] = s \o <<a>> /\ ws[j] = Appended(vs[i], a) /\ qs[j] = Append(ps[i], e)
      BY <2>1 DEF GotNode
    <3>. QED
      BY <1>2, <1>6, <3>1 DEF WithNodeOK
  <2>2. CASE j # i
    <3>1. d[j] = c[j] /\ ws[j] = vs[j] /\ qs[j] = ps[j]
      BY <2>2 DEF GotNode
    <3>2. Apart(c[j], s)
      BY <2>2 DEF Holds, s
    <3>3. Chain(m, vs[j].head, c[j])
      BY <1>2, <1>4, <3>2 DEF WithNodeOK
    <3>4. IsList(m, vs[j], c[j])
      BY <1>4, <3>3 DEF IsList
    <3>5. Stores(ns, c[j], ps[j])
      BY DEF Holds
    <3>6. Stores(m, c[j], ps[j])
      BY <1>3, <1>4, <3>5, StoresKept
    <3>. QED
      BY <3>1, <3>4, <3>6
  <2>. QED
    BY <2>1, <2>2
<1>9. \A j \in 1..Len(vs) : j # i => Apart(s \o <<a>>, c[j])
  <2>. SUFFICES ASSUME NEW j \in 1..Len(vs), j # i
                PROVE  Apart(s \o <<a>>, c[j])
    OBVIOUS
  <2>1. Apart(s, c[j])
    BY DEF Holds, s
  <2>2. Apart(<<a>>, c[j])
    BY <1>7, ApartSymmetric
  <2>. QED
    BY <1>5, <2>1, <2>2, ConcatApart
<1>10. \A j, k \in 1..Len(vs) : j # k => Apart(d[j], d[k])
  <2>. SUFFICES ASSUME NEW j \in 1..Len(vs), NEW k \in 1..Len(vs), j # k
                PROVE  Apart(d[j], d[k])
    OBVIOUS
  <2>1. CASE j = i
    <3>1. d[j] = s \o <<a>> /\ d[k] = c[k] /\ k # i
      BY <2>1
    <3>. QED
      BY <1>9, <3>1
  <2>2. CASE k = i
    <3>1. d[k] = s \o <<a>> /\ d[j] = c[j] /\ j # i
      BY <2>2
    <3>2. Apart(s \o <<a>>, c[j])
      BY <1>9, <3>1
    <3>. QED
      BY <3>1, <3>2, ApartSymmetric
  <2>3. CASE j # i /\ k # i
    <3>1. d[k] = c[k] /\ d[j] = c[j]
      BY <2>3
    <3>. QED
      BY <3>1 DEF Holds
  <2>. QED
    BY <2>1, <2>2, <2>3
<1>11. Range(s \o <<a>>) = Range(s) \cup {a}
  <2>1. Range(<<a>>) = {a}
    BY <1>5 DEF Range
  <2>. DEFINE u == <<a>>
  <2>2. u \in Seq(DOMAIN m)
    BY <1>5
  <2>. HIDE DEF u
  <2>3. Range(s \o u) = Range(s) \cup Range(u)
    BY <1>5, <2>2, ConcatRange
  <2>. QED
    BY <2>1, <2>3 DEF u
<1>12. ASSUME NEW x \in DOMAIN m
       PROVE  \E j \in 1..Len(vs) : x \in Range(d[j])
  <2>1. CASE x = a
    <3>1. x \in Range(d[i])
      BY <1>11, <2>1
    <3>. QED
      BY <3>1
  <2>2. CASE x # a
    <3>1. PICK j \in 1..Len(vs) : x \in Range(c[j])
      BY <1>3, <2>2 DEF Holds
    <3>2. x \in Range(d[j])
      BY <1>11, <3>1 DEF s
    <3>. QED
      BY <3>2
  <2>. QED
    BY <2>1, <2>2
<1>. HIDE DEF d
<1>13. Holds(m, ws, qs, d)
  BY <1>8, <1>10, <1>12 DEF Holds, GotNode
<1>. QED
  BY <1>3, <1>13

Joined(s, n, i, x) ==
  [j \in 1..(n - 1) |-> IF j < i THEN s[j] ELSE IF j = i THEN x ELSE s[j + 1]]

\* The views at i and i + 1 were merged.
GotMerged(vs, ps, ws, qs, n, i, left) ==
  /\ Len(vs) = n /\ Len(ws) = n - 1
  /\ \A j \in 1..(n - 1) :
       /\ ws[j] = (IF j < i THEN vs[j] ELSE IF j = i THEN left ELSE vs[j + 1])
       /\ qs[j] = (IF j < i THEN ps[j] ELSE IF j = i THEN ps[i] \o ps[i + 1] ELSE ps[j + 1])

\* The views when two neighbours were merged
LEMMA HoldsMerged ==
  ASSUME NEW ns, NodesOK(ns), NEW vs, NEW ps, NEW c, Holds(ns, vs, ps, c),
         NEW n, n \in Nat, NEW i, i \in 1..(n - 1),
         NEW m, m = mergeNodes(ns, vs[i], vs[i + 1]),
         NEW ws, NEW qs, GotMerged(vs, ps, ws, qs, n, i, m.left)
  PROVE  NodesOK(m.nodes) /\ m.right = Empty /\ \E d : Holds(m.nodes, ws, qs, d)
<1>. DEFINE v == c[i] \o c[i + 1]
            d == Joined(c, n, i, v)
            from(j) == IF j < i THEN j ELSE j + 1
<1>1. i \in 1..n /\ i + 1 \in 1..n /\ i # i + 1
  OBVIOUS
<1>. n = Len(vs)
  BY DEF GotMerged
<1>2. \A j \in 1..n : IsList(ns, vs[j], c[j]) /\ Chain(ns, vs[j].head, c[j]) /\ Stores(ns, c[j], ps[j])
  <2>1. \A j \in 1..n : IsList(ns, vs[j], c[j]) /\ Stores(ns, c[j], ps[j])
    BY DEF Holds
  <2>. QED
    BY <2>1 DEF IsList
<1>3. \A j, k \in 1..n : j # k => Apart(c[j], c[k])
  BY DEF Holds
<1>4. Merged(ns, m, c[i], c[i + 1])
  <2>1. Apart(c[i], c[i + 1])
    BY <1>1, <1>3
  <2>. QED
    BY <1>1, <1>2, <2>1, MergedLists
<1>5. /\ NodesOK(m.nodes) /\ DOMAIN m.nodes = DOMAIN ns /\ m.right = Empty
      /\ \A x \in DOMAIN ns : Data(m.nodes[x]) = Data(ns[x])
      /\ IsList(m.nodes, m.left, v)
  BY <1>4 DEF Merged
<1>6. c[i] \in Seq(DOMAIN ns) /\ c[i + 1] \in Seq(DOMAIN ns)
  <2>1. Chain(ns, vs[i].head, c[i]) /\ Chain(ns, vs[i + 1].head, c[i + 1])
    BY <1>1, <1>2
  <2>. QED
    BY <2>1 DEF Chain
<1>7. \A j \in 1..n : Stores(m.nodes, c[j], ps[j])
  BY <1>2, <1>5, StoresKept
<1>8. Stores(m.nodes, v, ps[i] \o ps[i + 1])
  <2>1. Stores(m.nodes, c[i], ps[i]) /\ Stores(m.nodes, c[i + 1], ps[i + 1])
    BY <1>1, <1>7
  <2>. QED
    BY <1>6, <2>1, ConcatStores
<1>9. \A j \in 1..n : j # i /\ j # i + 1 => Apart(v, c[j])
  <2>. SUFFICES ASSUME NEW j \in 1..n, j # i, j # i + 1
                PROVE  Apart(v, c[j])
    OBVIOUS
  <2>1. Apart(c[i], c[j]) /\ Apart(c[i + 1], c[j])
    BY <1>1, <1>3
  <2>. QED
    BY <1>6, <2>1, ConcatApart
<1>10. Range(v) = Range(c[i]) \cup Range(c[i + 1])
  BY <1>6, ConcatRange
<1>11. \A j \in 1..(n - 1) : j # i => from(j) \in 1..n /\ from(j) # i /\ from(j) # i + 1
  OBVIOUS
<1>12. \A j, k \in 1..(n - 1) : from(j) = from(k) => j = k
  OBVIOUS
<1>. HIDE DEF v
<1>13. /\ d[i] = v /\ ws[i] = m.left /\ qs[i] = ps[i] \o ps[i + 1]
       /\ \A j \in 1..(n - 1) : j # i => /\ d[j] = c[from(j)] /\ ws[j] = vs[from(j)]
                                         /\ qs[j] = ps[from(j)]
  <2>1. \A j \in 1..(n - 1) : d[j] = (IF j < i THEN c[j] ELSE IF j = i THEN v ELSE c[j + 1])
    BY DEF Joined
  <2>2. i \in 1..(n - 1) /\ ~(i < i)
    OBVIOUS
  <2>. HIDE DEF d
  <2>3. d[i] = v /\ ws[i] = m.left /\ qs[i] = ps[i] \o ps[i + 1]
    BY <2>1, <2>2 DEF GotMerged
  <2>4. ASSUME NEW j \in 1..(n - 1), j # i
        PROVE  d[j] = c[from(j)] /\ ws[j] = vs[from(j)] /\ qs[j] = ps[from(j)]
    BY <2>1, <2>4 DEF GotMerged
  <2>. QED
    BY <2>3, <2>4
<1>. HIDE DEF d, from
<1>14. ASSUME NEW j \in 1..(n - 1)
       PROVE  IsList(m.nodes, ws[j], d[j]) /\ Stores(m.nodes, d[j], qs[j])
  <2>1. CASE j = i
    BY <1>5, <1>8, <1>13, <2>1
  <2>2. CASE j # i
    <3>. DEFINE o == from(j)
    <3>1. /\ o \in 1..n /\ o # i /\ d[j] = c[o] /\ ws[j] = vs[o] /\ qs[j] = ps[o]
      BY <1>11, <1>13, <2>2
    <3>. HIDE DEF o
    <3>2. Chain(ns, vs[o].head, c[o]) /\ Apart(c[o], c[i])
      BY <1>1, <1>2, <1>3, <3>1
    <3>3. Chain(m.nodes, vs[o].head, c[o])
      BY <1>4, <3>2 DEF Merged
    <3>4. IsList(m.nodes, vs[o], c[o])
      BY <1>2, <3>1, <3>3 DEF IsList
    <3>. QED
      BY <1>7, <3>1, <3>4
  <2>. QED
    BY <2>1, <2>2
<1>15. ASSUME NEW j \in 1..(n - 1), NEW k \in 1..(n - 1), j # k
       PROVE  Apart(d[j], d[k])
  <2>1. CASE j = i
    <3>1. d[j] = v /\ d[k] = c[from(k)] /\ from(k) \in 1..n /\ from(k) # i /\ from(k) # i + 1
      BY <1>11, <1>13, <1>15, <2>1
    <3>. QED
      BY <1>9, <3>1
  <2>2. CASE k = i
    <3>1. d[k] = v /\ d[j] = c[from(j)] /\ from(j) \in 1..n /\ from(j) # i /\ from(j) # i + 1
      BY <1>11, <1>13, <1>15, <2>2
    <3>2. Apart(v, c[from(j)])
      BY <1>9, <3>1
    <3>. QED
      BY <3>1, <3>2, ApartSymmetric
  <2>3. CASE j # i /\ k # i
    <3>1. /\ d[j] = c[from(j)] /\ from(j) \in 1..n /\ d[k] = c[from(k)] /\ from(k) \in 1..n
          /\ from(j) # from(k)
      BY <1>11, <1>12, <1>13, <1>15, <2>3
    <3>. QED
      BY <1>3, <3>1
  <2>. QED
    BY <2>1, <2>2, <2>3
<1>16. ASSUME NEW x \in DOMAIN m.nodes
       PROVE  \E j \in 1..(n - 1) : x \in Range(d[j])
  <2>1. PICK j \in 1..n : x \in Range(c[j])
    BY <1>5 DEF Holds
  <2>2. CASE j \in {i, i + 1}
    <3>1. x \in Range(d[i])
      BY <1>10, <1>13, <2>1, <2>2
    <3>. QED
      BY <3>1
  <2>3. CASE j < i
    <3>1. j \in 1..(n - 1) /\ j # i /\ from(j) = j
      BY <2>3 DEF from
    <3>2. d[j] = c[j]
      BY <1>13, <3>1
    <3>. QED
      BY <2>1, <3>1, <3>2
  <2>4. CASE j > i + 1
    <3>1. j - 1 \in 1..(n - 1) /\ j - 1 # i /\ from(j - 1) = j
      BY <2>4 DEF from
    <3>2. d[j - 1] = c[j]
      BY <1>13, <3>1
    <3>. QED
      BY <2>1, <3>1, <3>2
  <2>. QED
    BY <2>2, <2>3, <2>4
<1>17. Holds(m.nodes, ws, qs, d)
  BY <1>14, <1>15, <1>16 DEF Holds, GotMerged
<1>. QED
  BY <1>5, <1>17

-----------------------------------------------------------------------------
(* The invariant of a time step.                                           *)

ListType == [head : Pointers, tail : Pointers, size : 0..Cardinality(Addresses)]

Typed ==
  /\ NodesOK(nodes)
  /\ views \in Seq(ListType) /\ work \in Seq(Seq(Events)) /\ promised \in Seq(Seq(Events))
  /\ Len(views) = Len(work) /\ Len(views) = Len(promised) /\ Len(views) > 0
  /\ list \in ListType /\ cursor \in Pointers /\ numLineLineCollisions \in Nat
  /\ pc \in {"idle", "detect", "sort", "solve", "delete"} /\ step \in 0..MaxSteps

\* s has all the nodes.
Covers(ns, s) == \A a \in DOMAIN ns : a \in Range(s)

\* Between two steps there is no node; while the strands run the views have them,
\* then the list has, and while it is freed what it has left.
IdleInv ==
  pc = "idle" => DOMAIN nodes = {} /\ views = <<Empty>> /\ list = Empty /\ cursor = NULL
DetectInv ==
  pc = "detect" => list = Empty /\ cursor = NULL /\ \E c : Holds(nodes, views, promised, c)
ListedInv ==
  pc \in {"sort", "solve"} =>
    /\ views = <<Empty>>
    /\ \E s : /\ IsList(nodes, list, s) /\ Covers(nodes, s) /\ Len(s) = Len(promised[1])
              /\ cursor = NULL \/ cursor \in Range(s)
DeleteInv ==
  pc = "delete" => views = <<Empty>> /\ \E s : Chain(nodes, cursor, s) /\ Covers(nodes, s)

ListInv == Typed /\ IdleInv /\ DetectInv /\ ListedInv /\ DeleteInv

LEMMA RemovedAt ==
  ASSUME NEW S, NEW s \in Seq(S), NEW i \in 1..Len(s)
  PROVE  /\ RemoveAt(s, i) \in Seq(S) /\ Len(RemoveAt(s, i)) = Len(s) - 1
         /\ \A j \in 1..(Len(s) - 1) : RemoveAt(s, i)[j] = (IF j < i THEN s[j] ELSE s[j + 1])
<1>. DEFINE p == SubSeq(s, 1, i - 1)  q == SubSeq(s, i + 1, Len(s))
<1>1. /\ p \in Seq(S) /\ Len(p) = i - 1 /\ \A j \in 1..(i - 1) : p[j] = s[j]
  <2>1. Len(p) = i - 1 /\ \A j \in 1..(i - 1) : p[j] = s[j]
    OBVIOUS
  <2>2. p = [j \in 1..(i - 1) |-> s[j]]
    OBVIOUS
  <2>. QED
    BY <2>1, <2>2
<1>2. /\ q \in Seq(S) /\ Len(q) = Len(s) - i /\ \A j \in 1..(Len(s) - i) : q[j] = s[i + j]
  <2>1. Len(q) = Len(s) - i /\ \A j \in 1..(Len(s) - i) : q[j] = s[i + j]
    OBVIOUS
  <2>2. \A j \in 1..(Len(s) - i) : i + j \in 1..Len(s)
    OBVIOUS
  <2>3. q = [j \in 1..(Len(s) - i) |-> q[j]]
    OBVIOUS
  <2>4. Len(s) - i \in Nat
    OBVIOUS
  <2>. HIDE DEF q
  <2>5. \A j \in 1..(Len(s) - i) : q[j] \in S
    BY <2>1, <2>2
  <2>. QED
    BY <2>1, <2>3, <2>4, <2>5
<1>3. RemoveAt(s, i) = p \o q
  BY DEF RemoveAt
<1>. HIDE DEF p, q
<1>4. Len(s) \in Nat /\ i \in Nat
  OBVIOUS
<1>5. p \o q \in Seq(S) /\ Len(p \o q) = Len(s) - 1
  <2>1. p \in Seq(S) /\ q \in Seq(S) /\ Len(p) = i - 1 /\ Len(q) = Len(s) - i
    BY <1>1, <1>2
  <2>2. p \o q \in Seq(S) /\ Len(p \o q) = Len(p) + Len(q)
    BY <2>1
  <2>. QED
    BY <1>4, <2>1, <2>2
<1>6. ASSUME NEW j \in 1..(Len(s) - 1)
      PROVE  (p \o q)[j] = (IF j < i THEN s[j] ELSE s[j + 1])
  <2>1. CASE j < i
    <3>1. j \in 1..Len(p) /\ (p \o q)[j] = p[j]
      BY <1>1, <1>2, <1>4, <2>1
    <3>. QED
      BY <1>1, <2>1, <3>1
  <2>2. CASE ~(j < i)
    <3>. DEFINE k == j - Len(p)
    <3>1. k \in 1..(Len(s) - i) /\ (p \o q)[j] = q[k] /\ i + k = j + 1
      BY <1>1, <1>2, <1>4, <2>2
    <3>. HIDE DEF k
    <3>2. q[k] = s[i + k]
      BY <1>2, <3>1
    <3>. QED
      BY <2>2, <3>1, <3>2
  <2>. QED
    BY <2>1, <2>2
<1>. QED
  BY <1>3, <1>5, <1>6

LEMMA ListIsTyped ==
  ASSUME NEW ns, NodesOK(ns), NEW lst, NEW s, IsList(ns, lst, s)
  PROVE  lst \in ListType
<1>1. /\ lst = [head |-> IF s = <<>> THEN NULL ELSE s[1],
                tail |-> IF s = <<>> THEN NULL ELSE s[Len(s)], size |-> Len(s)]
      /\ s \in Seq(DOMAIN ns)
  BY DEF IsList, Chain
<1>2. Len(s) \in 0..Cardinality(Addresses)
  <2>1. Chain(ns, lst.head, s)
    BY DEF IsList
  <2>2. Len(s) \in Nat /\ Len(s) <= Cardinality(DOMAIN ns)
    BY <2>1, ChainShort
  <2>3. Cardinality(Addresses) \in Nat
    BY EventListAssumption, FS_CardinalityType
  <2>4. Cardinality(DOMAIN ns) \in Nat /\ Cardinality(DOMAIN ns) <= Cardinality(Addresses)
    BY NodesFinite
  <2>. QED
    BY <2>2, <2>3, <2>4
<1>3. s # <<>> => s[1] \in Pointers /\ s[Len(s)] \in Pointers
  BY <1>1 DEF NodesOK, Pointers
<1>4. NULL \in Pointers
  BY DEF Pointers
<1>. QED
  BY <1>1, <1>2, <1>3, <1>4 DEF ListType

LEMMA HeldViewsTyped ==
  ASSUME NEW ns, NodesOK(ns), NEW vs, NEW ps, NEW c, Holds(ns, vs, ps, c)
  PROVE  \A i \in 1..Len(vs) : vs[i] \in ListType /\ ps[i] \in Seq(Events)
<1>. TAKE i \in 1..Len(vs)
<1>1. IsList(ns, vs[i], c[i]) /\ Stores(ns, c[i], ps[i])
  BY DEF Holds
<1>. QED
  BY <1>1, ListIsTyped DEF Stores

LEMMA SequenceOf ==
  ASSUME NEW S, NEW s \in Seq(S)
  PROVE  /\ DOMAIN s = 1..Len(s) /\ Len(s) \in Nat /\ s = [i \in 1..Len(s) |-> s[i]]
         /\ \A i \in 1..Len(s) : s[i] \in S
OBVIOUS

LEMMA SequenceIs ==
  ASSUME NEW S, NEW n \in Nat, NEW s, s = [i \in 1..n |-> s[i]], \A i \in 1..n : s[i] \in S
  PROVE  s \in Seq(S) /\ Len(s) = n
OBVIOUS

\* views, work and promised have one length.
LEMMA ViewIndices ==
  ASSUME Typed, NEW n, n = Len(views)
  PROVE  /\ DOMAIN views = 1..n /\ DOMAIN work = 1..n /\ DOMAIN promised = 1..n
         /\ n \in Nat /\ n > 0 /\ Len(work) = n /\ Len(promised) = n
         /\ \A i \in 1..n : views[i] \in ListType /\ work[i] \in Seq(Events) /\ promised[i] \in Seq(Events)
<1>1. /\ views \in Seq(ListType) /\ work \in Seq(Seq(Events)) /\ promised \in Seq(Seq(Events))
      /\ Len(work) = n /\ Len(promised) = n /\ n > 0
  BY DEF Typed
<1>2. DOMAIN views = 1..n /\ n \in Nat /\ \A i \in 1..n : views[i] \in ListType
  BY <1>1, SequenceOf
<1>3. DOMAIN work = 1..n /\ \A i \in 1..n : work[i] \in Seq(Events)
  BY <1>1, SequenceOf
<1>4. DOMAIN promised = 1..n /\ \A i \in 1..n : promised[i] \in Seq(Events)
  BY <1>1, SequenceOf
<1>. QED
  BY <1>1, <1>2, <1>3, <1>4

LEMMA NoNodes ==
  ASSUME NEW ns
  PROVE  IsList(ns, Empty, <<>>) /\ Chain(ns, NULL, <<>>) /\ Empty.head = NULL /\ Empty.tail = NULL /\ Empty.size = 0
BY DEF IsList, Chain, Empty

LEMMA EmptyIsTyped == Empty \in ListType /\ NULL \in Pointers
<1>1. Cardinality(Addresses) \in Nat
  BY EventListAssumption, FS_CardinalityType
<1>. QED
  BY <1>1 DEF Empty, ListType, Pointers

LEMMA InitListInv ==
  ASSUME Init
  PROVE  ListInv
<1>1. DOMAIN nodes = {} /\ NodesOK(nodes)
  BY DEF Init, NodesOK
<1>2. <<>> \in Seq(Events) /\ views \in Seq(ListType) /\ work \in Seq(Seq(Events)) /\ promised \in Seq(Seq(Events))
  BY EmptyIsTyped DEF Init
<1>3. Len(views) = Len(work) /\ Len(views) = Len(promised) /\ Len(views) > 0
  BY DEF Init
<1>4. Typed
  BY <1>1, <1>2, <1>3, EmptyIsTyped, EventListAssumption DEF Init, Typed
<1>. QED
  BY <1>1, <1>4 DEF Init, ListInv, IdleInv, DetectInv, ListedInv, DeleteInv

\* Whatever the strands will find, they begin with empty views.
LEMMA BeginListInv ==
  ASSUME ListInv, Begin
  PROVE  ListInv'
<1>. USE DEF ListInv
<1>1. PICK f \in Findings :
        /\ work' = f
        /\ views' = [i \in DOMAIN f |-> IF i = 1 THEN views[1] ELSE Empty]
        /\ promised' = [i \in DOMAIN f |-> <<>>]
  BY DEF Begin
<1>2. DOMAIN nodes = {} /\ views = <<Empty>> /\ list = Empty /\ cursor = NULL /\ views[1] = Empty
  BY DEF Begin, IdleInv
<1>3. f \in Seq(Seq([l1 : Nat, l2 : Nat, type : IntersectionType])) /\ f # <<>>
  BY EventListAssumption
<1>. DEFINE n == Len(f)
<1>4. DOMAIN f = 1..n /\ n \in Nat /\ n > 0
  BY <1>3
<1>5. f \in Seq(Seq(Events))
  <2>1. ASSUME NEW i \in 1..n PROVE f[i] \in Seq(Events)
    <3>1. f[i] \in Seq([l1 : Nat, l2 : Nat, type : IntersectionType])
      BY <1>3, <1>4, <2>1
    <3>2. \A k \in 1..Len(f[i]) : f[i][k] \in Events
      <4>. TAKE k \in 1..Len(f[i])
      <4>1. f[i][k] \in Range(f[i])
        BY <3>1 DEF Range
      <4>2. f[i][k] \in UNION {Range(f[j]) : j \in DOMAIN f}
        BY <1>4, <2>1, <4>1
      <4>. QED
        BY <4>2 DEF Events
    <3>. DEFINE g == f[i]  T == [l1 : Nat, l2 : Nat, type : IntersectionType]
    <3>3. g \in Seq(T) /\ \A k \in 1..Len(g) : g[k] \in Events
      BY <3>1, <3>2
    <3>. HIDE DEF g, T
    <3>4. g \in Seq(Events)
      BY <3>3
    <3>. QED
      BY <3>4 DEF g
  <2>2. f = [i \in 1..n |-> f[i]]
    BY <1>3
  <2>. QED
    BY <1>4, <2>1, <2>2
<1>6. /\ \A i \in 1..n : views'[i] = Empty /\ promised'[i] = <<>>
      /\ views' = [i \in 1..n |-> Empty] /\ promised' = [i \in 1..n |-> <<>>]
      /\ Len(views') = n /\ Len(promised') = n
  BY <1>1, <1>2, <1>4
<1>7. views' \in Seq(ListType) /\ promised' \in Seq(Seq(Events))
  <2>1. <<>> \in Seq(Events)
    OBVIOUS
  <2>. QED
    BY <1>4, <1>6, <2>1, EmptyIsTyped
<1>8. nodes' = nodes /\ list' = list /\ cursor' = cursor /\ pc' = "detect"
      /\ numLineLineCollisions' = numLineLineCollisions /\ step' = step + 1 /\ step < MaxSteps
  BY DEF Begin
<1>9. Typed'
  <2>1. NodesOK(nodes')
    BY <1>8 DEF Typed
  <2>2. step' \in 0..MaxSteps
    BY <1>8, EventListAssumption DEF Typed
  <2>. QED
    BY <1>1, <1>4, <1>5, <1>6, <1>7, <1>8, <2>1, <2>2 DEF Typed
<1>10. \E c : Holds(nodes', views', promised', c)
  <2>. DEFINE c == [i \in 1..n |-> <<>>]
  <2>1. ASSUME NEW i \in 1..n
        PROVE  IsList(nodes', views'[i], c[i]) /\ Stores(nodes', c[i], promised'[i])
    <3>1. views'[i] = Empty /\ promised'[i] = <<>> /\ c[i] = <<>>
      BY <1>6
    <3>2. Stores(nodes', <<>>, <<>>)
      BY DEF Stores
    <3>. QED
      BY <3>1, <3>2, NoNodes
  <2>2. \A i, j \in 1..n : Apart(c[i], c[j])
    BY DEF Apart
  <2>3. DOMAIN nodes' = {}
    BY <1>2, <1>8
  <2>. HIDE DEF c
  <2>4. Holds(nodes', views', promised', c)
    BY <1>6, <2>1, <2>2, <2>3 DEF Holds
  <2>. QED
    BY <2>4
<1>. QED
  BY <1>2, <1>8, <1>9, <1>10 DEF IdleInv, DetectInv, ListedInv, DeleteInv

LEMMA AppendNodeListInv ==
  ASSUME ListInv, NEW i \in DOMAIN views, AppendNode(i)
  PROVE  ListInv'
<1>. USE DEF ListInv
<1>1. PICK a \in Addresses \ DOMAIN nodes :
        /\ nodes' = WithNode(nodes, views[i], a, Head(work[i]))
        /\ views' = [views EXCEPT ![i] = Appended(views[i], a)]
  BY DEF AppendNode
<1>. DEFINE e == Head(work[i])  n == Len(views)
<1>2. /\ work' = [work EXCEPT ![i] = Tail(work[i])] /\ work[i] # <<>>
      /\ promised' = [promised EXCEPT ![i] = Append(promised[i], e)]
      /\ list' = list /\ cursor' = cursor /\ pc' = pc /\ pc = "detect"
      /\ numLineLineCollisions' = numLineLineCollisions /\ step' = step
  BY DEF AppendNode
<1>3. /\ DOMAIN views = 1..n /\ DOMAIN work = 1..n /\ DOMAIN promised = 1..n
      /\ n \in Nat /\ n > 0 /\ i \in 1..n /\ work[i] \in Seq(Events)
      /\ Len(work) = n /\ Len(promised) = n
  BY ViewIndices
<1>4. e \in Events /\ Tail(work[i]) \in Seq(Events)
  BY <1>2, <1>3
<1>5. PICK c : Holds(nodes, views, promised, c)
  BY <1>2 DEF DetectInv
<1>6. Len(views') = n /\ Len(work') = n /\ Len(promised') = n
      /\ DOMAIN views' = 1..n /\ DOMAIN promised' = 1..n
  BY <1>1, <1>2, <1>3 DEF Typed
<1>7. \A j \in 1..n : /\ views'[j] = (IF j = i THEN Appended(views[i], a) ELSE views[j])
                      /\ promised'[j] = (IF j = i THEN Append(promised[i], e) ELSE promised[j])
  BY <1>1, <1>2, <1>3
<1>8. NodesOK(nodes') /\ \E d : Holds(nodes', views', promised', d)
  <2>1. NodesOK(nodes)
    BY DEF Typed
  <2>2. nodes' = WithNode(nodes, views[i], a, e)
    BY <1>1
  <2>. HIDE DEF e
  <2>3. GotNode(views, promised, views', promised', i, a, e)
    BY <1>6, <1>7 DEF GotNode, e
  <2>. QED
    BY <1>3, <1>4, <1>5, <2>1, <2>2, <2>3, HoldsAppended DEF e
<1>9. \A j \in 1..n : views'[j] \in ListType /\ promised'[j] \in Seq(Events)
  BY <1>6, <1>8, HeldViewsTyped
<1>10. views' \in Seq(ListType) /\ promised' \in Seq(Seq(Events)) /\ work' \in Seq(Seq(Events))
  <2>1. views' = [j \in 1..n |-> views'[j]] /\ promised' = [j \in 1..n |-> promised'[j]]
    BY <1>1, <1>2, <1>3
  <2>2. work' \in Seq(Seq(Events))
    <3>1. work \in Seq(Seq(Events))
      BY DEF Typed
    <3>. DEFINE t == Tail(work[i])  Q == Seq(Events)
    <3>2. work \in Seq(Q) /\ t \in Q /\ i \in 1..Len(work) /\ work' = [work EXCEPT ![i] = t]
      BY <1>2, <1>3, <1>4, <3>1
    <3>. HIDE DEF t, Q
    <3>3. work' \in Seq(Q)
      BY <3>2
    <3>. QED
      BY <3>3 DEF Q
  <2>3. views' \in Seq(ListType)
    BY <1>3, <1>9, <2>1, SequenceIs
  <2>4. promised' \in Seq(Seq(Events))
    BY <1>3, <1>9, <2>1, SequenceIs
  <2>. QED
    BY <2>2, <2>3, <2>4
<1>11. Typed'
  BY <1>2, <1>3, <1>6, <1>8, <1>10 DEF Typed
<1>. QED
  BY <1>2, <1>8, <1>11 DEF IdleInv, DetectInv, ListedInv, DeleteInv

LEMMA AppendFailsListInv ==
  ASSUME ListInv, NEW i \in DOMAIN views, AppendFails(i)
  PROVE  ListInv'
<1>. USE DEF ListInv
<1>1. /\ work' = [work EXCEPT ![i] = Tail(work[i])] /\ work[i] # <<>>
      /\ nodes' = nodes /\ views' = views /\ promised' = promised /\ list' = list
      /\ cursor' = cursor /\ numLineLineCollisions' = numLineLineCollisions /\ pc' = pc /\ step' = step
  BY DEF AppendFails
<1>2. work' \in Seq(Seq(Events)) /\ Len(work') = Len(work)
  <2>. DEFINE t == Tail(work[i])  Q == Seq(Events)
  <2>1. work \in Seq(Q) /\ i \in 1..Len(work) /\ work[i] \in Seq(Events)
    <3>1. work \in Seq(Q)
      BY DEF Typed
    <3>. QED
      BY <3>1, ViewIndices
  <2>2. t \in Q /\ work' = [work EXCEPT ![i] = t]
    BY <1>1, <2>1
  <2>. HIDE DEF t, Q
  <2>3. work' \in Seq(Q) /\ Len(work') = Len(work)
    BY <2>1, <2>2
  <2>. QED
    BY <2>3 DEF Q
<1>3. Typed'
  BY <1>1, <1>2 DEF Typed
<1>. QED
  BY <1>1, <1>3 DEF IdleInv, DetectInv, ListedInv, DeleteInv

LEMMA ReduceListInv ==
  ASSUME ListInv, NEW i \in DOMAIN views, Reduce(i)
  PROVE  ListInv'
<1>. USE DEF ListInv
<1>. DEFINE m == mergeNodes(nodes, views[i], views[i + 1])  n == Len(views)
<1>1. /\ pc = "detect" /\ i < n
      /\ nodes' = [a \in DOMAIN nodes \ Range(From(m.nodes, m.right.head)) |-> m.nodes[a]]
      /\ views' = RemoveAt([views EXCEPT ![i] = m.left], i + 1)
      /\ work' = RemoveAt(work, i + 1)
      /\ promised' = RemoveAt([promised EXCEPT ![i] = promised[i] \o promised[i + 1]], i + 1)
      /\ list' = list /\ cursor' = cursor /\ pc' = pc
      /\ numLineLineCollisions' = numLineLineCollisions /\ step' = step
  BY DEF Reduce
<1>2. /\ DOMAIN views = 1..n /\ DOMAIN work = 1..n /\ DOMAIN promised = 1..n
      /\ n \in Nat /\ i \in 1..(n - 1) /\ i + 1 \in 1..n /\ i \in 1..n
      /\ Len(work) = n /\ Len(promised) = n
  BY <1>1, ViewIndices
<1>3. PICK c : Holds(nodes, views, promised, c)
  BY <1>1 DEF DetectInv
<1>. DEFINE vs == [views EXCEPT ![i] = m.left]
            ps == [promised EXCEPT ![i] = promised[i] \o promised[i + 1]]
<1>4. \E S : vs \in Seq(S) /\ Len(vs) = n
  <2>1. vs = [j \in 1..n |-> vs[j]]
    BY <1>2 DEF Typed
  <2>. DEFINE S == {vs[j] : j \in 1..n}
  <2>2. \A j \in 1..n : vs[j] \in S
    OBVIOUS
  <2>. HIDE DEF vs, S
  <2>3. vs \in Seq(S) /\ Len(vs) = n
    BY <1>2, <2>1, <2>2
  <2>. QED
    BY <2>3
<1>5. ps \in Seq(Seq(Events)) /\ Len(ps) = n
  <2>1. promised[i] \in Seq(Events) /\ promised[i + 1] \in Seq(Events)
    BY <1>2 DEF Typed
  <2>2. promised[i] \o promised[i + 1] \in Seq(Events)
    BY <2>1
  <2>. QED
    BY <1>2, <2>2 DEF Typed
<1>6. \A j \in 1..n : /\ vs[j] = (IF j = i THEN m.left ELSE views[j])
                      /\ ps[j] = (IF j = i THEN promised[i] \o promised[i + 1] ELSE promised[j])
  BY <1>2
<1>7. /\ Len(views') = n - 1 /\ Len(work') = n - 1 /\ Len(promised') = n - 1
      /\ \A j \in 1..(n - 1) : /\ views'[j] = (IF j < i + 1 THEN vs[j] ELSE vs[j + 1])
                               /\ promised'[j] = (IF j < i + 1 THEN ps[j] ELSE ps[j + 1])
      /\ work' \in Seq(Seq(Events)) /\ promised' \in Seq(Seq(Events)) /\ \E S : views' \in Seq(S)
  <2>1. PICK S : vs \in Seq(S) /\ Len(vs) = n
    BY <1>4
  <2>2. views' = RemoveAt(vs, i + 1) /\ promised' = RemoveAt(ps, i + 1)
    BY <1>1
  <2>3. work \in Seq(Seq(Events))
    BY DEF Typed
  <2>. HIDE DEF vs, ps
  <2>4. /\ views' \in Seq(S) /\ Len(views') = n - 1
        /\ \A j \in 1..(n - 1) : views'[j] = (IF j < i + 1 THEN vs[j] ELSE vs[j + 1])
    BY <1>2, <2>1, <2>2, RemovedAt
  <2>5. /\ promised' \in Seq(Seq(Events)) /\ Len(promised') = n - 1
        /\ \A j \in 1..(n - 1) : promised'[j] = (IF j < i + 1 THEN ps[j] ELSE ps[j + 1])
    <3>. DEFINE Q == Seq(Events)
    <3>1. ps \in Seq(Q)
      BY <1>5
    <3>. HIDE DEF Q
    <3>2. /\ promised' \in Seq(Q) /\ Len(promised') = n - 1
          /\ \A j \in 1..(n - 1) : promised'[j] = (IF j < i + 1 THEN ps[j] ELSE ps[j + 1])
      <4>. DEFINE k == i + 1  t == RemoveAt(ps, k)
      <4>1. k \in 1..Len(ps)
        BY <1>2, <1>5
      <4>. HIDE DEF k
      <4>2. /\ t \in Seq(Q) /\ Len(t) = Len(ps) - 1
            /\ \A j \in 1..(Len(ps) - 1) : t[j] = (IF j < k THEN ps[j] ELSE ps[j + 1])
        BY <3>1, <4>1, RemovedAt
      <4>3. promised' = t
        BY <2>2 DEF k
      <4>. QED
        BY <1>5, <4>2, <4>3 DEF k
    <3>. QED
      BY <3>2 DEF Q
  <2>6. work' \in Seq(Seq(Events)) /\ Len(work') = n - 1
    <3>. DEFINE Q == Seq(Events)
    <3>1. work \in Seq(Q)
      BY <2>3
    <3>. HIDE DEF Q
    <3>2. work' \in Seq(Q) /\ Len(work') = n - 1
      BY <1>1, <1>2, <3>1, RemovedAt
    <3>. QED
      BY <3>2 DEF Q
  <2>. QED
    BY <2>4, <2>5, <2>6
<1>. HIDE DEF m, vs, ps
<1>8. \A j \in 1..(n - 1) :
        /\ views'[j] = (IF j < i THEN views[j] ELSE IF j = i THEN m.left ELSE views[j + 1])
        /\ promised'[j] = (IF j < i THEN promised[j] ELSE IF j = i THEN promised[i] \o promised[i + 1]
                           ELSE promised[j + 1])
  <2>. TAKE j \in 1..(n - 1)
  <2>1. j \in 1..n /\ j + 1 \in 1..n
    BY <1>2
  <2>2. CASE j < i
    <3>1. j < i + 1 /\ j # i
      BY <1>2, <2>2
    <3>. QED
      BY <1>6, <1>7, <2>1, <2>2, <3>1
  <2>3. CASE j = i
    BY <1>2, <1>6, <1>7, <2>1, <2>3
  <2>4. CASE j > i
    <3>1. ~(j < i + 1) /\ j + 1 # i /\ ~(j < i) /\ j # i
      BY <1>2, <2>4
    <3>. QED
      BY <1>6, <1>7, <2>1, <3>1
  <2>. QED
    BY <1>2, <2>2, <2>3, <2>4
<1>9. NodesOK(m.nodes) /\ m.right = Empty /\ \E d : Holds(m.nodes, views', promised', d)
  <2>1. NodesOK(nodes) /\ m = mergeNodes(nodes, views[i], views[i + 1])
    BY DEF Typed, m
  <2>2. GotMerged(views, promised, views', promised', n, i, m.left)
    BY <1>7, <1>8 DEF GotMerged
  <2>. QED
    BY <1>2, <1>3, <2>1, <2>2, HoldsMerged
<1>10. nodes' = m.nodes
  <2>1. From(m.nodes, m.right.head) = <<>>
    BY <1>9, NoNodes, FromChain
  <2>2. DOMAIN m.nodes = DOMAIN nodes
    <3>1. /\ IsList(nodes, views[i], c[i]) /\ IsList(nodes, views[i + 1], c[i + 1]) /\ Apart(c[i], c[i + 1])
      BY <1>2, <1>3 DEF Holds
    <3>2. NodesOK(nodes)
      BY DEF Typed
    <3>3. Merged(nodes, m, c[i], c[i + 1])
      BY <3>1, <3>2, MergedLists DEF m
    <3>. QED
      BY <3>3 DEF Merged
  <2>3. Range(<<>>) = {}
    BY DEF Range
  <2>4. nodes' = [a \in DOMAIN m.nodes |-> m.nodes[a]]
    BY <1>1, <2>1, <2>2, <2>3 DEF m
  <2>. QED
    BY <1>9, <2>4 DEF NodesOK
<1>11. views' \in Seq(ListType)
  <2>1. \A j \in 1..(n - 1) : views'[j] \in ListType
    BY <1>7, <1>9, HeldViewsTyped
  <2>2. views' = [j \in 1..(n - 1) |-> views'[j]] /\ n - 1 \in Nat
    BY <1>2, <1>7
  <2>. QED
    BY <2>1, <2>2
<1>12. Typed'
  <2>1. Len(views') > 0 /\ Len(views') = Len(work') /\ Len(views') = Len(promised')
    BY <1>2, <1>7
  <2>2. NodesOK(nodes')
    BY <1>9, <1>10
  <2>3. /\ list' \in ListType /\ cursor' \in Pointers /\ numLineLineCollisions' \in Nat
        /\ pc' \in {"idle", "detect", "sort", "solve", "delete"} /\ step' \in 0..MaxSteps
    BY <1>1 DEF Typed
  <2>. QED
    BY <1>7, <1>11, <2>1, <2>2, <2>3 DEF Typed
<1>. QED
  BY <1>1, <1>9, <1>10, <1>12 DEF IdleInv, DetectInv, ListedInv, DeleteInv

\* The list is handed over: it has what the last view had.
LEMMA CollectListInv ==
  ASSUME ListInv, Collect
  PROVE  ListInv'
<1>. USE DEF ListInv
<1>. DEFINE m == mergeNodes(nodes, list, views[1])
<1>1. /\ pc = "detect" /\ Len(views) = 1
      /\ numLineLineCollisions' = numLineLineCollisions + views[1].size
      /\ nodes' = m.nodes /\ list' = m.left /\ views' = <<m.right>> /\ cursor' = m.left.head
      /\ pc' = "sort" /\ work' = work /\ promised' = promised /\ step' = step
  BY DEF Collect
<1>2. PICK c : Holds(nodes, views, promised, c)
  BY <1>1 DEF DetectInv
<1>. DEFINE s == c[1]
<1>3. IsList(nodes, views[1], s) /\ Stores(nodes, s, promised[1]) /\ Chain(nodes, views[1].head, s)
      /\ Covers(nodes, s)
  <2>1. 1 \in 1..Len(views) /\ \A i \in 1..Len(views) : i = 1
    BY <1>1
  <2>2. IsList(nodes, views[1], s) /\ Stores(nodes, s, promised[1])
    BY <1>2, <2>1 DEF Holds
  <2>3. Covers(nodes, s)
    BY <1>2, <2>1 DEF Holds, Covers
  <2>. QED
    BY <2>2, <2>3 DEF IsList
<1>. HIDE DEF s
<1>4. NodesOK(nodes) /\ list = Empty
  BY <1>1 DEF Typed, DetectInv
<1>5. Merged(nodes, m, <<>>, s)
  <2>1. IsList(nodes, list, <<>>)
    BY <1>4, NoNodes
  <2>2. Apart(<<>>, s)
    BY DEF Apart
  <2>. QED
    BY <1>3, <1>4, <2>1, <2>2, MergedLists
<1>6. <<>> \o s = s
  <2>1. s \in Seq(DOMAIN nodes)
    BY <1>3 DEF Chain
  <2>. QED
    BY <2>1
<1>. HIDE DEF m
<1>7. NodesOK(nodes') /\ IsList(nodes', list', s) /\ m.right = Empty /\ DOMAIN nodes' = DOMAIN nodes
  BY <1>1, <1>5, <1>6 DEF Merged
<1>8. Covers(nodes', s) /\ Len(s) = Len(promised'[1])
  BY <1>1, <1>3, <1>7 DEF Covers, Stores
<1>9. cursor' = NULL \/ cursor' \in Range(s)
  <2>1. cursor' = (IF s = <<>> THEN NULL ELSE s[1]) /\ s \in Seq(DOMAIN nodes')
    BY <1>1, <1>7 DEF IsList, Chain
  <2>2. s # <<>> => 1 \in 1..Len(s) /\ DOMAIN s = 1..Len(s)
    BY <2>1
  <2>. QED
    BY <2>1, <2>2 DEF Range
<1>10. list' \in ListType /\ cursor' \in Pointers /\ views' \in Seq(ListType) /\ Len(views') = 1
       /\ views' = <<Empty>>
  <2>1. list' \in ListType
    BY <1>7, ListIsTyped
  <2>2. cursor' \in Pointers
    BY <1>1, <2>1 DEF ListType
  <2>3. views' = <<Empty>>
    BY <1>1, <1>7
  <2>. QED
    BY <2>1, <2>2, <2>3, EmptyIsTyped
<1>11. numLineLineCollisions' \in Nat
  <2>1. views[1].size = Len(s) /\ Len(s) \in Nat
    BY <1>3 DEF IsList, Chain
  <2>. QED
    BY <1>1, <2>1 DEF Typed
<1>12. Typed'
  <2>1. Len(work') = 1 /\ Len(promised') = 1 /\ step' \in 0..MaxSteps
        /\ work' \in Seq(Seq(Events)) /\ promised' \in Seq(Seq(Events))
    BY <1>1 DEF Typed
  <2>. QED
    BY <1>1, <1>7, <1>10, <1>11, <2>1 DEF Typed
<1>. QED
  BY <1>1, <1>7, <1>8, <1>9, <1>10, <1>12 DEF IdleInv, DetectInv, ListedInv, DeleteInv

\* Where the cursor is, and what From() has from there
LEMMA AtCursor ==
  ASSUME NodesOK(nodes), NEW a, NEW s, Chain(nodes, a, s), cursor \in Range(s)
  PROVE  \E p \in 1..Len(s) :
           /\ s[p] = cursor /\ cursor \in DOMAIN nodes
           /\ From(nodes, cursor) = SubSeq(s, p, Len(s))
           /\ nodes[cursor].next = (IF p = Len(s) THEN NULL ELSE s[p + 1])
<1>1. PICK p \in 1..Len(s) : s[p] = cursor
  BY RangeOfChain
<1>2. Chain(nodes, cursor, SubSeq(s, p, Len(s)))
  BY <1>1, ChainEnd
<1>3. From(nodes, cursor) = SubSeq(s, p, Len(s))
  BY <1>2, FromChain
<1>4. nodes[s[p]].next = (IF p = Len(s) THEN NULL ELSE s[p + 1]) /\ s[p] \in DOMAIN nodes
  BY DEF Chain
<1>. QED
  BY <1>1, <1>3, <1>4

LEMMA NextInList ==
  ASSUME NodesOK(nodes), NEW a, NEW s, Chain(nodes, a, s), cursor \in Range(s)
  PROVE  nodes[cursor].next = NULL \/ nodes[cursor].next \in Range(s)
<1>1. PICK p \in 1..Len(s) : nodes[cursor].next = (IF p = Len(s) THEN NULL ELSE s[p + 1])
  BY AtCursor
<1>2. p # Len(s) => p + 1 \in 1..Len(s)
  BY DEF Chain
<1>. QED
  BY <1>1, <1>2, RangeOfChain

LEMMA HeadInList ==
  ASSUME NEW ns, NEW lst, NEW s, IsList(ns, lst, s)
  PROVE  lst.head = NULL \/ lst.head \in Range(s)
<1>1. lst.head = (IF s = <<>> THEN NULL ELSE s[1]) /\ s \in Seq(DOMAIN ns)
  BY DEF IsList, Chain
<1>2. s # <<>> => 1 \in 1..Len(s) /\ DOMAIN s = 1..Len(s)
  BY <1>1
<1>. QED
  BY <1>1, <1>2 DEF Range

\* The least node from the cursor on
LEMMA LeastInList ==
  ASSUME NodesOK(nodes), NEW a, NEW s, Chain(nodes, a, s), cursor \in Range(s),
         NEW at, at = From(nodes, cursor)
  PROVE  /\ IsLeast(at, Least(at)) /\ at[Least(at)] \in DOMAIN nodes /\ cursor \in DOMAIN nodes
         /\ at \in Seq(DOMAIN nodes)
<1>1. PICK p \in 1..Len(s) : s[p] = cursor /\ cursor \in DOMAIN nodes
                             /\ From(nodes, cursor) = SubSeq(s, p, Len(s))
  BY AtCursor
<1>2. Chain(nodes, s[p], at) /\ Len(at) = Len(s) - p + 1
  BY <1>1, ChainEnd
<1>3. at \in Seq(DOMAIN nodes) /\ at # <<>>
  <2>1. at \in Seq(DOMAIN nodes) /\ Len(s) \in Nat
    BY <1>2 DEF Chain
  <2>2. Len(at) # 0
    BY <1>2, <2>1
  <2>. QED
    BY <2>1, <2>2
<1>4. IsLeast(at, Least(at))
  BY <1>3, LeastThereIs
<1>5. at[Least(at)] \in DOMAIN nodes
  <2>1. Least(at) \in DOMAIN at
    BY <1>4 DEF IsLeast
  <2>. QED
    BY <1>3, <2>1
<1>. QED
  BY <1>1, <1>3, <1>4, <1>5

\* A round of the sort changes what the nodes store, never the list.
LEMMA SortListInv ==
  ASSUME ListInv, Sort
  PROVE  ListInv'
<1>. USE DEF ListInv
<1>1. /\ pc = "sort" /\ views' = views /\ work' = work /\ promised' = promised /\ list' = list
      /\ numLineLineCollisions' = numLineLineCollisions /\ step' = step
  BY DEF Sort
<1>2. NodesOK(nodes) /\ views = <<Empty>>
  BY <1>1 DEF Typed, ListedInv
<1>3. PICK s : /\ IsList(nodes, list, s) /\ Covers(nodes, s) /\ Len(s) = Len(promised[1])
               /\ cursor = NULL \/ cursor \in Range(s)
  BY <1>1 DEF ListedInv
<1>4. Chain(nodes, list.head, s)
  BY <1>3 DEF IsList
<1>5. /\ pc' \in {"sort", "solve"} /\ NodesOK(nodes') /\ IsList(nodes', list, s) /\ DOMAIN nodes' = DOMAIN nodes
      /\ cursor' = NULL \/ cursor' \in Range(s)
  <2>1. CASE cursor = NULL
    <3>1. pc' = "solve" /\ cursor' = list.head /\ nodes' = nodes
      BY <2>1 DEF Sort
    <3>2. list.head = NULL \/ list.head \in Range(s)
      BY <1>3, HeadInList
    <3>. QED
      BY <1>2, <1>3, <3>1, <3>2
  <2>2. CASE cursor # NULL
    <3>. DEFINE at == From(nodes, cursor)  x == at[Least(at)]
    <3>1. /\ nodes' = (IF x = cursor THEN nodes ELSE swapData(nodes, x, cursor))
          /\ cursor' = nodes[cursor].next /\ pc' = pc
      BY <2>2 DEF Sort
    <3>2. cursor \in Range(s)
      BY <1>3, <2>2
    <3>3. x \in DOMAIN nodes /\ cursor \in DOMAIN nodes
      BY <1>2, <1>4, <3>2, LeastInList
    <3>. HIDE DEF x
    <3>4. cursor' = NULL \/ cursor' \in Range(s)
      BY <1>2, <1>4, <3>1, <3>2, NextInList
    <3>5. CASE x = cursor
      <4>1. nodes' = nodes
        BY <3>1, <3>5
      <4>. QED
        BY <1>1, <1>2, <1>3, <3>1, <3>4, <4>1
    <3>6. CASE x # cursor
      <4>1. nodes' = swapData(nodes, x, cursor)
        BY <3>1, <3>6
      <4>2. Swapped(nodes, nodes', x, cursor)
        BY <1>2, <3>3, <4>1, SwapKeepsLinks
      <4>3. Chain(nodes', list.head, s)
        BY <1>4, <4>2, ChainSameLinks DEF Swapped
      <4>4. IsList(nodes', list, s) /\ NodesOK(nodes') /\ DOMAIN nodes' = DOMAIN nodes
        BY <1>3, <4>2, <4>3 DEF IsList, Swapped
      <4>. QED
        BY <1>1, <3>1, <3>4, <4>4
    <3>. QED
      BY <3>5, <3>6
  <2>. QED
    BY <2>1, <2>2
<1>6. cursor' \in Pointers
  <2>1. Range(s) \subseteq DOMAIN nodes
    BY <1>4, RangeOfChain
  <2>. QED
    BY <1>2, <1>5, <2>1 DEF NodesOK, Pointers
<1>7. Typed'
  BY <1>1, <1>5, <1>6 DEF Typed
<1>8. Covers(nodes', s)
  BY <1>3, <1>5 DEF Covers
<1>. QED
  BY <1>1, <1>2, <1>3, <1>5, <1>7, <1>8 DEF IdleInv, DetectInv, ListedInv, DeleteInv

LEMMA SolveListInv ==
  ASSUME ListInv, Solve
  PROVE  ListInv'
<1>. USE DEF ListInv
<1>1. /\ pc = "solve" /\ cursor # NULL /\ cursor' = nodes[cursor].next /\ nodes' = nodes
      /\ views' = views /\ work' = work /\ promised' = promised /\ list' = list /\ pc' = pc
      /\ numLineLineCollisions' = numLineLineCollisions /\ step' = step
  BY DEF Solve
<1>2. NodesOK(nodes) /\ views = <<Empty>>
  BY <1>1 DEF Typed, ListedInv
<1>3. PICK s : /\ IsList(nodes, list, s) /\ Covers(nodes, s) /\ Len(s) = Len(promised[1])
               /\ cursor = NULL \/ cursor \in Range(s)
  BY <1>1 DEF ListedInv
<1>4. Chain(nodes, list.head, s)
  BY <1>3 DEF IsList
<1>5. cursor' = NULL \/ cursor' \in Range(s)
  BY <1>1, <1>2, <1>3, <1>4, NextInList
<1>6. cursor' \in Pointers
  <2>1. Range(s) \subseteq DOMAIN nodes
    BY <1>4, RangeOfChain
  <2>. QED
    BY <1>2, <1>5, <2>1 DEF NodesOK, Pointers
<1>7. Typed'
  BY <1>1, <1>6 DEF Typed
<1>. QED
  BY <1>1, <1>2, <1>3, <1>5, <1>7 DEF IdleInv, DetectInv, ListedInv, DeleteInv

LEMMA SolvedListInv ==
  ASSUME ListInv, Solved
  PROVE  ListInv'
<1>. USE DEF ListInv
<1>1. /\ pc = "solve" /\ cursor' = list.head /\ nodes' = nodes /\ pc' = "delete"
      /\ views' = views /\ work' = work /\ promised' = promised /\ list' = list
      /\ numLineLineCollisions' = numLineLineCollisions /\ step' = step
  BY DEF Solved
<1>2. PICK s : IsList(nodes, list, s) /\ Covers(nodes, s)
  BY <1>1 DEF ListedInv
<1>3. Chain(nodes', cursor', s) /\ Covers(nodes', s) /\ views' = <<Empty>>
  BY <1>1, <1>2 DEF IsList, ListedInv
<1>4. cursor' \in Pointers
  BY <1>1 DEF Typed, ListType
<1>5. Typed'
  BY <1>1, <1>4 DEF Typed
<1>. QED
  BY <1>1, <1>3, <1>5 DEF IdleInv, DetectInv, ListedInv, DeleteInv

\* The first node of what is left is freed, and when there is none, nothing is left.
LEMMA DeleteListInv ==
  ASSUME ListInv, deleteNodes
  PROVE  ListInv'
<1>. USE DEF ListInv
<1>1. /\ pc = "delete" /\ views' = views /\ work' = work
      /\ numLineLineCollisions' = numLineLineCollisions /\ step' = step
  BY DEF deleteNodes
<1>2. NodesOK(nodes) /\ views = <<Empty>>
  BY <1>1 DEF Typed, DeleteInv
<1>3. PICK s : Chain(nodes, cursor, s) /\ Covers(nodes, s)
  BY <1>1 DEF DeleteInv
<1>4. s \in Seq(DOMAIN nodes) /\ cursor = (IF s = <<>> THEN NULL ELSE s[1]) /\ NULL \notin DOMAIN nodes
  BY <1>2, <1>3, EventListAssumption DEF Chain, NodesOK
<1>5. CASE cursor = NULL
  <2>1. list' = Empty /\ pc' = "idle" /\ promised' = << <<>> >> /\ nodes' = nodes /\ cursor' = cursor
    BY <1>5 DEF deleteNodes, AtEnd
  <2>2. s = <<>>
    <3>1. s # <<>> => s[1] \in DOMAIN nodes
      BY <1>4
    <3>. QED
      BY <1>4, <1>5, <3>1
  <2>3. DOMAIN nodes = {}
    <3>1. Range(s) = {}
      BY <2>2 DEF Range
    <3>. QED
      BY <1>3, <3>1 DEF Covers
  <2>4. Typed'
    <3>1. promised' \in Seq(Seq(Events)) /\ Len(promised') = 1
      <4>1. <<>> \in Seq(Events)
        OBVIOUS
      <4>. QED
        BY <2>1, <4>1
    <3>2. Len(views') = 1 /\ Len(work') = 1
      BY <1>1, <1>2 DEF Typed
    <3>3. views' \in Seq(ListType) /\ work' \in Seq(Seq(Events)) /\ cursor' \in Pointers
          /\ numLineLineCollisions' \in Nat /\ step' \in 0..MaxSteps
      BY <1>1, <2>1 DEF Typed
    <3>. QED
      BY <1>2, <2>1, <3>1, <3>2, <3>3, EmptyIsTyped DEF Typed
  <2>. QED
    BY <1>1, <1>2, <1>5, <2>1, <2>3, <2>4 DEF IdleInv, DetectInv, ListedInv, DeleteInv
<1>6. CASE cursor # NULL
  <2>1. /\ nodes' = [a \in DOMAIN nodes \ {cursor} |-> nodes[a]]
        /\ cursor' = nodes[cursor].next /\ list' = list /\ pc' = pc /\ promised' = promised
    BY <1>6 DEF deleteNodes, AtEnd
  <2>2. s # <<>>
    BY <1>4, <1>6
  <2>3. /\ cursor \in DOMAIN nodes /\ NodesOK(nodes') /\ Chain(nodes', cursor', Tail(s))
        /\ \A i \in 1..(Len(s) - 1) : Tail(s)[i] = s[i + 1]
        /\ Len(Tail(s)) = Len(s) - 1
    BY <1>2, <1>3, <2>1, <2>2, ChainFreed
  <2>4. Covers(nodes', Tail(s))
    <3>. SUFFICES ASSUME NEW a \in DOMAIN nodes'
                  PROVE  a \in Range(Tail(s))
      BY DEF Covers
    <3>1. a \in DOMAIN nodes /\ a # cursor
      BY <2>1
    <3>2. PICK k \in 1..Len(s) : s[k] = a
      BY <1>3, <3>1, RangeOfChain DEF Covers
    <3>3. k # 1
      BY <1>4, <2>2, <3>1, <3>2
    <3>4. k - 1 \in 1..(Len(s) - 1) /\ (k - 1) + 1 = k
      BY <1>4, <3>3
    <3>5. k - 1 \in 1..Len(Tail(s)) /\ Tail(s)[k - 1] = a
      BY <2>3, <3>2, <3>4
    <3>. QED
      BY <2>3, <3>5, RangeOfChain
  <2>5. cursor' \in Pointers
    <3>1. nodes[cursor] \in Node
      BY <1>2, <2>3 DEF NodesOK
    <3>. QED
      BY <2>1, <3>1 DEF Node
  <2>6. Typed'
    BY <1>1, <2>1, <2>3, <2>5 DEF Typed
  <2>. QED
    BY <1>1, <1>2, <2>1, <2>3, <2>4, <2>6 DEF IdleInv, DetectInv, ListedInv, DeleteInv
<1>. QED
  BY <1>5, <1>6

\* In every state each view is a list of its own nodes, later the list has all of
\* them, and none is left when the next step begins.
THEOREM ListInvariant == Spec => []ListInv
<1>1. Init => ListInv
  BY InitListInv
<1>2. ListInv /\ [Next]_vars => ListInv'
  <2>. SUFFICES ASSUME ListInv, [Next]_vars
                PROVE  ListInv'
    OBVIOUS
  <2>1. CASE Begin
    BY <2>1, BeginListInv
  <2>2. ASSUME NEW i \in DOMAIN views, AppendNode(i) PROVE ListInv'
    BY <2>2, AppendNodeListInv
  <2>3. ASSUME NEW i \in DOMAIN views, AppendFails(i) PROVE ListInv'
    BY <2>3, AppendFailsListInv
  <2>4. ASSUME NEW i \in DOMAIN views, Reduce(i) PROVE ListInv'
    BY <2>4, ReduceListInv
  <2>5. CASE Collect
    BY <2>5, CollectListInv
  <2>6. CASE Sort
    BY <2>6, SortListInv
  <2>7. CASE Solve
    BY <2>7, SolveListInv
  <2>8. CASE Solved
    BY <2>8, SolvedListInv
  <2>9. CASE deleteNodes
    BY <2>9, DeleteListInv
  <2>10. CASE UNCHANGED vars
    BY <2>10 DEF vars, ListInv, Typed, IdleInv, DetectInv, ListedInv, DeleteInv
  <2>. QED
    BY <2>1, <2>2, <2>3, <2>4, <2>5, <2>6, <2>7, <2>8, <2>9, <2>10 DEF Next, Stop
<1>. QED
  BY <1>1, <1>2, PTL DEF Spec

-----------------------------------------------------------------------------
(* What the invariant says of the properties.                              *)

LEMMA ListTypeOK ==
  ASSUME ListInv
  PROVE  TypeOK
<1>1. Typed
  BY DEF ListInv
<1>2. \A a \in DOMAIN nodes : a \in Addresses /\ Data(nodes[a]) \in Events /\ nodes[a].next \in Pointers
  <2>. TAKE a \in DOMAIN nodes
  <2>1. nodes[a] \in Node /\ a \in Addresses /\ Data(nodes[a]) \in Events
    BY <1>1 DEF Typed, NodesOK
  <2>. QED
    BY <2>1, NodeFields
<1>3. \A lst \in Range(views) \cup {list} :
        lst \in [head : Pointers, tail : Pointers, size : 0..Cardinality(Addresses)]
  <2>1. \A lst \in Range(views) : lst \in ListType
    BY <1>1, ViewIndices DEF Range
  <2>2. list \in ListType
    BY <1>1 DEF Typed
  <2>. QED
    BY <2>1, <2>2 DEF ListType
<1>4. Len(views) = Len(work) /\ Len(views) = Len(promised) /\ views # <<>>
  BY <1>1 DEF Typed
<1>5. /\ cursor \in Pointers /\ numLineLineCollisions \in Nat
      /\ pc \in {"idle", "detect", "sort", "solve", "delete"} /\ step \in 0..MaxSteps
  BY <1>1 DEF Typed
<1>. QED
  BY <1>2, <1>3, <1>4, <1>5 DEF TypeOK

LEMMA ListWellFormed ==
  ASSUME NodesOK(nodes), NEW lst, NEW s, IsList(nodes, lst, s)
  PROVE  WellFormed(lst) /\ From(nodes, lst.head) = s
<1>1. Chain(nodes, lst.head, s)
  BY DEF IsList
<1>2. From(nodes, lst.head) = s
  BY <1>1, FromChain
<1>3. /\ lst.size = Len(s) /\ s \in Seq(DOMAIN nodes)
      /\ lst = [head |-> IF s = <<>> THEN NULL ELSE s[1],
                tail |-> IF s = <<>> THEN NULL ELSE s[Len(s)], size |-> Len(s)]
  BY <1>1 DEF IsList, Chain
<1>4. CASE s = <<>>
  <2>1. lst = Empty /\ lst.size = 0
    BY <1>3, <1>4 DEF Empty
  <2>. QED
    BY <1>2, <2>1 DEF WellFormed
<1>5. CASE s # <<>>
  <2>1. Len(s) # 0 /\ Len(s) \in 1..Len(s) /\ lst.tail = s[Len(s)]
    BY <1>3, <1>5
  <2>2. nodes[s[Len(s)]].next = NULL
    BY <1>1, <2>1 DEF Chain
  <2>. QED
    BY <1>2, <1>3, <2>1, <2>2 DEF WellFormed
<1>. QED
  BY <1>4, <1>5

LEMMA ListContents ==
  ASSUME NodesOK(nodes), NEW lst, NEW s, IsList(nodes, lst, s), NEW p, Stores(nodes, s, p)
  PROVE  Contents(nodes, lst) = p
<1>1. From(nodes, lst.head) = s
  BY ListWellFormed
<1>2. s \in Seq(DOMAIN nodes) /\ DOMAIN s = 1..Len(s)
  BY DEF IsList, Chain
<1>3. p = [k \in 1..Len(s) |-> p[k]] /\ \A k \in 1..Len(s) : Data(nodes[s[k]]) = p[k]
  BY DEF Stores
<1>4. Contents(nodes, lst) = [k \in DOMAIN s |-> Data(nodes[s[k]])]
  BY <1>1 DEF Contents
<1>. QED
  BY <1>2, <1>3, <1>4

LEMMA InvViewsHold ==
  ASSUME ListInv
  PROVE  ViewsHold
<1>1. NodesOK(nodes) /\ TypeOK
  BY ListTypeOK DEF ListInv, Typed
<1>2. ASSUME pc = "detect", NEW i \in DOMAIN views
      PROVE  WellFormed(views[i]) /\ Contents(nodes, views[i]) = promised[i]
  <2>1. PICK c : Holds(nodes, views, promised, c)
    BY <1>2 DEF ListInv, DetectInv
  <2>2. i \in 1..Len(views)
    BY <1>2, ViewIndices DEF ListInv
  <2>3. IsList(nodes, views[i], c[i]) /\ Stores(nodes, c[i], promised[i])
    BY <2>1, <2>2 DEF Holds
  <2>. QED
    BY <1>1, <2>3, ListWellFormed, ListContents
<1>3. ASSUME pc \in {"sort", "solve"}
      PROVE  WellFormed(list) /\ Len(From(nodes, list.head)) = Len(promised[1])
  <2>1. PICK s : IsList(nodes, list, s) /\ Len(s) = Len(promised[1])
    BY <1>3 DEF ListInv, ListedInv
  <2>. QED
    BY <1>1, <2>1, ListWellFormed
<1>. QED
  BY <1>1, <1>2, <1>3 DEF ViewsHold

\* While the strands run, each view holds what was promised, in that order, however
\* the views were merged; and the list handed over is that of the last view.
THEOREM ViewsHoldTheirEvents == Spec => []ViewsHold
<1>1. ListInv => ViewsHold
  BY InvViewsHold
<1>. QED
  BY <1>1, ListInvariant, PTL

\* o has the chain of each owner: they are apart and have every node.
Owning(o, n) ==
  /\ n \in Nat /\ DOMAIN Owners = 1..n
  /\ \A k \in 1..n : Chain(nodes, Owners[k], o[k])
  /\ \A k, l \in 1..n : k # l => Apart(o[k], o[l])
  /\ \A a \in DOMAIN nodes : \E k \in 1..n : a \in Range(o[k])

OwnedOnce ==
  /\ UNION {Range(Owned(k)) : k \in DOMAIN Owners} = DOMAIN nodes
  /\ \A k, l \in DOMAIN Owners : \A i \in DOMAIN Owned(k), j \in DOMAIN Owned(l) :
       Owned(k)[i] = Owned(l)[j] => k = l /\ i = j
  /\ \A a \in DOMAIN nodes : nodes[a].next \in DOMAIN nodes \cup {NULL}

LEMMA OwningOwns ==
  ASSUME NodesOK(nodes), NEW o, NEW n, Owning(o, n)
  PROVE  OwnedOnce
<1>1. /\ DOMAIN Owners = 1..n
      /\ \A k \in 1..n : Chain(nodes, Owners[k], o[k])
      /\ \A k, l \in 1..n : k # l => Apart(o[k], o[l])
  BY DEF Owning
<1>2. ASSUME NEW k \in 1..n
      PROVE  Owned(k) = o[k] /\ Range(Owned(k)) \subseteq DOMAIN nodes /\ DOMAIN Owned(k) = 1..Len(o[k])
  <2>1. Chain(nodes, Owners[k], o[k])
    BY <1>1
  <2>2. Owned(k) = o[k]
    BY <2>1, FromChain DEF Owned
  <2>3. Range(o[k]) \subseteq DOMAIN nodes
    BY <2>1, RangeOfChain
  <2>4. DOMAIN o[k] = 1..Len(o[k])
    BY <2>1 DEF Chain
  <2>. QED
    BY <2>2, <2>3, <2>4
<1>3. UNION {Range(Owned(k)) : k \in DOMAIN Owners} = DOMAIN nodes
  <2>1. ASSUME NEW a \in DOMAIN nodes
        PROVE  \E k \in DOMAIN Owners : a \in Range(Owned(k))
    <3>1. PICK k \in 1..n : a \in Range(o[k])
      BY DEF Owning
    <3>. QED
      BY <1>1, <1>2, <3>1
  <2>. QED
    BY <1>1, <1>2, <2>1
<1>4. ASSUME NEW k \in 1..n, NEW l \in 1..n, NEW i \in DOMAIN Owned(k), NEW j \in DOMAIN Owned(l),
             Owned(k)[i] = Owned(l)[j]
      PROVE  k = l /\ i = j
  <2>1. i \in 1..Len(o[k]) /\ j \in 1..Len(o[l]) /\ o[k][i] = o[l][j]
    BY <1>2, <1>4
  <2>2. k = l
    BY <1>1, <2>1 DEF Apart
  <2>3. Chain(nodes, Owners[k], o[k])
    BY <1>1
  <2>. QED
    BY <2>1, <2>2, <2>3 DEF Chain
<1>5. ASSUME NEW a \in DOMAIN nodes
      PROVE  nodes[a].next \in DOMAIN nodes \cup {NULL}
  <2>1. PICK k \in 1..n : a \in Range(o[k])
    BY DEF Owning
  <2>2. Chain(nodes, Owners[k], o[k])
    BY <1>1
  <2>3. PICK p \in 1..Len(o[k]) : o[k][p] = a
    BY <2>1, <2>2, RangeOfChain
  <2>4. nodes[a].next = (IF p = Len(o[k]) THEN NULL ELSE o[k][p + 1])
    BY <2>2, <2>3 DEF Chain
  <2>5. p # Len(o[k]) => o[k][p + 1] \in DOMAIN nodes
    BY <2>2, <2>3 DEF Chain
  <2>. QED
    BY <2>4, <2>5
<1>. QED
  BY <1>1, <1>3, <1>4, <1>5 DEF OwnedOnce

LEMMA OneMore ==
  ASSUME NEW S, NEW h \in Seq(S), NEW n, n = Len(h), NEW y
  PROVE  /\ DOMAIN (h \o <<y>>) = 1..(n + 1) /\ (h \o <<y>>)[n + 1] = y
         /\ \A k \in 1..n : (h \o <<y>>)[k] = h[k]
OBVIOUS

\* With one view that is empty, the list has all the nodes.
LEMMA ListOwns ==
  ASSUME pc # "delete", views = <<Empty>>, NodesOK(nodes), NEW s, Chain(nodes, list.head, s), Covers(nodes, s)
  PROVE  OwnedOnce
<1>2. DOMAIN Owners = 1..2 /\ Owners[1] = NULL /\ Owners[2] = list.head
  <2>. DEFINE h == [i \in DOMAIN views |-> views[i].head]
  <2>1. DOMAIN views = 1..1 /\ \A i \in 1..1 : views[i].head = NULL /\ i = 1
    BY NoNodes
  <2>2. h = [i \in 1..1 |-> h[i]] /\ \A i \in 1..1 : h[i] = NULL
    BY <2>1
  <2>3. Owners = h \o <<list.head>>
    BY DEF Owners
  <2>. HIDE DEF h
  <2>4. h \in Seq({NULL}) /\ Len(h) = 1
    BY <2>2, SequenceIs
  <2>5. 1 + 1 = 2 /\ 1 \in 1..1
    OBVIOUS
  <2>. QED
    BY <2>2, <2>3, <2>4, <2>5, OneMore
<1>. DEFINE o == << <<>>, s >>
<1>3. o[1] = <<>> /\ o[2] = s
  OBVIOUS
<1>. HIDE DEF o
<1>4. \A k \in 1..2 : k = 1 \/ k = 2
  OBVIOUS
<1>5. Chain(nodes, NULL, <<>>)
  BY NoNodes
<1>6. \A k \in 1..2 : Chain(nodes, Owners[k], o[k])
  BY <1>2, <1>3, <1>4, <1>5
<1>7. Apart(<<>>, s) /\ Apart(s, <<>>)
  BY DEF Apart
<1>8. \A k, l \in 1..2 : k # l => Apart(o[k], o[l])
  BY <1>3, <1>4, <1>7
<1>9. \A a \in DOMAIN nodes : a \in Range(o[2])
  BY <1>3 DEF Covers
<1>10. Owning(o, 2)
  BY <1>2, <1>6, <1>8, <1>9 DEF Owning
<1>. QED
  BY <1>10, OwningOwns

LEMMA InvNoLeak ==
  ASSUME ListInv
  PROVE  NoLeak
<1>. USE DEF ListInv
<1>1. NodesOK(nodes) /\ pc \in {"idle", "detect", "sort", "solve", "delete"}
  BY DEF Typed
<1>2. CASE pc = "idle"
  <2>1. Chain(nodes, list.head, <<>>) /\ Covers(nodes, <<>>) /\ views = <<Empty>>
    BY <1>2, NoNodes DEF IdleInv, Covers
  <2>2. OwnedOnce
    BY <1>1, <1>2, <2>1, ListOwns
  <2>3. cursor \in DOMAIN nodes \cup {NULL}
    BY <1>2 DEF IdleInv
  <2>4. \A i \in DOMAIN views : {views[i].head, views[i].tail} \subseteq DOMAIN nodes \cup {NULL}
    BY <2>1, NoNodes
  <2>. QED
    BY <2>2, <2>3, <2>4 DEF NoLeak, OwnedOnce
<1>3. CASE pc = "detect"
  <2>1. PICK c : Holds(nodes, views, promised, c)
    BY <1>3 DEF DetectInv
  <2>. DEFINE n == Len(views)  o == [k \in 1..(n + 1) |-> IF k = n + 1 THEN <<>> ELSE c[k]]
              heads == [i \in DOMAIN views |-> views[i].head]
  <2>2. DOMAIN views = 1..n /\ n \in Nat
    BY ViewIndices
  <2>3. DOMAIN Owners = 1..(n + 1) /\ Owners[n + 1] = NULL /\ \A k \in 1..n : Owners[k] = views[k].head
    <3>1. Owners = heads \o <<list.head>>
      BY <1>3 DEF Owners
    <3>2. list.head = NULL
      BY <1>3, NoNodes DEF DetectInv
    <3>3. \E S : heads \in Seq(S) /\ Len(heads) = n
      <4>. DEFINE S == {heads[k] : k \in 1..n}
      <4>1. heads = [k \in 1..n |-> heads[k]] /\ \A k \in 1..n : heads[k] \in S
        BY <2>2
      <4>. HIDE DEF heads, S
      <4>2. heads \in Seq(S) /\ Len(heads) = n
        BY <2>2, <4>1, SequenceIs
      <4>. QED
        BY <4>2
    <3>4. \A k \in 1..n : heads[k] = views[k].head
      BY <2>2
    <3>. HIDE DEF heads
    <3>5. DOMAIN (heads \o <<NULL>>) = 1..(n + 1) /\ (heads \o <<NULL>>)[n + 1] = NULL
          /\ \A k \in 1..n : (heads \o <<NULL>>)[k] = heads[k]
      BY <2>2, <3>3
    <3>. QED
      BY <3>1, <3>2, <3>4, <3>5
  <2>4. \A k \in 1..(n + 1) : k # n + 1 => k \in 1..n /\ o[k] = c[k]
    BY <2>2
  <2>5. o[n + 1] = <<>> /\ n + 1 \in 1..(n + 1)
    BY <2>2
  <2>. HIDE DEF o
  <2>6. \A k \in 1..n : IsList(nodes, views[k], c[k]) /\ Chain(nodes, views[k].head, c[k])
    BY <2>1 DEF Holds, IsList
  <2>7. ASSUME NEW k \in 1..(n + 1) PROVE Chain(nodes, Owners[k], o[k])
    <3>1. CASE k = n + 1
      BY <2>3, <2>5, <3>1, NoNodes
    <3>2. CASE k # n + 1
      BY <2>3, <2>4, <2>6, <3>2
    <3>. QED
      BY <3>1, <3>2
  <2>8. ASSUME NEW k \in 1..(n + 1), NEW l \in 1..(n + 1), k # l PROVE Apart(o[k], o[l])
    <3>1. CASE k = n + 1 \/ l = n + 1
      <4>1. o[k] = <<>> \/ o[l] = <<>>
        BY <2>5, <3>1
      <4>. QED
        BY <4>1 DEF Apart
    <3>2. CASE k # n + 1 /\ l # n + 1
      <4>1. k \in 1..n /\ l \in 1..n /\ o[k] = c[k] /\ o[l] = c[l]
        BY <2>4, <3>2
      <4>. QED
        BY <2>1, <2>8, <4>1 DEF Holds
    <3>. QED
      BY <3>1, <3>2
  <2>9. ASSUME NEW a \in DOMAIN nodes PROVE \E k \in 1..(n + 1) : a \in Range(o[k])
    <3>1. PICK k \in 1..n : a \in Range(c[k])
      BY <2>1 DEF Holds
    <3>2. k \in 1..(n + 1) /\ k # n + 1
      BY <2>2
    <3>. QED
      BY <2>4, <3>1, <3>2
  <2>10. Owning(o, n + 1)
    BY <2>2, <2>3, <2>7, <2>8, <2>9 DEF Owning
  <2>11. OwnedOnce
    BY <1>1, <2>10, OwningOwns
  <2>12. ASSUME NEW i \in DOMAIN views
         PROVE  {views[i].head, views[i].tail} \subseteq DOMAIN nodes \cup {NULL}
    <3>. DEFINE s == c[i]
    <3>1. IsList(nodes, views[i], s)
      BY <2>2, <2>6
    <3>. HIDE DEF s
    <3>2. /\ views[i].head = (IF s = <<>> THEN NULL ELSE s[1])
          /\ views[i].tail = (IF s = <<>> THEN NULL ELSE s[Len(s)]) /\ s \in Seq(DOMAIN nodes)
      BY <3>1 DEF IsList, Chain
    <3>3. s # <<>> => s[1] \in DOMAIN nodes /\ s[Len(s)] \in DOMAIN nodes
      BY <3>2
    <3>. QED
      BY <3>2, <3>3
  <2>13. cursor = NULL
    BY <1>3 DEF DetectInv
  <2>. QED
    BY <2>11, <2>12, <2>13 DEF NoLeak, OwnedOnce
<1>4. CASE pc \in {"sort", "solve"}
  <2>1. PICK s : /\ IsList(nodes, list, s) /\ Covers(nodes, s)
                 /\ cursor = NULL \/ cursor \in Range(s)
    BY <1>4 DEF ListedInv
  <2>2. Chain(nodes, list.head, s) /\ views = <<Empty>>
    BY <1>4, <2>1 DEF IsList, ListedInv
  <2>3. OwnedOnce
    BY <1>1, <1>4, <2>1, <2>2, ListOwns
  <2>4. cursor \in DOMAIN nodes \cup {NULL}
    BY <2>1, <2>2, RangeOfChain
  <2>5. \A i \in DOMAIN views : {views[i].head, views[i].tail} \subseteq DOMAIN nodes \cup {NULL}
    BY <2>2, NoNodes
  <2>. QED
    BY <2>3, <2>4, <2>5 DEF NoLeak, OwnedOnce
<1>5. CASE pc = "delete"
  <2>1. PICK s : Chain(nodes, cursor, s) /\ Covers(nodes, s)
    BY <1>5 DEF DeleteInv
  <2>2. views = <<Empty>>
    BY <1>5 DEF DeleteInv
  <2>3. Owners = <<cursor>> /\ DOMAIN Owners = 1..1 /\ Owners[1] = cursor
    BY <1>5 DEF Owners
  <2>. DEFINE o == <<s>>
  <2>4. o[1] = s /\ \A k \in 1..1 : k = 1
    OBVIOUS
  <2>. HIDE DEF o
  <2>5. Owning(o, 1)
    BY <2>1, <2>3, <2>4 DEF Owning, Covers
  <2>6. OwnedOnce
    BY <1>1, <2>5, OwningOwns
  <2>7. cursor \in DOMAIN nodes \cup {NULL}
    BY <2>1 DEF Chain
  <2>8. \A i \in DOMAIN views : {views[i].head, views[i].tail} \subseteq DOMAIN nodes \cup {NULL}
    BY <2>2, NoNodes
  <2>. QED
    BY <2>6, <2>7, <2>8 DEF NoLeak, OwnedOnce
<1>. QED
  BY <1>1, <1>2, <1>3, <1>4, <1>5

\* Every node is in one list, and in one place of it: none is lost by a merge, none is
\* freed twice, and no pointer that is used again leads to one that was freed.
THEOREM NodesOwnedOnce == Spec => []NoLeak
<1>1. ListInv => NoLeak
  BY InvNoLeak
<1>. QED
  BY <1>1, ListInvariant, PTL

-----------------------------------------------------------------------------
(* What each step does to the events of the nodes.                         *)

\* m has the events of ns, and e at a.
Gains(ns, m, a, e) ==
  /\ a \notin DOMAIN ns /\ DOMAIN m = DOMAIN ns \cup {a} /\ Data(m[a]) = e
  /\ \A x \in DOMAIN ns : Data(m[x]) = Data(ns[x])

SameData(ns, m) ==
  DOMAIN m = DOMAIN ns /\ \A x \in DOMAIN ns : Data(m[x]) = Data(ns[x])

LEMMA AppendGains ==
  ASSUME ListInv, NEW i \in DOMAIN views, AppendNode(i)
  PROVE  \E a : Gains(nodes, nodes', a, Head(work[i]))
<1>1. PICK a \in Addresses \ DOMAIN nodes : nodes' = WithNode(nodes, views[i], a, Head(work[i]))
  BY DEF AppendNode
<1>2. pc = "detect" /\ work[i] # <<>> /\ Typed
  BY DEF AppendNode, ListInv
<1>3. PICK c : Holds(nodes, views, promised, c)
  BY <1>2 DEF ListInv, DetectInv
<1>4. i \in 1..Len(views) /\ work[i] \in Seq(Events)
  BY <1>2, ViewIndices
<1>5. Head(work[i]) \in Events
  BY <1>2, <1>4
<1>6. IsList(nodes, views[i], c[i]) /\ NodesOK(nodes)
  BY <1>2, <1>3, <1>4 DEF Holds, Typed
<1>. DEFINE e == Head(work[i])
<1>7. e \in Events /\ nodes' = WithNode(nodes, views[i], a, e)
  BY <1>1, <1>5
<1>. HIDE DEF e
<1>8. WithNodeOK(nodes, nodes', views[i], c[i], a, e)
  BY <1>6, <1>7, AppendedList
<1>9. Gains(nodes, nodes', a, e)
  BY <1>8 DEF WithNodeOK, Gains
<1>. QED
  BY <1>9 DEF e

LEMMA ReduceSameData ==
  ASSUME ListInv, NEW i \in DOMAIN views, Reduce(i)
  PROVE  SameData(nodes, nodes')
<1>. DEFINE m == mergeNodes(nodes, views[i], views[i + 1])
<1>1. /\ pc = "detect" /\ i < Len(views)
      /\ nodes' = [a \in DOMAIN nodes \ Range(From(m.nodes, m.right.head)) |-> m.nodes[a]]
  BY DEF Reduce
<1>2. Typed /\ NodesOK(nodes)
  BY DEF ListInv, Typed
<1>3. i \in 1..Len(views) /\ i + 1 \in 1..Len(views) /\ i # i + 1
  BY <1>1, <1>2, ViewIndices
<1>4. PICK c : Holds(nodes, views, promised, c)
  BY <1>1 DEF ListInv, DetectInv
<1>5. IsList(nodes, views[i], c[i]) /\ IsList(nodes, views[i + 1], c[i + 1]) /\ Apart(c[i], c[i + 1])
  BY <1>3, <1>4 DEF Holds
<1>6. Merged(nodes, m, c[i], c[i + 1])
  BY <1>2, <1>5, MergedLists
<1>. HIDE DEF m
<1>7. m.right = Empty /\ NodesOK(m.nodes)
  BY <1>6 DEF Merged
<1>8. From(m.nodes, m.right.head) = <<>> /\ Range(<<>>) = {}
  BY <1>7, NoNodes, FromChain DEF Range
<1>. QED
  BY <1>1, <1>6, <1>8 DEF Merged, SameData

\* The list that Collect hands over has the nodes and the length of the last view.
LEMMA CollectSameData ==
  ASSUME ListInv, Collect
  PROVE  /\ SameData(nodes, nodes')
         /\ \E s : /\ IsList(nodes', list', s) /\ Covers(nodes', s)
                   /\ numLineLineCollisions' = numLineLineCollisions + Len(s)
                   /\ cursor' = (IF s = <<>> THEN NULL ELSE s[1])
<1>. DEFINE m == mergeNodes(nodes, list, views[1])
<1>1. /\ pc = "detect" /\ Len(views) = 1
      /\ numLineLineCollisions' = numLineLineCollisions + views[1].size
      /\ nodes' = m.nodes /\ list' = m.left /\ cursor' = m.left.head
  BY DEF Collect
<1>2. PICK c : Holds(nodes, views, promised, c)
  BY <1>1 DEF ListInv, DetectInv
<1>. DEFINE s == c[1]
<1>3. IsList(nodes, views[1], s) /\ Covers(nodes, s)
  <2>1. 1 \in 1..Len(views) /\ \A i \in 1..Len(views) : i = 1
    BY <1>1
  <2>. QED
    BY <1>2, <2>1 DEF Holds, Covers
<1>. HIDE DEF s
<1>4. NodesOK(nodes) /\ list = Empty
  BY <1>1 DEF ListInv, Typed, DetectInv
<1>5. Merged(nodes, m, <<>>, s)
  <2>1. IsList(nodes, list, <<>>) /\ Apart(<<>>, s)
    BY <1>4, NoNodes DEF Apart
  <2>. QED
    BY <1>3, <1>4, <2>1, MergedLists
<1>6. <<>> \o s = s /\ views[1].size = Len(s)
  <2>1. s \in Seq(DOMAIN nodes)
    BY <1>3 DEF IsList, Chain
  <2>. QED
    BY <1>3, <2>1 DEF IsList
<1>. HIDE DEF m
<1>7. IsList(nodes', list', s) /\ SameData(nodes, nodes') /\ Covers(nodes', s)
  BY <1>1, <1>3, <1>5, <1>6 DEF Merged, SameData, Covers
<1>8. cursor' = (IF s = <<>> THEN NULL ELSE s[1])
  BY <1>1, <1>7 DEF IsList
<1>. QED
  BY <1>1, <1>6, <1>7, <1>8

SwapAt(p, r, j) == IF j = p THEN r ELSE IF j = r THEN p ELSE j

\* The events of the nodes at p and at r of the list s are exchanged.
Permuted(ns, m, s, p, r) ==
  /\ DOMAIN m = DOMAIN ns
  /\ \A j \in 1..Len(s) : Data(m[s[j]]) = Data(ns[s[SwapAt(p, r, j)]])

\* A round of the sort brings a least of the nodes from the cursor on to its place.
LEMMA SortPermutes ==
  ASSUME ListInv, Sort, cursor # NULL,
         NEW s, IsList(nodes, list, s), NEW p, p \in 1..Len(s), s[p] = cursor
  PROVE  /\ IsList(nodes', list, s)
         /\ \E r \in p..Len(s) :
              /\ Permuted(nodes, nodes', s, p, r)
              /\ \A j \in p..Len(s) : compareData(nodes[s[r]], nodes[s[j]]) <= 0
<1>. DEFINE at == From(nodes, cursor)  q == Least(at)  x == at[q]  n == Len(s)  r == p + q - 1
<1>1. nodes' = (IF x = cursor THEN nodes ELSE swapData(nodes, x, cursor))
  BY DEF Sort
<1>2. NodesOK(nodes) /\ Chain(nodes, list.head, s)
  BY DEF ListInv, Typed, IsList
<1>3. n \in Nat /\ p \in Nat /\ \A j \in 1..n : s[j] \in DOMAIN nodes
  BY <1>2 DEF Chain
<1>4. /\ at = SubSeq(s, p, n) /\ Len(at) = n - p + 1
      /\ \A j \in 1..(n - p + 1) : at[j] = s[p + j - 1]
  <2>1. /\ Chain(nodes, cursor, SubSeq(s, p, n)) /\ Len(SubSeq(s, p, n)) = n - p + 1
        /\ \A j \in 1..(n - p + 1) : SubSeq(s, p, n)[j] = s[p + j - 1]
    BY <1>2, ChainEnd
  <2>2. at = SubSeq(s, p, n)
    BY <1>2, <2>1, FromChain
  <2>. QED
    BY <2>1, <2>2
<1>5. cursor \in Range(s)
  BY <1>2, RangeOfChain
<1>6. IsLeast(at, q) /\ x \in DOMAIN nodes /\ cursor \in DOMAIN nodes /\ at \in Seq(DOMAIN nodes)
  BY <1>2, <1>5, LeastInList
<1>7. DOMAIN at = 1..(n - p + 1)
  BY <1>4, <1>6
<1>. HIDE DEF at, q
<1>8. q \in 1..(n - p + 1) /\ \A j \in 1..(n - p + 1) : compareData(nodes[x], nodes[at[j]]) <= 0
  BY <1>6, <1>7 DEF IsLeast
<1>9. r \in p..n /\ r \in 1..n /\ x = s[r]
  BY <1>3, <1>4, <1>8
<1>10. ASSUME NEW j \in p..n
       PROVE  compareData(nodes[s[r]], nodes[s[j]]) <= 0
  <2>1. j - p + 1 \in 1..(n - p + 1) /\ p + (j - p + 1) - 1 = j
    BY <1>3
  <2>2. at[j - p + 1] = s[j]
    BY <1>4, <2>1
  <2>. QED
    BY <1>8, <1>9, <2>1, <2>2
<1>. HIDE DEF x, r
<1>11. \A j, k \in 1..n : s[j] = s[k] => j = k
  BY <1>2 DEF Chain
<1>12. CASE x = cursor
  <2>1. nodes' = nodes /\ r = p
    BY <1>1, <1>9, <1>11, <1>12
  <2>2. Permuted(nodes, nodes', s, p, r)
    BY <2>1 DEF Permuted, SwapAt
  <2>. QED
    BY <1>9, <1>10, <2>1, <2>2
<1>13. CASE x # cursor
  <2>1. Swapped(nodes, nodes', x, cursor)
    BY <1>1, <1>2, <1>6, <1>13, SwapKeepsLinks
  <2>2. Permuted(nodes, nodes', s, p, r)
    <3>1. ASSUME NEW j \in 1..n
          PROVE  Data(nodes'[s[j]]) = Data(nodes[s[SwapAt(p, r, j)]])
      <4>1. CASE j = p
        BY <1>9, <2>1, <4>1 DEF Swapped, SwapAt
      <4>2. CASE j # p /\ j = r
        BY <1>9, <2>1, <4>2 DEF Swapped, SwapAt
      <4>3. CASE j # p /\ j # r
        <5>1. s[j] # cursor /\ s[j] # x /\ s[j] \in DOMAIN nodes
          BY <1>3, <1>9, <1>11, <4>3
        <5>. QED
          BY <2>1, <4>3, <5>1 DEF Swapped, SwapAt
      <4>. QED
        BY <4>1, <4>2, <4>3
    <3>. QED
      BY <2>1, <3>1 DEF Permuted, Swapped
  <2>3. Chain(nodes', list.head, s)
    BY <1>2, <2>1, ChainSameLinks DEF Swapped
  <2>4. IsList(nodes', list, s)
    BY <2>3 DEF IsList
  <2>. QED
    BY <1>9, <1>10, <2>2, <2>4
<1>. QED
  BY <1>12, <1>13

-----------------------------------------------------------------------------
(* No pair is in two nodes.                                                *)

PairsOnce(ns) == \A a, b \in DOMAIN ns : SamePair(Data(ns[a]), Data(ns[b])) => a = b

WorkOnce(w) ==
  \A i, j \in 1..Len(w) : \A k \in 1..Len(w[i]), m \in 1..Len(w[j]) :
    SamePair(w[i][k], w[j][m]) => i = j /\ k = m

WorkNew(ns, w) ==
  \A i \in 1..Len(w) : \A k \in 1..Len(w[i]), a \in DOMAIN ns : ~SamePair(w[i][k], Data(ns[a]))

DistinctInv ==
  /\ pc \in {"detect", "sort", "solve"} => PairsOnce(nodes)
  /\ pc = "detect" => WorkOnce(work) /\ WorkNew(nodes, work)

LEMMA PairsOnceKept ==
  ASSUME NEW ns, PairsOnce(ns), NEW m, SameData(ns, m)
  PROVE  PairsOnce(m)
BY DEF PairsOnce, SameData

LEMMA PairsOncePermuted ==
  ASSUME NEW ns, PairsOnce(ns), NEW m, NEW s, NEW a, Chain(ns, a, s), Covers(ns, s),
         NEW p \in 1..Len(s), NEW r \in 1..Len(s), Permuted(ns, m, s, p, r)
  PROVE  PairsOnce(m)
<1>. SUFFICES ASSUME NEW x \in DOMAIN m, NEW y \in DOMAIN m, SamePair(Data(m[x]), Data(m[y]))
              PROVE  x = y
  BY DEF PairsOnce
<1>1. x \in Range(s) /\ y \in Range(s)
  BY DEF Permuted, Covers
<1>2. PICK i \in 1..Len(s) : s[i] = x
  BY <1>1, RangeOfChain
<1>3. PICK j \in 1..Len(s) : s[j] = y
  BY <1>1, RangeOfChain
<1>. DEFINE k == SwapAt(p, r, i)  l == SwapAt(p, r, j)
<1>4. k \in 1..Len(s) /\ l \in 1..Len(s) /\ (k = l => i = j)
  BY DEF SwapAt
<1>5. Data(m[x]) = Data(ns[s[k]]) /\ Data(m[y]) = Data(ns[s[l]])
  BY <1>2, <1>3 DEF Permuted
<1>. HIDE DEF k, l
<1>6. s[k] \in DOMAIN ns /\ s[l] \in DOMAIN ns
  BY <1>4 DEF Chain
<1>7. s[k] = s[l]
  BY <1>5, <1>6 DEF PairsOnce
<1>. QED
  BY <1>2, <1>3, <1>4, <1>7 DEF Chain

LEMMA AppendDistinct ==
  ASSUME ListInv, DistinctInv, NEW i \in DOMAIN views, AppendNode(i)
  PROVE  DistinctInv'
<1>1. /\ pc = "detect" /\ pc' = pc /\ work[i] # <<>> /\ work' = [work EXCEPT ![i] = Tail(work[i])]
  BY DEF AppendNode
<1>2. PairsOnce(nodes) /\ WorkOnce(work) /\ WorkNew(nodes, work)
  BY <1>1 DEF DistinctInv
<1>. DEFINE n == Len(work)  w == work[i]  e == Head(work[i])
<1>3. /\ DOMAIN work = 1..n /\ n \in Nat /\ i \in 1..n /\ w \in Seq(Events) /\ w # <<>>
      /\ \A j \in 1..n : work[j] \in Seq(Events)
  BY <1>1, ViewIndices DEF ListInv
<1>4. PICK a : Gains(nodes, nodes', a, e)
  BY AppendGains
<1>5. /\ e = w[1] /\ 1 \in 1..Len(w) /\ Len(w) \in Nat /\ Len(Tail(w)) = Len(w) - 1
      /\ \A k \in 1..(Len(w) - 1) : Tail(w)[k] = w[k + 1] /\ k + 1 \in 1..Len(w)
  BY <1>3
<1>. HIDE DEF e
<1>6. Len(work') = n /\ \A j \in 1..n : work'[j] = (IF j = i THEN Tail(w) ELSE work[j])
  BY <1>1, <1>3
\* what is left of the work, at its place in the work before
<1>. DEFINE at(j, k) == IF j = i THEN k + 1 ELSE k
<1>7. ASSUME NEW j \in 1..n, NEW k \in 1..Len(work'[j])
      PROVE  at(j, k) \in 1..Len(work[j]) /\ work'[j][k] = work[j][at(j, k)] /\ (j = i => at(j, k) # 1)
  <2>1. CASE j = i
    <3>1. work'[j] = Tail(w) /\ k \in 1..(Len(w) - 1)
      BY <1>5, <1>6, <2>1
    <3>. QED
      BY <1>5, <2>1, <3>1
  <2>2. CASE j # i
    BY <1>6, <2>2
  <2>. QED
    BY <2>1, <2>2
<1>8. \A j \in 1..n : \A k, m \in 1..Len(work'[j]) : at(j, k) = at(j, m) => k = m
  <2>. TAKE j \in 1..n
  <2>. TAKE k, m \in 1..Len(work'[j])
  <2>1. k \in Int /\ m \in Int
    <3>1. Len(work'[j]) \in Int
      BY <1>3, <1>5, <1>6
    <3>. QED
      BY <3>1
  <2>. QED
    BY <2>1
<1>. HIDE DEF at
<1>9. WorkOnce(work')
  <2>. SUFFICES ASSUME NEW j \in 1..n, NEW l \in 1..n, NEW k \in 1..Len(work'[j]),
                       NEW m \in 1..Len(work'[l]), SamePair(work'[j][k], work'[l][m])
                PROVE  j = l /\ k = m
    BY <1>6 DEF WorkOnce
  <2>1. /\ at(j, k) \in 1..Len(work[j]) /\ work'[j][k] = work[j][at(j, k)]
        /\ at(l, m) \in 1..Len(work[l]) /\ work'[l][m] = work[l][at(l, m)]
    BY <1>7
  <2>2. SamePair(work[j][at(j, k)], work[l][at(l, m)])
    BY <2>1
  <2>3. j = l /\ at(j, k) = at(l, m)
    BY <1>2, <2>1, <2>2 DEF WorkOnce
  <2>. QED
    BY <1>8, <2>3
<1>10. WorkNew(nodes', work')
  <2>. SUFFICES ASSUME NEW j \in 1..n, NEW k \in 1..Len(work'[j]), NEW b \in DOMAIN nodes',
                       SamePair(work'[j][k], Data(nodes'[b]))
                PROVE  FALSE
    BY <1>6 DEF WorkNew
  <2>1. at(j, k) \in 1..Len(work[j]) /\ work'[j][k] = work[j][at(j, k)] /\ (j = i => at(j, k) # 1)
    BY <1>7
  <2>2. CASE b = a
    <3>1. SamePair(work[j][at(j, k)], work[i][1])
      BY <1>4, <1>5, <2>1, <2>2 DEF Gains
    <3>2. j = i /\ at(j, k) = 1
      BY <1>2, <1>3, <1>5, <2>1, <3>1 DEF WorkOnce
    <3>. QED
      BY <2>1, <3>2
  <2>3. CASE b # a
    <3>1. b \in DOMAIN nodes /\ Data(nodes'[b]) = Data(nodes[b])
      BY <1>4, <2>3 DEF Gains
    <3>. QED
      BY <1>2, <2>1, <3>1 DEF WorkNew
  <2>. QED
    BY <2>2, <2>3
<1>11. PairsOnce(nodes')
  <2>. SUFFICES ASSUME NEW b \in DOMAIN nodes', NEW d \in DOMAIN nodes',
                       SamePair(Data(nodes'[b]), Data(nodes'[d])), b # d
                PROVE  FALSE
    BY DEF PairsOnce
  <2>1. \A x \in DOMAIN nodes : ~SamePair(e, Data(nodes[x])) /\ ~SamePair(Data(nodes[x]), e)
    <3>1. \A x \in DOMAIN nodes : ~SamePair(e, Data(nodes[x]))
      BY <1>2, <1>3, <1>5 DEF WorkNew
    <3>. QED
      BY <3>1 DEF SamePair
  <2>2. CASE b = a
    BY <1>4, <2>1, <2>2 DEF Gains
  <2>3. CASE d = a
    BY <1>4, <2>1, <2>3 DEF Gains
  <2>4. CASE b # a /\ d # a
    BY <1>2, <1>4, <2>4 DEF Gains, PairsOnce
  <2>. QED
    BY <2>2, <2>3, <2>4
<1>. QED
  BY <1>1, <1>9, <1>10, <1>11 DEF DistinctInv

LEMMA FailsDistinct ==
  ASSUME ListInv, DistinctInv, NEW i \in DOMAIN views, AppendFails(i)
  PROVE  DistinctInv'
<1>1. /\ pc = "detect" /\ pc' = pc /\ work[i] # <<>> /\ work' = [work EXCEPT ![i] = Tail(work[i])]
      /\ nodes' = nodes
  BY DEF AppendFails
<1>2. PairsOnce(nodes) /\ WorkOnce(work) /\ WorkNew(nodes, work)
  BY <1>1 DEF DistinctInv
<1>. DEFINE n == Len(work)  w == work[i]
<1>3. /\ DOMAIN work = 1..n /\ n \in Nat /\ i \in 1..n /\ w \in Seq(Events) /\ w # <<>>
      /\ \A j \in 1..n : work[j] \in Seq(Events)
  BY <1>1, ViewIndices DEF ListInv
<1>5. /\ Len(w) \in Nat /\ Len(Tail(w)) = Len(w) - 1
      /\ \A k \in 1..(Len(w) - 1) : Tail(w)[k] = w[k + 1] /\ k + 1 \in 1..Len(w)
  BY <1>3
<1>6. Len(work') = n /\ \A j \in 1..n : work'[j] = (IF j = i THEN Tail(w) ELSE work[j])
  BY <1>1, <1>3
<1>. DEFINE at(j, k) == IF j = i THEN k + 1 ELSE k
<1>7. ASSUME NEW j \in 1..n, NEW k \in 1..Len(work'[j])
      PROVE  at(j, k) \in 1..Len(work[j]) /\ work'[j][k] = work[j][at(j, k)]
  <2>1. CASE j = i
    <3>1. work'[j] = Tail(w) /\ k \in 1..(Len(w) - 1)
      BY <1>5, <1>6, <2>1
    <3>. QED
      BY <1>5, <2>1, <3>1
  <2>2. CASE j # i
    BY <1>6, <2>2
  <2>. QED
    BY <2>1, <2>2
<1>8. \A j \in 1..n : \A k, m \in 1..Len(work'[j]) : at(j, k) = at(j, m) => k = m
  <2>. TAKE j \in 1..n
  <2>. TAKE k, m \in 1..Len(work'[j])
  <2>1. k \in Int /\ m \in Int
    <3>1. Len(work'[j]) \in Int
      BY <1>3, <1>5, <1>6
    <3>. QED
      BY <3>1
  <2>. QED
    BY <2>1
<1>. HIDE DEF at
<1>9. WorkOnce(work')
  <2>. SUFFICES ASSUME NEW j \in 1..n, NEW l \in 1..n, NEW k \in 1..Len(work'[j]),
                       NEW m \in 1..Len(work'[l]), SamePair(work'[j][k], work'[l][m])
                PROVE  j = l /\ k = m
    BY <1>6 DEF WorkOnce
  <2>1. /\ at(j, k) \in 1..Len(work[j]) /\ work'[j][k] = work[j][at(j, k)]
        /\ at(l, m) \in 1..Len(work[l]) /\ work'[l][m] = work[l][at(l, m)]
    BY <1>7
  <2>2. SamePair(work[j][at(j, k)], work[l][at(l, m)])
    BY <2>1
  <2>3. j = l /\ at(j, k) = at(l, m)
    BY <1>2, <2>1, <2>2 DEF WorkOnce
  <2>. QED
    BY <1>8, <2>3
<1>10. WorkNew(nodes', work')
  <2>. SUFFICES ASSUME NEW j \in 1..n, NEW k \in 1..Len(work'[j]), NEW b \in DOMAIN nodes
                PROVE  ~SamePair(work'[j][k], Data(nodes[b]))
    BY <1>1, <1>6 DEF WorkNew
  <2>1. at(j, k) \in 1..Len(work[j]) /\ work'[j][k] = work[j][at(j, k)]
    BY <1>7
  <2>. QED
    BY <1>2, <2>1 DEF WorkNew
<1>. QED
  BY <1>1, <1>2, <1>9, <1>10 DEF DistinctInv

LEMMA ReduceDistinct ==
  ASSUME ListInv, DistinctInv, NEW i \in DOMAIN views, Reduce(i)
  PROVE  DistinctInv'
<1>1. /\ pc = "detect" /\ pc' = pc /\ i < Len(views) /\ work' = RemoveAt(work, i + 1)
  BY DEF Reduce
<1>2. PairsOnce(nodes) /\ WorkOnce(work) /\ WorkNew(nodes, work)
  BY <1>1 DEF DistinctInv
<1>. DEFINE n == Len(work)
<1>3. work \in Seq(Seq(Events)) /\ n \in Nat /\ i \in 1..n /\ i + 1 \in 1..n
  <2>1. work \in Seq(Seq(Events)) /\ Len(views) = n
    BY DEF ListInv, Typed
  <2>2. i \in 1..n /\ n \in Nat
    BY <2>1, ViewIndices DEF ListInv
  <2>. QED
    BY <1>1, <2>1, <2>2
<1>4. SameData(nodes, nodes')
  BY ReduceSameData
<1>. DEFINE from(j) == IF j < i + 1 THEN j ELSE j + 1
<1>5. /\ Len(work') = n - 1
      /\ \A j \in 1..(n - 1) : work'[j] = (IF j < i + 1 THEN work[j] ELSE work[j + 1])
  <2>. DEFINE Q == Seq(Events)  k == i + 1  t == RemoveAt(work, k)
  <2>1. work \in Seq(Q) /\ k \in 1..Len(work) /\ work' = t
    BY <1>1, <1>3
  <2>. HIDE DEF Q, k
  <2>2. Len(t) = Len(work) - 1 /\ \A j \in 1..(Len(work) - 1) : t[j] = (IF j < k THEN work[j] ELSE work[j + 1])
    BY <2>1, RemovedAt
  <2>. QED
    BY <2>1, <2>2 DEF k
<1>6. \A j \in 1..(n - 1) : from(j) \in 1..n /\ work'[j] = work[from(j)]
  BY <1>3, <1>5
<1>7. \A j, l \in 1..(n - 1) : from(j) = from(l) => j = l
  BY <1>3
<1>. HIDE DEF from
<1>8. WorkOnce(work')
  <2>. SUFFICES ASSUME NEW j \in 1..(n - 1), NEW l \in 1..(n - 1), NEW k \in 1..Len(work'[j]),
                       NEW m \in 1..Len(work'[l]), SamePair(work'[j][k], work'[l][m])
                PROVE  j = l /\ k = m
    BY <1>5 DEF WorkOnce
  <2>1. /\ from(j) \in 1..n /\ k \in 1..Len(work[from(j)])
        /\ from(l) \in 1..n /\ m \in 1..Len(work[from(l)])
        /\ SamePair(work[from(j)][k], work[from(l)][m])
    BY <1>6
  <2>. QED
    BY <1>2, <1>7, <2>1 DEF WorkOnce
<1>9. WorkNew(nodes', work')
  <2>. SUFFICES ASSUME NEW j \in 1..(n - 1), NEW k \in 1..Len(work'[j]), NEW b \in DOMAIN nodes'
                PROVE  ~SamePair(work'[j][k], Data(nodes'[b]))
    BY <1>5 DEF WorkNew
  <2>1. from(j) \in 1..n /\ work'[j] = work[from(j)]
    BY <1>6
  <2>2. b \in DOMAIN nodes /\ Data(nodes'[b]) = Data(nodes[b])
    BY <1>4 DEF SameData
  <2>. QED
    BY <1>2, <2>1, <2>2 DEF WorkNew
<1>10. PairsOnce(nodes')
  BY <1>2, <1>4, PairsOnceKept
<1>. QED
  BY <1>1, <1>8, <1>9, <1>10 DEF DistinctInv

LEMMA SortDistinct ==
  ASSUME ListInv, DistinctInv, Sort
  PROVE  DistinctInv'
<1>1. pc = "sort" /\ pc' \in {"sort", "solve"} /\ PairsOnce(nodes)
  BY DEF Sort, DistinctInv
<1>2. CASE cursor = NULL
  BY <1>1, <1>2 DEF Sort, DistinctInv
<1>3. CASE cursor # NULL
  <2>1. PICK s : IsList(nodes, list, s) /\ Covers(nodes, s) /\ cursor \in Range(s)
    BY <1>1, <1>3 DEF ListInv, ListedInv
  <2>2. Chain(nodes, list.head, s)
    BY <2>1 DEF IsList
  <2>3. PICK p \in 1..Len(s) : s[p] = cursor
    BY <2>1, <2>2, RangeOfChain
  <2>4. PICK r \in p..Len(s) : Permuted(nodes, nodes', s, p, r)
    BY <1>3, <2>1, <2>3, SortPermutes
  <2>5. r \in 1..Len(s)
    BY <2>2 DEF Chain
  <2>6. PairsOnce(nodes')
    BY <1>1, <2>1, <2>2, <2>4, <2>5, PairsOncePermuted
  <2>. QED
    BY <1>1, <2>6 DEF DistinctInv
<1>. QED
  BY <1>2, <1>3

LEMMA BeginDistinct ==
  ASSUME FoundOnce, ListInv, Begin
  PROVE  DistinctInv'
<1>1. PICK f \in Findings : work' = f
  BY DEF Begin
<1>2. pc' = "detect" /\ nodes' = nodes /\ DOMAIN nodes = {}
  BY DEF Begin, ListInv, IdleInv
<1>3. f \in Seq(Seq([l1 : Nat, l2 : Nat, type : IntersectionType])) /\ PairsFoundOnce(f)
  BY EventListAssumption DEF FoundOnce
<1>4. DOMAIN f = 1..Len(f) /\ \A i \in 1..Len(f) : DOMAIN f[i] = 1..Len(f[i])
  <2>1. DOMAIN f = 1..Len(f) /\ \A i \in 1..Len(f) : f[i] \in Seq([l1 : Nat, l2 : Nat, type : IntersectionType])
    BY <1>3
  <2>. QED
    BY <2>1
<1>5. WorkOnce(f)
  BY <1>3, <1>4 DEF PairsFoundOnce, WorkOnce
<1>. QED
  BY <1>1, <1>2, <1>5 DEF DistinctInv, PairsOnce, WorkNew

LEMMA DistinctStep ==
  ASSUME FoundOnce, ListInv, DistinctInv, [Next]_vars
  PROVE  DistinctInv'
<1>1. CASE Begin
  BY <1>1, BeginDistinct
<1>2. ASSUME NEW i \in DOMAIN views, AppendNode(i) PROVE DistinctInv'
  BY <1>2, AppendDistinct
<1>3. ASSUME NEW i \in DOMAIN views, AppendFails(i) PROVE DistinctInv'
  BY <1>3, FailsDistinct
<1>4. ASSUME NEW i \in DOMAIN views, Reduce(i) PROVE DistinctInv'
  BY <1>4, ReduceDistinct
<1>5. CASE Collect
  <2>1. pc = "detect" /\ pc' = "sort" /\ PairsOnce(nodes)
    BY <1>5 DEF Collect, DistinctInv
  <2>2. PairsOnce(nodes')
    BY <1>5, <2>1, CollectSameData, PairsOnceKept
  <2>. QED
    BY <2>1, <2>2 DEF DistinctInv
<1>6. CASE Sort
  BY <1>6, SortDistinct
<1>7. CASE Solve
  BY <1>7 DEF Solve, DistinctInv
<1>8. CASE Solved
  BY <1>8 DEF Solved, DistinctInv
<1>9. CASE deleteNodes
  BY <1>9 DEF deleteNodes, DistinctInv
<1>10. CASE UNCHANGED vars
  BY <1>10 DEF vars, DistinctInv
<1>. QED
  BY <1>1, <1>2, <1>3, <1>4, <1>5, <1>6, <1>7, <1>8, <1>9, <1>10 DEF Next, Stop

-----------------------------------------------------------------------------
(* The events are solved in the order of their ids.                        *)

\* The first q events of the list are less than all that follow them.
InOrder(ns, s, q) ==
  \A i \in 1..q, j \in 1..Len(s) : i < j => Promise!Before(Data(ns[s[i]]), Data(ns[s[j]]))

SolvedAre(ns, s, so, q) ==
  so \in Seq(Events) /\ Len(so) = q /\ \A k \in 1..q : so[k] = Data(ns[s[k]])

\* The cursor is at p: what is before it is sorted, or was solved.
Placed(s, p) ==
  /\ IsList(nodes, list, s) /\ Covers(nodes, s) /\ p \in 1..(Len(s) + 1)
  /\ cursor = (IF p = Len(s) + 1 THEN NULL ELSE s[p])
  /\ pc = "sort" => InOrder(nodes, s, p - 1)
  /\ pc = "solve" => InOrder(nodes, s, Len(s)) /\ SolvedAre(nodes, s, solved, p - 1)

OrderInv ==
  /\ pc \in {"sort", "solve"} => \E s, p : Placed(s, p)
  /\ pc # "solve" => solved = <<>>

LEMMA OnlyOneEvent ==
  ASSUME NEW e \in Events, NEW f \in Events, NEW n, NEW m, Data(n) = e, Data(m) = f,
         compareData(n, m) <= 0, ~SamePair(e, f)
  PROVE  Promise!Before(e, f)
<1>1. e.l1 \in Nat /\ e.l2 \in Nat /\ f.l1 \in Nat /\ f.l2 \in Nat
  BY EventsAre
<1>2. n.l1 = e.l1 /\ n.l2 = e.l2 /\ m.l1 = f.l1 /\ m.l2 = f.l2
  BY DEF Data
<1>. QED
  BY <1>1, <1>2 DEF compareData, SamePair, Promise!Before

\* A round puts one more event into its place.
LEMMA RoundSorts ==
  ASSUME NodesOK(nodes), PairsOnce(nodes), NEW a, NEW s, Chain(nodes, a, s),
         NEW p, p \in 1..Len(s), InOrder(nodes, s, p - 1),
         NEW r, r \in p..Len(s), \A j \in p..Len(s) : compareData(nodes[s[r]], nodes[s[j]]) <= 0,
         NEW m, Permuted(nodes, m, s, p, r)
  PROVE  InOrder(m, s, p)
<1>. DEFINE n == Len(s)  at(j) == SwapAt(p, r, j)
<1>1. n \in Nat /\ \A j \in 1..n : s[j] \in DOMAIN nodes
  BY DEF Chain
<1>2. \A j \in 1..n : at(j) \in 1..n /\ Data(m[s[j]]) = Data(nodes[s[at(j)]])
  BY <1>1 DEF Permuted, SwapAt
<1>3. \A j \in 1..n : /\ j < p => at(j) = j
                      /\ j = p => at(j) = r
                      /\ j > p => at(j) \in p..n /\ at(j) # r
  BY <1>1 DEF SwapAt
<1>. HIDE DEF at
<1>4. \A i, j \in 1..n : s[i] = s[j] => i = j
  BY DEF Chain
<1>. SUFFICES ASSUME NEW i \in 1..p, NEW j \in 1..n, i < j
              PROVE  Promise!Before(Data(m[s[i]]), Data(m[s[j]]))
  BY DEF InOrder
<1>5. i \in 1..n
  BY <1>1
<1>6. CASE i < p
  <2>1. at(i) = i /\ i \in 1..(p - 1)
    BY <1>1, <1>3, <1>5, <1>6
  <2>2. at(j) \in 1..n /\ i < at(j)
    <3>1. CASE j < p
      BY <1>3, <3>1
    <3>2. CASE j = p
      BY <1>1, <1>3, <1>6, <3>2
    <3>3. CASE j > p
      <4>1. at(j) \in p..n
        BY <1>3, <3>3
      <4>. QED
        BY <1>1, <1>6, <4>1
    <3>. QED
      BY <1>1, <3>1, <3>2, <3>3
  <2>3. Promise!Before(Data(nodes[s[i]]), Data(nodes[s[at(j)]]))
    BY <2>1, <2>2 DEF InOrder
  <2>. QED
    BY <1>2, <1>5, <2>1, <2>3
<1>7. CASE i = p
  <2>1. at(i) = r /\ r \in 1..n
    BY <1>1, <1>3, <1>5, <1>7
  <2>2. at(j) \in p..n /\ at(j) # r /\ at(j) \in 1..n
    BY <1>1, <1>2, <1>3, <1>7
  <2>. DEFINE k == at(j)
  <2>3. k \in p..n /\ k # r /\ k \in 1..n
    BY <2>2
  <2>. HIDE DEF k
  <2>4. compareData(nodes[s[r]], nodes[s[k]]) <= 0
    BY <2>3
  <2>5. s[r] # s[k] /\ s[r] \in DOMAIN nodes /\ s[k] \in DOMAIN nodes
    BY <1>1, <1>4, <2>1, <2>3
  <2>6. ~SamePair(Data(nodes[s[r]]), Data(nodes[s[k]]))
    BY <2>5 DEF PairsOnce
  <2>7. Data(nodes[s[r]]) \in Events /\ Data(nodes[s[k]]) \in Events
    BY <2>5 DEF NodesOK
  <2>8. Promise!Before(Data(nodes[s[r]]), Data(nodes[s[k]]))
    BY <2>4, <2>6, <2>7, OnlyOneEvent
  <2>. QED
    BY <1>2, <1>5, <2>1, <2>8 DEF k
<1>. QED
  BY <1>1, <1>6, <1>7

\* At its place the cursor leads to the next one.
LEMMA NextPlace ==
  ASSUME NEW a, NEW s, Chain(nodes, a, s), NEW p, p \in 1..Len(s), cursor = s[p],
         NEW c, c = nodes[cursor].next
  PROVE  p + 1 \in 1..(Len(s) + 1) /\ c = (IF p + 1 = Len(s) + 1 THEN NULL ELSE s[p + 1])
<1>1. Len(s) \in Nat /\ nodes[s[p]].next = (IF p = Len(s) THEN NULL ELSE s[p + 1])
  BY DEF Chain
<1>2. p + 1 \in 1..(Len(s) + 1) /\ (p = Len(s) <=> p + 1 = Len(s) + 1)
  BY <1>1
<1>. QED
  BY <1>1, <1>2

LEMMA CursorPlace ==
  ASSUME ListInv, NEW s, NEW p, Placed(s, p)
  PROVE  /\ Chain(nodes, list.head, s) /\ Len(s) \in Nat /\ NodesOK(nodes)
         /\ cursor = NULL <=> p = Len(s) + 1
         /\ cursor # NULL => p \in 1..Len(s) /\ cursor = s[p]
<1>1. Chain(nodes, list.head, s) /\ NodesOK(nodes)
  BY DEF Placed, IsList, ListInv, Typed
<1>2. Len(s) \in Nat /\ NULL \notin DOMAIN nodes /\ \A i \in 1..Len(s) : s[i] \in DOMAIN nodes
  BY <1>1, EventListAssumption DEF Chain, NodesOK
<1>3. p # Len(s) + 1 => p \in 1..Len(s)
  BY <1>2 DEF Placed
<1>. QED
  BY <1>1, <1>2, <1>3 DEF Placed

LEMMA FirstPlace ==
  ASSUME NEW ns, NEW lst, NEW s, IsList(ns, lst, s)
  PROVE  1 \in 1..(Len(s) + 1) /\ lst.head = (IF 1 = Len(s) + 1 THEN NULL ELSE s[1]) /\ Len(s) \in Nat
<1>1. lst.head = (IF s = <<>> THEN NULL ELSE s[1]) /\ s \in Seq(DOMAIN ns)
  BY DEF IsList, Chain
<1>2. Len(s) \in Nat /\ (s = <<>> <=> Len(s) = 0)
  BY <1>1
<1>. QED
  BY <1>1, <1>2

LEMMA SortOrder ==
  ASSUME ListInv, DistinctInv, OrderInv, Sort
  PROVE  OrderInv'
<1>1. pc = "sort" /\ list' = list /\ solved' = solved /\ solved = <<>>
  BY DEF Sort, OrderInv
<1>2. PICK s, p : Placed(s, p)
  BY <1>1 DEF OrderInv
<1>3. /\ Chain(nodes, list.head, s) /\ Len(s) \in Nat /\ NodesOK(nodes) /\ IsList(nodes, list, s)
      /\ Covers(nodes, s) /\ InOrder(nodes, s, p - 1) /\ PairsOnce(nodes)
  BY <1>1, <1>2, CursorPlace DEF Placed, DistinctInv
<1>4. CASE cursor = NULL
  <2>1. pc' = "solve" /\ cursor' = list.head /\ nodes' = nodes /\ p - 1 = Len(s)
    <3>1. p = Len(s) + 1
      BY <1>2, <1>4, CursorPlace
    <3>. QED
      BY <1>3, <1>4, <3>1 DEF Sort
  <2>2. 1 \in 1..(Len(s) + 1) /\ cursor' = (IF 1 = Len(s) + 1 THEN NULL ELSE s[1])
    BY <1>3, <2>1, FirstPlace
  <2>3. SolvedAre(nodes', s, solved', 1 - 1)
    BY <1>1 DEF SolvedAre
  <2>4. Placed(s, 1)'
    BY <1>1, <1>3, <2>1, <2>2, <2>3 DEF Placed
  <2>. QED
    BY <2>1, <2>4 DEF OrderInv
<1>5. CASE cursor # NULL
  <2>1. pc' = "sort" /\ cursor' = nodes[cursor].next
    BY <1>1, <1>5 DEF Sort
  <2>2. p \in 1..Len(s) /\ cursor = s[p]
    BY <1>2, <1>5, CursorPlace
  <2>3. /\ IsList(nodes', list, s)
        /\ \E r \in p..Len(s) : /\ Permuted(nodes, nodes', s, p, r)
                                /\ \A j \in p..Len(s) : compareData(nodes[s[r]], nodes[s[j]]) <= 0
    BY <1>3, <1>5, <2>2, SortPermutes
  <2>4. PICK r \in p..Len(s) : /\ Permuted(nodes, nodes', s, p, r)
                               /\ \A j \in p..Len(s) : compareData(nodes[s[r]], nodes[s[j]]) <= 0
    BY <2>3
  <2>5. InOrder(nodes', s, p)
    BY <1>3, <2>2, <2>4, RoundSorts
  <2>6. p + 1 \in 1..(Len(s) + 1) /\ cursor' = (IF p + 1 = Len(s) + 1 THEN NULL ELSE s[p + 1])
    BY <1>3, <2>1, <2>2, NextPlace
  <2>7. (p + 1) - 1 = p
    BY <2>2
  <2>8. Covers(nodes', s)
    BY <1>3, <2>4 DEF Covers, Permuted
  <2>9. Placed(s, p + 1)'
    BY <1>1, <2>1, <2>3, <2>5, <2>6, <2>7, <2>8 DEF Placed
  <2>. QED
    BY <1>1, <2>1, <2>9 DEF OrderInv
<1>. QED
  BY <1>4, <1>5

LEMMA SolveOrder ==
  ASSUME ListInv, OrderInv, Solve
  PROVE  OrderInv'
<1>1. /\ pc = "solve" /\ pc' = pc /\ list' = list /\ nodes' = nodes /\ cursor # NULL
      /\ solved' = Append(solved, Data(nodes[cursor])) /\ cursor' = nodes[cursor].next
  BY DEF Solve
<1>2. PICK s, p : Placed(s, p)
  BY <1>1 DEF OrderInv
<1>3. /\ Chain(nodes, list.head, s) /\ Len(s) \in Nat /\ NodesOK(nodes)
      /\ p \in 1..Len(s) /\ cursor = s[p]
  BY <1>1, <1>2, CursorPlace
<1>4. /\ IsList(nodes, list, s) /\ Covers(nodes, s) /\ InOrder(nodes, s, Len(s))
      /\ SolvedAre(nodes, s, solved, p - 1)
  BY <1>1, <1>2 DEF Placed
<1>5. p + 1 \in 1..(Len(s) + 1) /\ cursor' = (IF p + 1 = Len(s) + 1 THEN NULL ELSE s[p + 1])
  BY <1>1, <1>3, NextPlace
<1>6. SolvedAre(nodes', s, solved', p)
  <2>. DEFINE e == Data(nodes[cursor])
  <2>1. e \in Events
    BY <1>3 DEF Chain, NodesOK
  <2>2. e = Data(nodes[s[p]])
    BY <1>3
  <2>. HIDE DEF e
  <2>3. solved' = Append(solved, e)
    BY <1>1 DEF e
  <2>4. solved \in Seq(Events) /\ Len(solved) = p - 1 /\ \A k \in 1..(p - 1) : solved[k] = Data(nodes[s[k]])
    BY <1>4 DEF SolvedAre
  <2>5. /\ solved' \in Seq(Events) /\ Len(solved') = (p - 1) + 1 /\ solved'[(p - 1) + 1] = e
        /\ \A k \in 1..(p - 1) : solved'[k] = solved[k]
    BY <2>1, <2>3, <2>4
  <2>6. (p - 1) + 1 = p /\ \A k \in 1..p : k = p \/ k \in 1..(p - 1)
    BY <1>3
  <2>7. \A k \in 1..p : solved'[k] = Data(nodes'[s[k]])
    BY <1>1, <2>2, <2>4, <2>5, <2>6
  <2>. QED
    BY <2>5, <2>6, <2>7 DEF SolvedAre
<1>7. (p + 1) - 1 = p
  BY <1>3
<1>8. Placed(s, p + 1)'
  BY <1>1, <1>4, <1>5, <1>6, <1>7 DEF Placed
<1>. QED
  BY <1>1, <1>8 DEF OrderInv

LEMMA CollectOrder ==
  ASSUME ListInv, OrderInv, Collect
  PROVE  OrderInv'
<1>1. pc = "detect" /\ pc' = "sort" /\ solved' = solved /\ solved = <<>>
  BY DEF Collect, OrderInv
<1>2. PICK s : /\ IsList(nodes', list', s) /\ Covers(nodes', s)
               /\ cursor' = (IF s = <<>> THEN NULL ELSE s[1])
  BY CollectSameData
<1>3. 1 \in 1..(Len(s) + 1) /\ list'.head = (IF 1 = Len(s) + 1 THEN NULL ELSE s[1])
  BY <1>2, FirstPlace
<1>4. cursor' = list'.head
  BY <1>2 DEF IsList
<1>5. InOrder(nodes', s, 1 - 1)
  BY DEF InOrder
<1>6. Placed(s, 1)'
  BY <1>1, <1>2, <1>3, <1>4, <1>5 DEF Placed
<1>. QED
  BY <1>1, <1>6 DEF OrderInv

LEMMA OrderStep ==
  ASSUME ListInv, DistinctInv, OrderInv, [Next]_vars
  PROVE  OrderInv'
<1>1. CASE Begin
  BY <1>1 DEF Begin, OrderInv
<1>2. ASSUME NEW i \in DOMAIN views, AppendNode(i) PROVE OrderInv'
  BY <1>2 DEF AppendNode, OrderInv
<1>3. ASSUME NEW i \in DOMAIN views, AppendFails(i) PROVE OrderInv'
  BY <1>3 DEF AppendFails, OrderInv
<1>4. ASSUME NEW i \in DOMAIN views, Reduce(i) PROVE OrderInv'
  BY <1>4 DEF Reduce, OrderInv
<1>5. CASE Collect
  BY <1>5, CollectOrder
<1>6. CASE Sort
  BY <1>6, SortOrder
<1>7. CASE Solve
  BY <1>7, SolveOrder
<1>8. CASE Solved
  BY <1>8 DEF Solved, OrderInv
<1>9. CASE deleteNodes
  BY <1>9 DEF deleteNodes, OrderInv
<1>10. CASE UNCHANGED vars
  BY <1>10 DEF vars, OrderInv, Placed
<1>. QED
  BY <1>1, <1>2, <1>3, <1>4, <1>5, <1>6, <1>7, <1>8, <1>9, <1>10 DEF Next, Stop

\* No pair is in the list twice, and the events are solved in the order of the list,
\* which is that of the ids.
THEOREM SolvedInOrder == ASSUME FoundOnce PROVE Spec => [](ListInv /\ DistinctInv /\ OrderInv)
<1>1. Init => DistinctInv /\ OrderInv
  BY DEF Init, DistinctInv, OrderInv
<1>2. ListInv /\ DistinctInv /\ OrderInv /\ [Next]_vars => DistinctInv' /\ OrderInv'
  BY DistinctStep, OrderStep
<1>. QED
  BY <1>1, <1>2, ListInvariant, PTL DEF Spec

-----------------------------------------------------------------------------
(* What OrderedEvents promises is what the steps do.                       *)

DataOf(ns) == {Data(ns[a]) : a \in DOMAIN ns}
Shown == <<Reported, solved, numLineLineCollisions, Mode>>

LEMMA SameDataOf ==
  ASSUME NEW ns, NEW m, SameData(ns, m)
  PROVE  DataOf(m) = DataOf(ns)
BY DEF SameData, DataOf

LEMMA GainsOne ==
  ASSUME NEW ns, NEW m, NEW a, NEW e, Gains(ns, m, a, e)
  PROVE  DataOf(m) = DataOf(ns) \cup {e}
BY DEF Gains, DataOf

LEMMA PermutedDataOf ==
  ASSUME NEW ns, NEW m, NEW s, NEW a, Chain(ns, a, s), Covers(ns, s),
         NEW p \in 1..Len(s), NEW r \in 1..Len(s), Permuted(ns, m, s, p, r)
  PROVE  DataOf(m) = DataOf(ns)
<1>1. \A j \in 1..Len(s) : SwapAt(p, r, j) \in 1..Len(s) /\ SwapAt(p, r, SwapAt(p, r, j)) = j
  BY DEF SwapAt
<1>2. \A j \in 1..Len(s) : s[j] \in DOMAIN ns
  BY DEF Chain
<1>3. \A x \in DOMAIN ns : \E j \in 1..Len(s) : s[j] = x
  BY RangeOfChain DEF Covers
<1>4. ASSUME NEW x \in DOMAIN ns PROVE Data(m[x]) \in DataOf(ns) /\ Data(ns[x]) \in DataOf(m)
  <2>1. PICK j \in 1..Len(s) : s[j] = x
    BY <1>3
  <2>. DEFINE k == SwapAt(p, r, j)
  <2>2. k \in 1..Len(s) /\ SwapAt(p, r, k) = j
    BY <1>1
  <2>3. Data(m[x]) = Data(ns[s[k]])
    BY <2>1 DEF Permuted
  <2>. HIDE DEF k
  <2>4. Data(m[s[k]]) = Data(ns[x]) /\ s[k] \in DOMAIN ns /\ DOMAIN m = DOMAIN ns
    BY <1>2, <2>1, <2>2 DEF Permuted
  <2>. QED
    BY <2>3, <2>4 DEF DataOf
<1>5. DOMAIN m = DOMAIN ns
  BY DEF Permuted
<1>6. \A y \in DataOf(m) : y \in DataOf(ns)
  BY <1>4, <1>5 DEF DataOf
<1>7. \A y \in DataOf(ns) : y \in DataOf(m)
  BY <1>4, <1>5 DEF DataOf
<1>. QED
  BY <1>6, <1>7

\* When no pair is there twice, there are as many events as nodes.
LEMMA EventsCounted ==
  ASSUME NEW ns, PairsOnce(ns), NEW a, NEW s, Chain(ns, a, s), Covers(ns, s)
  PROVE  Cardinality(DataOf(ns)) = Len(s)
<1>. DEFINE f == [k \in 1..Len(s) |-> Data(ns[s[k]])]
<1>1. Len(s) \in Nat /\ \A k \in 1..Len(s) : s[k] \in DOMAIN ns
  BY DEF Chain
<1>2. \A x \in DOMAIN ns : \E k \in 1..Len(s) : s[k] = x
  BY RangeOfChain DEF Covers
<1>3. \A y \in DataOf(ns) : \E k \in 1..Len(s) : f[k] = y
  <2>. SUFFICES ASSUME NEW x \in DOMAIN ns PROVE \E k \in 1..Len(s) : f[k] = Data(ns[x])
    BY DEF DataOf
  <2>1. PICK k \in 1..Len(s) : s[k] = x
    BY <1>2
  <2>. QED
    BY <2>1
<1>4. \A k \in 1..Len(s) : f[k] \in DataOf(ns)
  BY <1>1 DEF DataOf
<1>5. ASSUME NEW i \in 1..Len(s), NEW j \in 1..Len(s), f[i] = f[j] PROVE i = j
  <2>1. SamePair(Data(ns[s[i]]), Data(ns[s[j]])) /\ s[i] \in DOMAIN ns /\ s[j] \in DOMAIN ns
    BY <1>1, <1>5 DEF SamePair
  <2>2. s[i] = s[j]
    BY <2>1 DEF PairsOnce
  <2>. QED
    BY <2>2 DEF Chain
<1>6. f \in Bijection(1..Len(s), DataOf(ns))
  <2>1. f \in [1..Len(s) -> DataOf(ns)]
    BY <1>4
  <2>. HIDE DEF f
  <2>2. f \in Injection(1..Len(s), DataOf(ns))
    BY <1>5, <2>1 DEF Injection, IsInjective
  <2>3. f \in Surjection(1..Len(s), DataOf(ns))
    BY <1>3, <2>1 DEF Surjection
  <2>. QED
    BY <2>2, <2>3 DEF Bijection
<1>7. ExistsBijection(1..Len(s), DataOf(ns))
  BY <1>6 DEF ExistsBijection
<1>. QED
  BY <1>1, <1>7, FS_CountingElements

LEMMA InStep ==
  ASSUME NEW x, x = pc
  PROVE  /\ x \in {"detect", "sort", "solve"} => Reported = DataOf(nodes)
         /\ x \notin {"detect", "sort", "solve"} => Reported = {} /\ Mode = "idle"
         /\ x = "detect" => Mode = "detect"
         /\ x \in {"sort", "solve"} => Mode = "solve"
BY DEF Reported, Mode, DataOf

LEMMA InNextStep ==
  ASSUME NEW x, x = pc'
  PROVE  /\ x \in {"detect", "sort", "solve"} => Reported' = DataOf(nodes')
         /\ x \notin {"detect", "sort", "solve"} => Reported' = {} /\ Mode' = "idle"
         /\ x = "detect" => Mode' = "detect"
         /\ x \in {"sort", "solve"} => Mode' = "solve"
BY DEF Reported, Mode, DataOf

LEMMA InitPromised ==
  ASSUME Init
  PROVE  Promise!Init
BY InStep DEF Init, Promise!Init

LEMMA BeginPromised ==
  ASSUME ListInv, Begin
  PROVE  Promise!Begin
<1>1. /\ pc = "idle" /\ pc' = "detect" /\ nodes' = nodes /\ solved' = solved
      /\ numLineLineCollisions' = numLineLineCollisions
  BY DEF Begin
<1>2. DataOf(nodes') = {}
  BY <1>1 DEF ListInv, IdleInv, DataOf
<1>3. Reported = {} /\ Mode = "idle" /\ Reported' = {} /\ Mode' = "detect"
  BY <1>1, <1>2, InStep, InNextStep
<1>. QED
  BY <1>1, <1>3 DEF Promise!Begin

\* The event of a new node was not reported before.
LEMMA AppendPromised ==
  ASSUME ListInv, DistinctInv, NEW i \in DOMAIN views, AppendNode(i)
  PROVE  \E e \in Events : Promise!Report(e)
<1>. DEFINE w == work[i]  e == Head(work[i])
<1>1. /\ pc = "detect" /\ pc' = "detect" /\ w # <<>> /\ solved' = solved
      /\ numLineLineCollisions' = numLineLineCollisions
  BY DEF AppendNode
<1>2. i \in 1..Len(work) /\ w \in Seq(Events)
  BY ViewIndices DEF ListInv
<1>3. 1 \in 1..Len(w) /\ e = w[1] /\ e \in Events
  BY <1>1, <1>2
<1>4. PICK a : Gains(nodes, nodes', a, e)
  BY AppendGains
<1>5. Mode = "detect" /\ Reported = DataOf(nodes) /\ Mode' = "detect" /\ Reported' = DataOf(nodes')
  BY <1>1, InStep, InNextStep
<1>. HIDE DEF e
<1>6. DataOf(nodes') = DataOf(nodes) \cup {e}
  BY <1>4, GainsOne
<1>7. e \notin DataOf(nodes)
  <2>1. \A b \in DOMAIN nodes : ~SamePair(e, Data(nodes[b]))
    BY <1>1, <1>2, <1>3 DEF DistinctInv, WorkNew
  <2>. QED
    BY <2>1 DEF SamePair, DataOf
<1>8. Promise!Report(e)
  BY <1>1, <1>5, <1>6, <1>7 DEF Promise!Report
<1>. QED
  BY <1>3, <1>8

LEMMA FailsShown ==
  ASSUME NEW i \in DOMAIN views, AppendFails(i)
  PROVE  Shown' = Shown
BY DEF AppendFails, Shown, Reported, Mode

LEMMA ReduceShown ==
  ASSUME ListInv, NEW i \in DOMAIN views, Reduce(i)
  PROVE  Shown' = Shown
<1>1. pc = "detect" /\ pc' = "detect" /\ solved' = solved /\ numLineLineCollisions' = numLineLineCollisions
  BY DEF Reduce
<1>2. DataOf(nodes') = DataOf(nodes)
  BY ReduceSameData, SameDataOf
<1>3. Reported' = Reported /\ Mode' = Mode
  BY <1>1, <1>2, InStep, InNextStep
<1>. QED
  BY <1>1, <1>3 DEF Shown

LEMMA OneCardinality ==
  ASSUME NEW S
  PROVE  Promise!Cardinality(S) = Cardinality(S)
BY DEF Promise!Cardinality, Cardinality

LEMMA CollectPromised ==
  ASSUME ListInv, DistinctInv, Collect
  PROVE  Promise!Seal
<1>1. pc = "detect" /\ pc' = "sort" /\ solved' = solved /\ PairsOnce(nodes)
  BY DEF Collect, DistinctInv
<1>2. DataOf(nodes') = DataOf(nodes) /\ PairsOnce(nodes')
  BY <1>1, CollectSameData, SameDataOf, PairsOnceKept
<1>3. PICK s : /\ IsList(nodes', list', s) /\ Covers(nodes', s)
               /\ numLineLineCollisions' = numLineLineCollisions + Len(s)
  BY CollectSameData
<1>4. Cardinality(DataOf(nodes)) = Len(s)
  <2>1. Chain(nodes', list'.head, s)
    BY <1>3 DEF IsList
  <2>2. Cardinality(DataOf(nodes')) = Len(s)
    BY <1>2, <1>3, <2>1, EventsCounted
  <2>. QED
    BY <1>2, <2>2
<1>5. Mode = "detect" /\ Reported = DataOf(nodes) /\ Mode' = "solve" /\ Reported' = DataOf(nodes')
  BY <1>1, InStep, InNextStep
<1>6. numLineLineCollisions' = numLineLineCollisions + Cardinality(Reported)
  BY <1>3, <1>4, <1>5
<1>8. Promise!Cardinality(Reported) = Cardinality(Reported)
  BY OneCardinality
<1>7. Reported' = Reported
  BY <1>2, <1>5
<1>. QED
  BY <1>1, <1>5, <1>6, <1>7, <1>8 DEF Promise!Seal

LEMMA SortShown ==
  ASSUME ListInv, OrderInv, Sort
  PROVE  Shown' = Shown
<1>1. /\ pc = "sort" /\ pc' \in {"sort", "solve"} /\ solved' = solved
      /\ numLineLineCollisions' = numLineLineCollisions
  BY DEF Sort
<1>2. PICK s, p : Placed(s, p)
  BY <1>1 DEF OrderInv
<1>3. Chain(nodes, list.head, s) /\ Covers(nodes, s) /\ IsList(nodes, list, s) /\ Len(s) \in Nat
  BY <1>2, CursorPlace DEF Placed
<1>4. CASE cursor = NULL
  <2>1. nodes' = nodes
    BY <1>4 DEF Sort
  <2>2. Reported' = Reported /\ Mode' = Mode
    BY <1>1, <2>1, InStep, InNextStep
  <2>. QED
    BY <1>1, <2>2 DEF Shown
<1>5. CASE cursor # NULL
  <2>1. p \in 1..Len(s) /\ s[p] = cursor
    BY <1>2, <1>5, CursorPlace
  <2>2. \E r \in p..Len(s) : Permuted(nodes, nodes', s, p, r)
    BY <1>3, <1>5, <2>1, SortPermutes
  <2>3. PICK r \in p..Len(s) : Permuted(nodes, nodes', s, p, r)
    BY <2>2
  <2>4. r \in 1..Len(s)
    BY <1>3, <2>1
  <2>5. DataOf(nodes') = DataOf(nodes)
    BY <1>3, <2>1, <2>3, <2>4, PermutedDataOf
  <2>6. Reported' = Reported /\ Mode' = Mode
    BY <1>1, <2>5, InStep, InNextStep
  <2>. QED
    BY <1>1, <2>6 DEF Shown
<1>. QED
  BY <1>4, <1>5

\* The events that were not solved are those from the cursor on.
LEMMA UnsolvedAre ==
  ASSUME ListInv, DistinctInv, pc = "solve", NEW s, NEW p, Placed(s, p)
  PROVE  /\ \A f \in Promise!Unsolved : \E k \in p..Len(s) : f = Data(nodes[s[k]])
         /\ \A k \in p..Len(s) : Data(nodes[s[k]]) \in Promise!Unsolved
<1>1. Chain(nodes, list.head, s) /\ Len(s) \in Nat /\ p \in 1..(Len(s) + 1)
  BY CursorPlace DEF Placed
<1>2. Covers(nodes, s) /\ SolvedAre(nodes, s, solved, p - 1) /\ PairsOnce(nodes)
  BY DEF Placed, DistinctInv
<1>3. Reported = DataOf(nodes)
  BY InStep
<1>4. DOMAIN solved = 1..(p - 1) /\ \A k \in 1..(p - 1) : solved[k] = Data(nodes[s[k]])
  BY <1>2, SequenceOf DEF SolvedAre
<1>5. ASSUME NEW f \in Promise!Unsolved
      PROVE  \E k \in p..Len(s) : f = Data(nodes[s[k]])
  <2>1. f \in DataOf(nodes) /\ \A k \in DOMAIN solved : solved[k] # f
    BY <1>3 DEF Promise!Unsolved
  <2>2. PICK x \in DOMAIN nodes : f = Data(nodes[x])
    BY <2>1 DEF DataOf
  <2>3. PICK k \in 1..Len(s) : s[k] = x
    BY <1>1, <1>2, RangeOfChain DEF Covers
  <2>4. ~(k \in 1..(p - 1))
    BY <1>4, <2>1, <2>2, <2>3
  <2>5. k \in p..Len(s)
    BY <1>1, <2>3, <2>4
  <2>. QED
    BY <2>2, <2>3, <2>5
<1>6. ASSUME NEW k \in p..Len(s)
      PROVE  Data(nodes[s[k]]) \in Promise!Unsolved
  <2>1. k \in 1..Len(s) /\ s[k] \in DOMAIN nodes
    BY <1>1 DEF Chain
  <2>2. ASSUME NEW j \in 1..(p - 1) PROVE solved[j] # Data(nodes[s[k]])
    <3>1. j \in 1..Len(s) /\ j # k
      BY <1>1, <2>1
    <3>2. s[j] \in DOMAIN nodes /\ s[j] # s[k]
      BY <1>1, <2>1, <3>1 DEF Chain
    <3>3. ~SamePair(Data(nodes[s[j]]), Data(nodes[s[k]]))
      BY <1>2, <2>1, <3>2 DEF PairsOnce
    <3>. QED
      BY <1>4, <3>3 DEF SamePair
  <2>3. Data(nodes[s[k]]) \in DataOf(nodes)
    BY <2>1 DEF DataOf
  <2>. QED
    BY <1>3, <1>4, <2>2, <2>3 DEF Promise!Unsolved
<1>. QED
  BY <1>5, <1>6

LEMMA SolvePromised ==
  ASSUME ListInv, DistinctInv, OrderInv, Solve
  PROVE  \E e \in Events : Promise!Solve(e)
<1>1. /\ pc = "solve" /\ pc' = "solve" /\ nodes' = nodes /\ cursor # NULL
      /\ solved' = Append(solved, Data(nodes[cursor])) /\ numLineLineCollisions' = numLineLineCollisions
  BY DEF Solve
<1>2. PICK s, p : Placed(s, p)
  BY <1>1 DEF OrderInv
<1>3. /\ Chain(nodes, list.head, s) /\ Len(s) \in Nat /\ NodesOK(nodes)
      /\ p \in 1..Len(s) /\ cursor = s[p] /\ InOrder(nodes, s, Len(s))
  BY <1>1, <1>2, CursorPlace DEF Placed
<1>. DEFINE e == Data(nodes[cursor])
<1>4. e \in Events
  BY <1>3 DEF Chain, NodesOK
<1>5. /\ \A f \in Promise!Unsolved : \E k \in p..Len(s) : f = Data(nodes[s[k]])
      /\ \A k \in p..Len(s) : Data(nodes[s[k]]) \in Promise!Unsolved
  BY <1>1, <1>2, UnsolvedAre
<1>6. e = Data(nodes[s[p]])
  BY <1>3
<1>7. e \in Promise!Unsolved
  BY <1>3, <1>5, <1>6
<1>8. \A f \in Promise!Unsolved : f = e \/ Promise!Before(e, f)
  <2>. TAKE f \in Promise!Unsolved
  <2>1. PICK k \in p..Len(s) : f = Data(nodes[s[k]])
    BY <1>5
  <2>2. CASE k = p
    BY <1>6, <2>1, <2>2
  <2>3. CASE k # p
    <3>1. p < k /\ k \in 1..Len(s)
      BY <1>3, <2>3
    <3>2. Promise!Before(Data(nodes[s[p]]), Data(nodes[s[k]]))
      BY <1>3, <3>1 DEF InOrder
    <3>. QED
      BY <1>6, <2>1, <3>2
  <2>. QED
    BY <2>2, <2>3
<1>9. Mode = "solve" /\ Mode' = "solve" /\ Reported' = Reported
  BY <1>1, InStep, InNextStep
<1>10. solved' = Append(solved, e)
  BY <1>1
<1>. HIDE DEF e
<1>11. Promise!Solve(e)
  BY <1>1, <1>7, <1>8, <1>9, <1>10 DEF Promise!Solve
<1>. QED
  BY <1>4, <1>11

LEMMA SolvedPromised ==
  ASSUME ListInv, DistinctInv, OrderInv, Solved
  PROVE  Promise!End
<1>1. /\ pc = "solve" /\ pc' = "delete" /\ cursor = NULL /\ solved' = <<>>
      /\ numLineLineCollisions' = numLineLineCollisions
  BY DEF Solved
<1>2. PICK s, p : Placed(s, p)
  BY <1>1 DEF OrderInv
<1>3. p = Len(s) + 1 /\ Len(s) \in Nat
  BY <1>1, <1>2, CursorPlace
<1>4. \A f \in Promise!Unsolved : \E k \in p..Len(s) : f = Data(nodes[s[k]])
  BY <1>1, <1>2, UnsolvedAre
<1>5. \A k \in p..Len(s) : FALSE
  BY <1>3
<1>6. Promise!Unsolved = {}
  BY <1>4, <1>5
<1>7. Mode = "solve" /\ Mode' = "idle" /\ Reported' = {}
  BY <1>1, InStep, InNextStep
<1>. QED
  BY <1>1, <1>6, <1>7 DEF Promise!End

LEMMA DeleteShown ==
  ASSUME deleteNodes
  PROVE  Shown' = Shown
<1>1. /\ pc = "delete" /\ pc' \in {"delete", "idle"} /\ solved' = solved
      /\ numLineLineCollisions' = numLineLineCollisions
  BY DEF deleteNodes
<1>2. Reported' = Reported /\ Mode' = Mode
  BY <1>1, InStep, InNextStep
<1>. QED
  BY <1>1, <1>2 DEF Shown

\* Every step is one that OrderedEvents allows, or changes nothing that it shows.
LEMMA StepPromised ==
  ASSUME ListInv, DistinctInv, OrderInv, [Next]_vars
  PROVE  [Promise!Next]_Shown
<1>1. CASE Begin
  BY <1>1, BeginPromised DEF Promise!Next
<1>2. ASSUME NEW i \in DOMAIN views, AppendNode(i) PROVE Promise!Next
  BY <1>2, AppendPromised DEF Promise!Next
<1>3. ASSUME NEW i \in DOMAIN views, AppendFails(i) PROVE Shown' = Shown
  BY <1>3, FailsShown
<1>4. ASSUME NEW i \in DOMAIN views, Reduce(i) PROVE Shown' = Shown
  BY <1>4, ReduceShown
<1>5. CASE Collect
  BY <1>5, CollectPromised DEF Promise!Next
<1>6. CASE Sort
  BY <1>6, SortShown
<1>7. CASE Solve
  BY <1>7, SolvePromised DEF Promise!Next
<1>8. CASE Solved
  BY <1>8, SolvedPromised DEF Promise!Next
<1>9. CASE deleteNodes
  BY <1>9, DeleteShown
<1>10. CASE UNCHANGED vars
  BY <1>10 DEF vars, Shown, Reported, Mode
<1>. QED
  BY <1>1, <1>2, <1>3, <1>4, <1>5, <1>6, <1>7, <1>8, <1>9, <1>10 DEF Next, Stop

\* However the strands run, whatever malloc refuses and wherever it puts the nodes,
\* detecting and solving does what OrderedEvents says: the events that found a node
\* are counted, and each is solved once, in the order of the ids.  That a pair is not
\* found twice is what the detection promises (QuadTreeProofs, FindsPairwise).
THEOREM EventsInOrder == ASSUME FoundOnce PROVE Spec => ImplementsOrderedEvents
<1>1. ListInv /\ DistinctInv /\ OrderInv /\ [Next]_vars => [Promise!Next]_(Promise!vars)
  BY StepPromised DEF Shown, Promise!vars
<1>2. Init => Promise!Init
  BY InitPromised
<1>. QED
  BY <1>1, <1>2, SolvedInOrder, PTL DEF Spec, ImplementsOrderedEvents, Promise!Spec
=============================================================================
