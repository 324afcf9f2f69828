----------------------------- MODULE ListProofs -----------------------------
(***************************************************************************)
(* Proofs about the linked list on top of the collector: nothing dangles,  *)
(* the marker marks the list and nothing else, to the program the list is  *)
(* a sequence, and the collector does what ChunkPool says.                 *)
(***************************************************************************)
EXTENDS GcList, SequenceTheorems, FiniteSetTheorems, WellFoundedInduction, TLAPS

-----------------------------------------------------------------------------
(* Sequences without repetition.                                           *)

Elems(s) == {s[i] : i \in DOMAIN s}
Once(s) == \A i, j \in DOMAIN s : s[i] = s[j] => i = j

LEMMA ElemsOfEmpty == Elems(<<>>) = {} /\ Once(<<>>)
<1>1. DOMAIN <<>> = {}
  OBVIOUS
<1>2. QED
  BY <1>1 DEF Elems, Once

LEMMA ElemsOfConcat ==
  ASSUME NEW S, NEW s \in Seq(S), NEW t \in Seq(S)
  PROVE  /\ Elems(s \o t) = Elems(s) \cup Elems(t)
         /\ Once(s) /\ Once(t) /\ Elems(s) \cap Elems(t) = {} => Once(s \o t)
<1>1. PICK n, k \in Nat : n = Len(s) /\ k = Len(t)
  OBVIOUS
<1>2. DOMAIN s = 1..n /\ DOMAIN t = 1..k
  BY <1>1
<1> DEFINE u == s \o t
<1>3. /\ DOMAIN u = 1..(n + k)
      /\ \A i \in 1..(n + k) : u[i] = IF i <= n THEN s[i] ELSE t[i - n]
  BY <1>1, ConcatProperties
<1> HIDE DEF u
<1>4. \A i \in 1..n : u[i] = s[i] /\ i \in DOMAIN u
  BY <1>3
<1>5. \A i \in 1..k : u[n + i] = t[i] /\ n + i \in DOMAIN u
  <2> TAKE i \in 1..k
  <2>1. n + i \in 1..(n + k) /\ ~(n + i <= n) /\ n + i - n = i
    OBVIOUS
  <2>2. QED
    BY <1>3, <2>1
<1>6. \A j \in DOMAIN u : j \in 1..n \/ \E i \in 1..k : j = n + i
  <2> TAKE j \in DOMAIN u
  <2>1. j \in 1..n \/ (j - n \in 1..k /\ j = n + (j - n))
    BY <1>3
  <2>2. QED
    BY <2>1
<1>7. Elems(u) = Elems(s) \cup Elems(t)
  <2>1. Elems(u) \subseteq Elems(s) \cup Elems(t)
    <3>1. ASSUME NEW j \in DOMAIN u PROVE u[j] \in Elems(s) \cup Elems(t)
      <4>1. CASE j \in 1..n
        BY <1>2, <1>4, <4>1 DEF Elems
      <4>2. ASSUME NEW i \in 1..k, j = n + i PROVE u[j] \in Elems(t)
        BY <1>2, <1>5, <4>2 DEF Elems
      <4>3. QED
        BY <1>6, <4>1, <4>2
    <3>2. QED
      BY <3>1 DEF Elems
  <2>2. Elems(s) \subseteq Elems(u)
    BY <1>2, <1>4 DEF Elems
  <2>3. Elems(t) \subseteq Elems(u)
    BY <1>2, <1>5 DEF Elems
  <2>4. QED
    BY <2>1, <2>2, <2>3
<1>8. ASSUME Once(s), Once(t), Elems(s) \cap Elems(t) = {},
             NEW i \in DOMAIN u, NEW j \in DOMAIN u, u[i] = u[j]
      PROVE  i = j
  <2>1. \A a \in 1..n, b \in 1..k : s[a] # t[b]
    BY <1>2, <1>8 DEF Elems
  <2>2. CASE i \in 1..n /\ j \in 1..n
    BY <1>2, <1>4, <1>8, <2>2 DEF Once
  <2>3. CASE i \in 1..n /\ \E b \in 1..k : j = n + b
    BY <1>4, <1>5, <1>8, <2>1, <2>3
  <2>4. CASE j \in 1..n /\ \E b \in 1..k : i = n + b
    BY <1>4, <1>5, <1>8, <2>1, <2>4
  <2>5. ASSUME NEW a \in 1..k, NEW b \in 1..k, i = n + a, j = n + b
        PROVE  i = j
    BY <1>2, <1>5, <1>8, <2>5 DEF Once
  <2>6. QED
    BY <1>6, <2>2, <2>3, <2>4, <2>5
<1>9. QED
  BY <1>7, <1>8 DEF u, Once

LEMMA ElemsOfAppend ==
  ASSUME NEW S, NEW s \in Seq(S), NEW e \in S
  PROVE  /\ Elems(Append(s, e)) = Elems(s) \cup {e}
         /\ Once(s) /\ e \notin Elems(s) => Once(Append(s, e))
<1>1. PICK n \in Nat : n = Len(s)
  OBVIOUS
<1> DEFINE u == Append(s, e)
<1>2. /\ DOMAIN s = 1..n /\ DOMAIN u = 1..(n + 1)
      /\ \A i \in 1..n : u[i] = s[i]
      /\ u[n + 1] = e
  BY <1>1, AppendProperties
<1> HIDE DEF u
<1>3. \A i \in DOMAIN u : i \in DOMAIN s \/ i = n + 1
  BY <1>2
<1>4. n + 1 \in DOMAIN u /\ DOMAIN s \subseteq DOMAIN u
  BY <1>2
<1>5. Elems(u) = Elems(s) \cup {e}
  <2>1. Elems(u) \subseteq Elems(s) \cup {e}
    BY <1>2, <1>3 DEF Elems
  <2>2. Elems(s) \subseteq Elems(u) /\ e \in Elems(u)
    BY <1>2, <1>4 DEF Elems
  <2>3. QED
    BY <2>1, <2>2
<1>6. Once(s) /\ e \notin Elems(s) => Once(u)
  BY <1>2, <1>3 DEF Once, Elems
<1>7. QED
  BY <1>5, <1>6 DEF u

LEMMA ElemsOfTail ==
  ASSUME NEW S, NEW s \in Seq(S), s # <<>>
  PROVE  /\ Head(s) \in Elems(s)
         /\ Elems(s) = Elems(Tail(s)) \cup {Head(s)}
         /\ Once(s) => Once(Tail(s)) /\ Head(s) \notin Elems(Tail(s))
<1>1. PICK n \in Nat : Len(s) = n + 1
  <2>1. Len(s) \in Nat \ {0}
    BY EmptySeq
  <2>2. Len(s) - 1 \in Nat /\ Len(s) = (Len(s) - 1) + 1
    BY <2>1
  <2>3. QED
    BY <2>2
<1> DEFINE u == Tail(s)
<1>2. /\ DOMAIN s = 1..(n + 1) /\ DOMAIN u = 1..n
      /\ \A i \in 1..n : u[i] = s[i + 1]
      /\ Head(s) = s[1]
  BY <1>1, HeadTailProperties
<1> HIDE DEF u
<1>3. \A i \in DOMAIN s : i = 1 \/ \E j \in DOMAIN u : i = j + 1
  <2> TAKE i \in DOMAIN s
  <2>1. i = 1 \/ (i - 1 \in 1..n /\ i = (i - 1) + 1)
    BY <1>2
  <2>2. QED
    BY <1>2, <2>1
<1>4. \A j \in DOMAIN u : j + 1 \in DOMAIN s /\ j + 1 # 1 /\ j \in Int
  BY <1>2
<1>5. 1 \in DOMAIN s
  BY <1>2
<1>6. Head(s) \in Elems(s)
  BY <1>2, <1>5 DEF Elems
<1>7. Elems(s) = Elems(u) \cup {Head(s)}
  <2>1. Elems(u) \subseteq Elems(s)
    BY <1>2, <1>4 DEF Elems
  <2>2. Elems(s) \subseteq Elems(u) \cup {Head(s)}
    BY <1>2, <1>3 DEF Elems
  <2>3. QED
    BY <1>6, <2>1, <2>2
<1>8. ASSUME Once(s) PROVE Once(u) /\ Head(s) \notin Elems(u)
  <2>1. ASSUME NEW i \in DOMAIN u, NEW j \in DOMAIN u, u[i] = u[j] PROVE i = j
    <3>1. s[i + 1] = s[j + 1]
      BY <1>2, <2>1
    <3>2. i + 1 = j + 1
      BY <1>4, <1>8, <3>1 DEF Once
    <3>3. QED
      BY <1>4, <3>2
  <2>2. Head(s) \notin Elems(u)
    BY <1>2, <1>4, <1>5, <1>8 DEF Once, Elems
  <2>3. QED
    BY <2>1, <2>2 DEF Once
<1>9. QED
  BY <1>6, <1>7, <1>8 DEF u

(* A sequence without repetition has as many elements as positions. *)
LEMMA ElemsCounted ==
  ASSUME NEW S, NEW s \in Seq(S), Once(s)
  PROVE  Cardinality(Elems(s)) = Len(s)
<1>1. Len(s) \in Nat /\ DOMAIN s = 1..Len(s)
  OBVIOUS
<1>2. s \in [1..Len(s) -> Elems(s)]
  BY <1>1 DEF Elems
<1>3. s \in Bijection(1..Len(s), Elems(s))
  <2>1. s \in Injection(1..Len(s), Elems(s))
    BY <1>1, <1>2 DEF Once, Injection, IsInjective
  <2>2. s \in Surjection(1..Len(s), Elems(s))
    BY <1>1, <1>2 DEF Elems, Surjection
  <2>3. QED
    BY <2>1, <2>2 DEF Bijection
<1>4. ExistsBijection(1..Len(s), Elems(s))
  BY <1>3 DEF ExistsBijection
<1>5. QED
  BY <1>1, <1>4, FS_CountingElements

-----------------------------------------------------------------------------
(* Fresh chunks.                                                           *)

LEMMA LeastNat ==
  ASSUME NEW S, S \subseteq Nat, S # {}
  PROVE  \E m \in S : \A n \in S : m <= n
<1> DEFINE R == {ss \in Nat \X Nat : ss[1] < ss[2]}
<1>1. IsWellFoundedOn(R, Nat)
  BY NatLessThanWellFounded DEF OpToRel
<1> HIDE DEF R
<1>2. PICK m \in S : \A n \in S : ~ (<<n, m>> \in R)
  BY <1>1, WFMin
<1>3. ASSUME NEW n \in S PROVE m <= n
  <2>1. ~ (<<n, m>> \in R)
    BY <1>2
  <2>2. <<n, m>> \in Nat \X Nat
    OBVIOUS
  <2>3. ~ (n < m)
    BY <2>1, <2>2 DEF R
  <2>4. QED
    BY <2>3
<1>4. QED
  BY <1>3

LEMMA MallocFresh ==
  ASSUME NEW taken, Addr \ taken # {}
  PROVE  Malloc(taken) \in Addr \ taken
<1>1. Addr \ taken \subseteq Nat
  BY HeapAssumption DEF Addr
<1>2. QED
  BY <1>1, LeastNat DEF Malloc

LEMMA HeapFinite ==
  IsFiniteSet(Addr) /\ \A S : IsFiniteSet(Addr \ S) /\ Cardinality(Addr \ S) \in Nat
<1>1. IsFiniteSet(Addr)
  BY HeapAssumption, FS_Interval DEF Addr
<1>2. QED
  BY <1>1, FS_Subset, FS_CardinalityType

LEMMA RoomForOne ==
  ASSUME NEW S, Cardinality(Addr \ S) > 0
  PROVE  Malloc(S) \in Addr \ S
<1>1. Addr \ S # {}
  BY FS_EmptySet
<1>2. QED
  BY <1>1, MallocFresh

LEMMA Fresh1 ==
  ASSUME HasMemory(1)
  PROVE  Malloc(Used) \in Addr \ Used
<1>1. Cardinality(Addr \ Used) > 0
  BY HeapFinite DEF HasMemory
<1>2. QED
  BY <1>1, RoomForOne

LEMMA LeastIs ==
  ASSUME NEW S, S \subseteq Nat, S # {}
  PROVE  Least(S) \in S /\ \A n \in S : Least(S) <= n
BY LeastNat DEF Least

-----------------------------------------------------------------------------
(* The invariant.                                                          *)

Cells == [kind : {"cell"}, value : Values, next : Pointer]
Chunks == {Free} \cup Cells

TypeOK ==
  /\ mem \in [Addr -> Chunks]
  /\ memory \in Seq(Addr)
  /\ passed \in Seq(Addr)
  /\ inUse \in [Addr -> BOOLEAN]
  /\ gc \in {"run", "mark", "sweep", "done", "exit"}
  /\ list_head \in Pointer
  /\ curr \in Pointer
  /\ atEnd \in BOOLEAN
  /\ ops \in Nat

(* The records of the collector: every chunk is on one of its two lists,   *)
(* once, and nothing else is; those the sweep has passed are marked.       *)
RecordInv ==
  /\ Once(memory) /\ Once(passed)
  /\ Elems(memory) \cap Elems(passed) = {}
  /\ Elems(memory) \cup Elems(passed) = Used
  /\ gc # "sweep" => passed = <<>>
  /\ \A a \in Elems(passed) : inUse[a]

(* A node that is not about to be freed leads to a node or to none. *)
PointersInv ==
  \A a \in Used : (gc = "sweep" => inUse[a]) => mem[a].next \in Used \cup {NULL}

(* The pointer to the i-th node of s. *)
NodeAt(s, i) == IF i \in DOMAIN s THEN s[i] ELSE NULL

(* The list is made up of the nodes of s, in that order. *)
Spells(s) ==
  /\ Once(s)
  /\ Elems(s) \subseteq Used
  /\ list_head = NodeAt(s, 1)
  /\ \A i \in DOMAIN s : mem[s[i]].next = NodeAt(s, i + 1)

(* The marker has marked the nodes before the k-th one. *)
MarkedTo(s, k) ==
  /\ curr = NodeAt(s, k)
  /\ \A a \in Addr : inUse[a] <=> \E i \in DOMAIN s : i < k /\ s[i] = a

Marking(s) ==
  /\ gc = "mark" => \E k \in 1..(Len(s) + 1) : MarkedTo(s, k)
  /\ gc = "sweep" => \A a \in Addr : inUse[a] <=> a \in Elems(s)

(* It is a list: it ends, and visits no node twice. *)
ListInv == \E s \in Seq(Addr) : Spells(s) /\ Marking(s)

Inv == TypeOK /\ RecordInv /\ PointersInv /\ ListInv

LEMMA Addresses == NULL \notin Addr /\ Addr \subseteq Pointer /\ NULL \in Pointer
BY HeapAssumption DEF NULL, Addr, Pointer

LEMMA CellsAre ==
  ASSUME TypeOK
  PROVE  /\ \A a \in Used : /\ mem[a] \in Cells /\ mem[a].value \in Values
                            /\ mem[a].next \in Pointer
         /\ \A a \in Addr \ Used : mem[a] = Free
         /\ Free \notin Cells
         /\ Used \subseteq Addr
<1>1. Free \notin Cells
  BY DEF Free, Cells
<1>2. QED
  BY <1>1 DEF TypeOK, Chunks, Cells, Used

LEMMA NewCells ==
  /\ \A v \in Values, n \in Pointer :
       /\ CellAt(v, n) \in Cells
       /\ CellAt(v, n).value = v /\ CellAt(v, n).next = n
  /\ \A x \in Cells, n \in Pointer :
       /\ [x EXCEPT !.next = n] \in Cells
       /\ [x EXCEPT !.next = n].value = x.value
       /\ [x EXCEPT !.next = n].next = n
BY DEF Cells, CellAt

-----------------------------------------------------------------------------
(* Reading the list.                                                       *)

LEMMA Singleton ==
  \A a \in Addr : <<a>> \in Seq(Addr) /\ Elems(<<a>>) = {a} /\ Once(<<a>>)
<1> TAKE a \in Addr
<1>1. DOMAIN <<a>> = {1} /\ <<a>>[1] = a
  OBVIOUS
<1>2. QED
  BY <1>1 DEF Elems, Once

LEMMA NodesAt ==
  ASSUME NEW s \in Seq(Addr)
  PROVE  /\ Len(s) \in Nat /\ DOMAIN s = 1..Len(s)
         /\ \A i \in 1..Len(s) : NodeAt(s, i) = s[i] /\ s[i] \in Addr /\ s[i] # NULL
         /\ \A i \in Nat : i > Len(s) => NodeAt(s, i) = NULL
<1>1. Len(s) \in Nat /\ DOMAIN s = 1..Len(s)
  OBVIOUS
<1>2. \A i \in 1..Len(s) : s[i] \in Addr
  BY <1>1
<1>3. QED
  BY <1>1, <1>2, Addresses DEF NodeAt

(* A sequence without repetition of addresses is not longer than the heap. *)
LEMMA FitsHeap ==
  ASSUME NEW s \in Seq(Addr), Once(s)
  PROVE  Len(s) <= HeapSize
<1>1. Elems(s) \subseteq Addr
  BY NodesAt DEF Elems
<1>2. Cardinality(Elems(s)) = Len(s)
  BY ElemsCounted
<1>3. IsFiniteSet(Addr) /\ Cardinality(Addr) = HeapSize
  BY HeapAssumption, FS_Interval DEF Addr
<1>4. QED
  BY <1>1, <1>2, <1>3, FS_Subset

(* The equation of a walk, and what it finds along the list. *)
Walks(f, a) ==
  f = [n \in 0..HeapSize |->
         IF n = 0 THEN a
         ELSE IF f[n - 1] = NULL THEN NULL ELSE mem[f[n - 1]].next]

LEMMA WalkAlong ==
  ASSUME NEW s \in Seq(Addr), Spells(s), NEW k \in 1..(Len(s) + 1)
  PROVE  \A n \in 0..HeapSize : Walk(NodeAt(s, k))[n] = NodeAt(s, n + k)
<1> DEFINE a == NodeAt(s, k)
           g == [n \in 0..HeapSize |-> NodeAt(s, n + k)]
<1>1. /\ Len(s) \in Nat /\ DOMAIN s = 1..Len(s) /\ HeapSize \in Nat
      /\ \A i \in 1..Len(s) : NodeAt(s, i) = s[i] /\ s[i] # NULL
      /\ \A i \in Nat : i > Len(s) => NodeAt(s, i) = NULL
  BY NodesAt, HeapAssumption
<1>2. Walks(g, a)
  <2>1. g[0] = a
    BY <1>1
  <2>2. ASSUME NEW n \in 0..HeapSize, n # 0
        PROVE  g[n] = IF g[n - 1] = NULL THEN NULL ELSE mem[g[n - 1]].next
    <3>1. n - 1 \in 0..HeapSize /\ n - 1 + k \in Nat /\ n - 1 + k >= 1 /\ n + k \in Nat
      BY <1>1, <2>2
    <3>2. g[n] = NodeAt(s, n + k) /\ g[n - 1] = NodeAt(s, n - 1 + k)
      BY <3>1
    <3>3. CASE n - 1 + k \in 1..Len(s)
      <4>1. mem[s[n - 1 + k]].next = NodeAt(s, n - 1 + k + 1)
        BY <1>1, <3>3 DEF Spells
      <4>2. n - 1 + k + 1 = n + k
        BY <1>1
      <4>3. QED
        BY <1>1, <3>2, <3>3, <4>1, <4>2
    <3>4. CASE n - 1 + k > Len(s)
      BY <1>1, <3>1, <3>2, <3>4
    <3>5. QED
      BY <1>1, <3>1, <3>3, <3>4
  <2>3. g = [n \in 0..HeapSize |-> g[n]]
    OBVIOUS
  <2> HIDE DEF g, a
  <2>4. QED
    BY <2>1, <2>2, <2>3 DEF Walks
<1> HIDE DEF g, a
<1>3. ASSUME NEW f, Walks(f, a) PROVE \A n \in 0..HeapSize : f[n] = g[n]
  <2> DEFINE Differ == {n \in 0..HeapSize : f[n] # g[n]}
  <2>1. ASSUME Differ # {} PROVE FALSE
    <3> Differ \subseteq Nat
      BY <1>1
    <3>1. PICK m \in Differ : \A n \in Differ : m <= n
      <4> HIDE DEF Differ
      <4>1. QED
        BY <2>1, LeastNat
    <3>2. /\ \A n \in 0..HeapSize : f[n] = IF n = 0 THEN a
                ELSE IF f[n - 1] = NULL THEN NULL ELSE mem[f[n - 1]].next
          /\ \A n \in 0..HeapSize : g[n] = IF n = 0 THEN a
                ELSE IF g[n - 1] = NULL THEN NULL ELSE mem[g[n - 1]].next
      BY <1>2, <1>3 DEF Walks
    <3>3. m # 0 /\ m \in 0..HeapSize
      BY <3>1, <3>2
    <3>4. m - 1 \in 0..HeapSize /\ ~(m <= m - 1)
      BY <1>1, <3>3
    <3>5. f[m - 1] = g[m - 1]
      BY <3>1, <3>4
    <3>6. QED
      BY <3>1, <3>2, <3>3, <3>5
  <2>2. QED
    BY <2>1
<1>4. Walk(a) = CHOOSE f : Walks(f, a)
  BY DEF Walk, Walks
<1>5. \A n \in 0..HeapSize : Walk(a)[n] = g[n]
  BY <1>2, <1>3, <1>4
<1>6. QED
  BY <1>5 DEF a, g

(* What the definitions over walks come to. *)
Reads(s) ==
  /\ Len(s) <= HeapSize
  /\ \A k \in 1..(Len(s) + 1) :
       NodesFrom(NodeAt(s, k)) = {s[i] : i \in {j \in DOMAIN s : j >= k}}
  /\ NodesFrom(list_head) = Elems(s)
  /\ Listed = [i \in 1..Len(s) |-> mem[s[i]].value]

LEMMA ReadsAlong == \A s \in Seq(Addr) : Spells(s) => Reads(s)
<1> SUFFICES ASSUME NEW s \in Seq(Addr), Spells(s) PROVE Reads(s)
  OBVIOUS
<1>1. /\ Len(s) \in Nat /\ DOMAIN s = 1..Len(s) /\ HeapSize \in Nat
      /\ \A i \in 1..Len(s) : NodeAt(s, i) = s[i] /\ s[i] # NULL
      /\ \A i \in Nat : i > Len(s) => NodeAt(s, i) = NULL
  BY NodesAt, HeapAssumption
<1>2. Once(s) /\ list_head = NodeAt(s, 1)
  BY DEF Spells
<1>3. Len(s) <= HeapSize
  BY <1>2, FitsHeap
<1>4. ASSUME NEW k \in 1..(Len(s) + 1)
      PROVE  NodesFrom(NodeAt(s, k)) = {s[i] : i \in {j \in DOMAIN s : j >= k}}
  <2>1. \A n \in 0..HeapSize : Walk(NodeAt(s, k))[n] = NodeAt(s, n + k)
    BY WalkAlong
  <2>2. PICK a : a = NodeAt(s, k)
    OBVIOUS
  <2>3. NodesFrom(a) = {NodeAt(s, n + k) : n \in 0..HeapSize} \ {NULL}
    BY <2>1, <2>2 DEF NodesFrom
  <2>4. ASSUME NEW n \in 0..HeapSize, NodeAt(s, n + k) # NULL
        PROVE  n + k \in DOMAIN s /\ n + k >= k /\ NodeAt(s, n + k) = s[n + k]
    BY <1>1, <2>4
  <2>5. ASSUME NEW i \in DOMAIN s, i >= k
        PROVE  \E n \in 0..HeapSize : s[i] = NodeAt(s, n + k) /\ s[i] # NULL
    <3>1. i - k \in 0..HeapSize /\ i - k + k = i
      BY <1>1, <1>3, <2>5
    <3>2. s[i] = NodeAt(s, i - k + k) /\ s[i] # NULL
      BY <1>1, <3>1
    <3>3. QED
      BY <3>1, <3>2
  <2>6. QED
    BY <2>2, <2>3, <2>4, <2>5
<1>5. NodesFrom(list_head) = Elems(s)
  <2>1. 1 \in 1..(Len(s) + 1) /\ {j \in DOMAIN s : j >= 1} = DOMAIN s
    BY <1>1
  <2>2. QED
    BY <1>2, <1>4, <2>1 DEF Elems
<1>6. Listed = [i \in 1..Len(s) |-> mem[s[i]].value]
  <2>1. Cardinality(NodesFrom(list_head)) = Len(s)
    BY <1>2, <1>5, ElemsCounted
  <2>2. 1 \in 1..(Len(s) + 1)
    BY <1>1
  <2>3. \A n \in 0..HeapSize : Walk(list_head)[n] = NodeAt(s, n + 1)
    BY <1>2, <2>2, WalkAlong
  <2>4. ASSUME NEW i \in 1..Len(s) PROVE Walk(list_head)[i - 1] = s[i]
    <3>1. i - 1 \in 0..HeapSize /\ i - 1 + 1 = i
      BY <1>1, <1>3
    <3>2. QED
      BY <1>1, <2>3, <3>1
  <2>5. QED
    BY <2>1, <2>4 DEF Listed, ValuesFrom
<1>7. QED
  BY <1>3, <1>4, <1>5, <1>6 DEF Reads

LEMMA ReadsAlongNext == \A s \in Seq(Addr) : Spells(s)' => Reads(s)'
<1>1. (\A s \in Seq(Addr) : Spells(s) => Reads(s))'
  BY ReadsAlong, PTL
<1>2. QED
  BY <1>1

(* Where the loop of remove_node stops. *)
LEMMA BeforeIs ==
  ASSUME TypeOK, NEW s \in Seq(Addr), Spells(s), NEW v,
         list_head # NULL, mem[list_head].value # v
  PROVE  \E k \in DOMAIN s :
           /\ Before(list_head, v) = s[k]
           /\ \A i \in 1..k : mem[s[i]].value # v
           /\ k = Len(s) \/ mem[s[k + 1]].value = v
<1>1. /\ Len(s) \in Nat /\ DOMAIN s = 1..Len(s) /\ HeapSize \in Nat
      /\ \A i \in 1..Len(s) : NodeAt(s, i) = s[i] /\ s[i] # NULL
      /\ \A i \in Nat : i > Len(s) => NodeAt(s, i) = NULL
      /\ Len(s) <= HeapSize
  BY NodesAt, HeapAssumption, ReadsAlong DEF Reads
<1>2. /\ list_head = NodeAt(s, 1)
      /\ \A i \in DOMAIN s : mem[s[i]].next = NodeAt(s, i + 1)
  BY DEF Spells
<1>3. Len(s) >= 1 /\ list_head = s[1]
  BY <1>1, <1>2
<1>4. \A n \in 0..HeapSize : Walk(list_head)[n] = NodeAt(s, n + 1)
  BY <1>1, <1>2, WalkAlong
<1> DEFINE node == Walk(list_head)
           next(n) == mem[node[n]].next
           stops == {n \in 0..HeapSize : /\ node[n] # NULL
                                         /\ next(n) = NULL \/ mem[next(n)].value = v}
<1>5. Before(list_head, v) = node[Least(stops)]
  BY DEF Before
<1>6. \A n \in 0..HeapSize :
        n \in stops <=> /\ n < Len(s)
                        /\ n + 1 = Len(s) \/ mem[s[n + 2]].value = v
  <2> TAKE n \in 0..HeapSize
  <2>1. node[n] # NULL <=> n < Len(s)
    BY <1>1, <1>4
  <2>2. ASSUME n < Len(s)
        PROVE  /\ next(n) = NULL <=> n + 1 = Len(s)
               /\ n + 1 # Len(s) => next(n) = s[n + 2]
    <3>1. n + 1 \in DOMAIN s /\ node[n] = s[n + 1] /\ n + 1 + 1 = n + 2
      BY <1>1, <1>4, <2>2
    <3>2. next(n) = NodeAt(s, n + 2)
      BY <1>2, <3>1
    <3>3. CASE n + 1 = Len(s)
      <4>1. n + 2 \in Nat /\ n + 2 > Len(s)
        BY <1>1, <3>3
      <4>2. NodeAt(s, n + 2) = NULL
        BY <1>1, <4>1
      <4>3. QED
        BY <3>2, <3>3, <4>2
    <3>4. CASE n + 1 # Len(s)
      <4> Len(s) \in Nat /\ n \in Nat
        BY <1>1
      <4>1. n + 2 \in 1..Len(s)
        BY <2>2, <3>4
      <4>2. NodeAt(s, n + 2) = s[n + 2] /\ s[n + 2] # NULL
        BY <1>1, <4>1
      <4>3. QED
        BY <3>2, <3>4, <4>2
    <3>5. QED
      BY <3>3, <3>4
  <2> HIDE DEF node, next
  <2>3. n \in stops <=> node[n] # NULL /\ (next(n) = NULL \/ mem[next(n)].value = v)
    OBVIOUS
  <2>4. QED
    BY <2>1, <2>2, <2>3
<1>7. stops \subseteq Nat /\ stops \subseteq 0..HeapSize
  BY <1>1
<1> HIDE DEF node, next, stops
<1>8. Len(s) - 1 \in stops
  <2>1. Len(s) - 1 \in 0..HeapSize /\ Len(s) - 1 < Len(s) /\ Len(s) - 1 + 1 = Len(s)
    BY <1>1, <1>3
  <2>2. QED
    BY <1>6, <2>1
<1>9. PICK m \in stops : m = Least(stops) /\ \A n \in stops : m <= n
  BY <1>7, <1>8, LeastIs
<1>10. m \in 0..HeapSize /\ m < Len(s) /\ (m + 1 = Len(s) \/ mem[s[m + 2]].value = v)
  BY <1>6, <1>7, <1>9
<1>11. m + 1 \in DOMAIN s /\ m + 1 + 1 = m + 2
  <2> m \in Nat /\ Len(s) \in Nat
    BY <1>7
  <2>1. m < Len(s)
    BY <1>10
  <2>2. m + 1 \in 1..Len(s) /\ m + 1 + 1 = m + 2
    BY <2>1
  <2>3. QED
    BY <1>1, <2>2
<1>12. Before(list_head, v) = s[m + 1]
  BY <1>1, <1>4, <1>5, <1>9, <1>10, <1>11 DEF node
<1>13. ASSUME NEW i \in 1..(m + 1) PROVE mem[s[i]].value # v
  <2>1. CASE i = 1
    BY <1>3, <2>1
  <2>2. ASSUME i # 1, mem[s[i]].value = v PROVE FALSE
    <3>1. i - 2 \in 0..HeapSize /\ i - 2 < Len(s) /\ i - 2 + 2 = i /\ ~(m <= i - 2)
      BY <1>1, <1>10, <2>2
    <3>2. i - 2 \in stops
      BY <1>6, <2>2, <3>1
    <3>3. QED
      BY <1>9, <3>1, <3>2
  <2>3. QED
    BY <2>1, <2>2
<1>14. QED
  BY <1>10, <1>11, <1>12, <1>13

(* No node is an empty list. *)
LEMMA EmptySpells == list_head' = NULL => \E t \in Seq(Addr) : Spells(t)'
<1>1. <<>> \in Seq(Addr) /\ DOMAIN <<>> = {} /\ Elems(<<>>) = {} /\ Once(<<>>)
  BY ElemsOfEmpty
<1>2. NodeAt(<<>>, 1) = NULL
  BY <1>1 DEF NodeAt
<1>3. list_head' = NULL => Spells(<<>>)'
  BY <1>1, <1>2 DEF Spells
<1>4. QED
  BY <1>1, <1>3

-----------------------------------------------------------------------------
(* A sequence with one more or one fewer.                                  *)

(* s without its j-th element. *)
Removed(s, j) ==
  [i \in 1..(Len(s) - 1) |-> IF i < j THEN s[i] ELSE s[i + 1]]

LEMMA RemovedIs ==
  ASSUME NEW S, NEW s \in Seq(S), NEW j \in DOMAIN s
  PROVE  /\ Removed(s, j) \in Seq(S)
         /\ Len(Removed(s, j)) = Len(s) - 1
         /\ DOMAIN Removed(s, j) = 1..(Len(s) - 1)
         /\ SubSeq(s, 1, j - 1) \o SubSeq(s, j + 1, Len(s)) = Removed(s, j)
<1>1. Len(s) \in Nat /\ DOMAIN s = 1..Len(s) /\ j \in 1..Len(s)
  OBVIOUS
<1>2. Len(s) - 1 \in Nat
  BY <1>1
<1>3. \A i \in 1..(Len(s) - 1) : (IF i < j THEN s[i] ELSE s[i + 1]) \in S
  <2> TAKE i \in 1..(Len(s) - 1)
  <2>1. i \in 1..Len(s) /\ i + 1 \in 1..Len(s)
    BY <1>1
  <2>2. QED
    BY <1>1, <2>1
<1>4. Removed(s, j) \in [1..(Len(s) - 1) -> S]
  BY <1>3 DEF Removed
<1>5. /\ Removed(s, j) \in Seq(S) /\ Len(Removed(s, j)) = Len(s) - 1
      /\ DOMAIN Removed(s, j) = 1..(Len(s) - 1)
  BY <1>2, <1>4
<1>6. PICK t, u : t = SubSeq(s, 1, j - 1) /\ u = SubSeq(s, j + 1, Len(s))
  OBVIOUS
<1>7. /\ t \in Seq(S) /\ Len(t) = j - 1
      /\ \A i \in 1..(j - 1) : t[i] = s[i]
  BY <1>1, <1>6
<1>8. /\ u \in Seq(S) /\ Len(u) = Len(s) - j
      /\ \A i \in 1..(Len(s) - j) : u[i] = s[j + i]
  BY <1>1, <1>6
<1>9. /\ t \o u \in Seq(S) /\ Len(t \o u) = Len(s) - 1
      /\ \A i \in 1..(Len(s) - 1) :
           (t \o u)[i] = IF i <= j - 1 THEN t[i] ELSE u[i - (j - 1)]
  <2>1. Len(t) + Len(u) = Len(s) - 1
    BY <1>1, <1>7, <1>8
  <2>2. /\ t \o u \in Seq(S) /\ Len(t \o u) = Len(t) + Len(u)
        /\ \A i \in 1..(Len(t) + Len(u)) :
             (t \o u)[i] = IF i <= Len(t) THEN t[i] ELSE u[i - Len(t)]
    BY <1>7, <1>8, ConcatProperties
  <2>3. QED
    BY <1>7, <2>1, <2>2
<1>10. ASSUME NEW i \in 1..(Len(s) - 1) PROVE (t \o u)[i] = Removed(s, j)[i]
  <2>1. CASE i < j
    BY <1>1, <1>7, <1>9, <2>1 DEF Removed
  <2>2. CASE ~(i < j)
    <3>1. i - (j - 1) \in 1..(Len(s) - j) /\ j + (i - (j - 1)) = i + 1
      BY <1>1, <2>2
    <3>2. u[i - (j - 1)] = s[i + 1]
      BY <1>8, <3>1
    <3>3. QED
      BY <1>1, <1>9, <2>2, <3>2 DEF Removed
  <2>3. QED
    BY <2>1, <2>2
<1>11. t \o u = Removed(s, j)
  <2>1. t \o u = [i \in 1..(Len(s) - 1) |-> (t \o u)[i]]
    BY <1>9, LenProperties
  <2>2. QED
    BY <1>10, <2>1 DEF Removed
<1>12. QED
  BY <1>5, <1>6, <1>11

LEMMA OnceRemoved ==
  ASSUME NEW S, NEW s \in Seq(S), Once(s), NEW j \in DOMAIN s
  PROVE  Once(Removed(s, j)) /\ Elems(Removed(s, j)) = Elems(s) \ {s[j]}
<1>1. /\ Len(s) \in Nat /\ DOMAIN s = 1..Len(s) /\ j \in 1..Len(s)
      /\ DOMAIN Removed(s, j) = 1..(Len(s) - 1)
  BY RemovedIs
<1> DEFINE from(i) == IF i < j THEN i ELSE i + 1
<1>2. ASSUME NEW i \in 1..(Len(s) - 1)
      PROVE  Removed(s, j)[i] = s[from(i)] /\ from(i) \in DOMAIN s /\ from(i) # j
  BY <1>1 DEF Removed
<1>3. ASSUME NEW i \in 1..(Len(s) - 1), NEW k \in 1..(Len(s) - 1), from(i) = from(k)
      PROVE  i = k
  BY <1>1, <1>3
<1>4. ASSUME NEW i \in DOMAIN s, i # j
      PROVE  \E k \in 1..(Len(s) - 1) : from(k) = i
  <2>1. CASE i < j
    <3>1. i \in 1..(Len(s) - 1) /\ from(i) = i
      BY <1>1, <2>1
    <3>2. QED
      BY <3>1
  <2>2. CASE i > j
    <3>1. i - 1 \in 1..(Len(s) - 1) /\ from(i - 1) = i
      BY <1>1, <2>2
    <3>2. QED
      BY <3>1
  <2>3. QED
    BY <1>1, <1>4, <2>1, <2>2
<1> HIDE DEF from
<1>5. Once(Removed(s, j))
  BY <1>1, <1>2, <1>3 DEF Once
<1>6. Elems(Removed(s, j)) \subseteq Elems(s) \ {s[j]}
  BY <1>1, <1>2 DEF Once, Elems
<1>7. ASSUME NEW i \in DOMAIN s, s[i] # s[j] PROVE s[i] \in Elems(Removed(s, j))
  <2>1. PICK k \in 1..(Len(s) - 1) : from(k) = i
    BY <1>4, <1>7
  <2>2. Removed(s, j)[k] = s[i]
    BY <1>2, <2>1
  <2>3. QED
    BY <1>1, <2>2 DEF Elems
<1>8. QED
  BY <1>5, <1>6, <1>7 DEF Elems

(* s behind one more element. *)
LEMMA PrependedIs ==
  ASSUME NEW S, NEW s \in Seq(S), NEW e \in S
  PROVE  /\ <<e>> \o s \in Seq(S)
         /\ Len(<<e>> \o s) = Len(s) + 1
         /\ DOMAIN (<<e>> \o s) = 1..(Len(s) + 1)
         /\ <<e>> \o s = [i \in 1..(Len(s) + 1) |-> IF i = 1 THEN e ELSE s[i - 1]]
<1>1. <<e>> \in Seq(S) /\ Len(<<e>>) = 1 /\ <<e>>[1] = e /\ Len(s) \in Nat
  OBVIOUS
<1> DEFINE t == <<e>> \o s
<1>2. /\ t \in Seq(S) /\ Len(t) = Len(s) + 1
      /\ \A i \in 1..(Len(s) + 1) : t[i] = IF i <= 1 THEN <<e>>[i] ELSE s[i - 1]
  BY <1>1, ConcatProperties
<1> HIDE DEF t
<1>3. t = [i \in 1..(Len(s) + 1) |-> t[i]] /\ DOMAIN t = 1..(Len(s) + 1)
  BY <1>2, LenProperties
<1>4. \A i \in 1..(Len(s) + 1) : t[i] = IF i = 1 THEN e ELSE s[i - 1]
  BY <1>1, <1>2
<1>5. QED
  BY <1>2, <1>3, <1>4 DEF t

LEMMA ElemsPrepended ==
  ASSUME NEW s \in Seq(Addr), NEW e \in Addr
  PROVE  /\ Elems(<<e>> \o s) = Elems(s) \cup {e}
         /\ Once(s) /\ e \notin Elems(s) => Once(<<e>> \o s)
<1>1. PICK q : q = <<e>>
  OBVIOUS
<1>2. q \in Seq(Addr) /\ Elems(q) = {e} /\ Once(q)
  BY <1>1, Singleton
<1>3. /\ Elems(q \o s) = Elems(q) \cup Elems(s)
      /\ Once(q) /\ Once(s) /\ Elems(q) \cap Elems(s) = {} => Once(q \o s)
  BY <1>2, ElemsOfConcat
<1>4. QED
  BY <1>1, <1>2, <1>3

-----------------------------------------------------------------------------
(* list.c.                                                                 *)

(* Nothing is marked while the program runs. *)
LEMMA NotMarking ==
  ASSUME gc' \notin {"mark", "sweep"}, NEW s
  PROVE  Marking(s)'
BY DEF Marking

LEMMA AddNodeEffect ==
  ASSUME TypeOK, NEW v \in Values, AddNode(v), HasMemory(1)
  PROVE  \E n \in Addr \ Used :
           /\ mem' = [mem EXCEPT ![n] = CellAt(v, list_head)]
           /\ mem' \in [Addr -> Chunks]
           /\ mem'[n].value = v /\ mem'[n].next = list_head
           /\ \A a \in Used : mem'[a] = mem[a]
           /\ Used' = Used \cup {n}
           /\ memory' = <<n>> \o memory
           /\ inUse' \in [Addr -> BOOLEAN]
           /\ list_head' = n
           /\ gc = "run" /\ UNCHANGED <<passed, gc, curr, atEnd>> /\ ops' = ops + 1
<1>1. PICK n : n = Malloc(Used)
  OBVIOUS
<1>2. n \in Addr \ Used
  BY <1>1, Fresh1
<1>3. /\ Allocate(<<n>>, [mem EXCEPT ![n] = CellAt(v, list_head)])
      /\ list_head' = n /\ Operation
  BY <1>1 DEF AddNode
<1>4. /\ memory' = <<n>> \o memory /\ inUse' \in [Addr -> BOOLEAN]
      /\ mem' = [mem EXCEPT ![n] = CellAt(v, list_head)]
      /\ gc = "run" /\ UNCHANGED <<passed, gc, curr, atEnd>> /\ ops' = ops + 1
  BY <1>3 DEF Allocate, Recorded, Operation
<1>5. /\ CellAt(v, list_head) \in Cells
      /\ CellAt(v, list_head).value = v /\ CellAt(v, list_head).next = list_head
  BY NewCells DEF TypeOK
<1>6. mem'[n] = CellAt(v, list_head) /\ \A a \in Addr \ {n} : mem'[a] = mem[a]
  BY <1>2, <1>4 DEF TypeOK
<1>7. mem' \in [Addr -> Chunks]
  BY <1>2, <1>4, <1>5 DEF TypeOK, Chunks
<1>8. Used' = Used \cup {n}
  <2>1. mem'[n] # Free
    BY <1>5, <1>6, CellsAre
  <2>2. QED
    BY <1>2, <1>6, <2>1 DEF Used
<1>9. \A a \in Used : mem'[a] = mem[a]
  BY <1>2, <1>6 DEF Used
<1>10. QED
  BY <1>2, <1>3, <1>4, <1>5, <1>6, <1>7, <1>8, <1>9

(* The new node is in front of the others. *)
LEMMA AddNodeSpells ==
  ASSUME Inv, NEW v \in Values, AddNode(v), HasMemory(1),
         NEW s \in Seq(Addr), Spells(s)
  PROVE  \E n \in Addr \ Used :
           /\ <<n>> \o s \in Seq(Addr)
           /\ Spells(<<n>> \o s)'
           /\ mem'[n].value = v
           /\ \A a \in Used : mem'[a] = mem[a]
           /\ Used' = Used \cup {n}
<1>1. PICK n \in Addr \ Used :
        /\ mem'[n].value = v /\ mem'[n].next = list_head
        /\ \A a \in Used : mem'[a] = mem[a]
        /\ Used' = Used \cup {n}
        /\ list_head' = n
  BY AddNodeEffect DEF Inv
<1>2. PICK t : t = <<n>> \o s
  OBVIOUS
<1>3. /\ t \in Seq(Addr) /\ Len(t) = Len(s) + 1
      /\ DOMAIN t = 1..(Len(s) + 1)
      /\ t = [i \in 1..(Len(s) + 1) |-> IF i = 1 THEN n ELSE s[i - 1]]
  BY <1>2, PrependedIs
<1>4. /\ Once(s) /\ Elems(s) \subseteq Used
      /\ list_head = NodeAt(s, 1)
      /\ \A i \in DOMAIN s : mem[s[i]].next = NodeAt(s, i + 1)
  BY DEF Spells
<1>5. Len(s) \in Nat /\ DOMAIN s = 1..Len(s)
  BY NodesAt
<1>6. Once(t) /\ Elems(t) = Elems(s) \cup {n}
  <2>1. n \in Addr /\ n \notin Elems(s)
    BY <1>1, <1>4
  <2>2. QED
    BY <1>2, <1>4, <2>1, ElemsPrepended
<1>7. /\ t[1] = n /\ 1 \in DOMAIN t
      /\ \A i \in DOMAIN s : i + 1 \in DOMAIN t /\ t[i + 1] = s[i]
  <2>1. 1 \in 1..(Len(s) + 1)
    BY <1>5
  <2>2. ASSUME NEW i \in DOMAIN s
        PROVE  i + 1 \in 1..(Len(s) + 1) /\ i + 1 # 1 /\ i + 1 - 1 = i
    BY <1>5
  <2>3. QED
    BY <1>3, <2>1, <2>2
<1>8. \A i \in Nat : NodeAt(t, i + 1) = IF i = 0 THEN n ELSE NodeAt(s, i)
  <2> TAKE i \in Nat
  <2>1. CASE i = 0
    BY <1>7, <2>1 DEF NodeAt
  <2>2. CASE i \in DOMAIN s
    <3>1. i # 0
      BY <1>5, <2>2
    <3>2. QED
      BY <1>7, <2>2, <3>1 DEF NodeAt
  <2>3. CASE i # 0 /\ i \notin DOMAIN s
    <3>1. i + 1 \notin DOMAIN t
      BY <1>3, <1>5, <2>3
    <3>2. QED
      BY <2>3, <3>1 DEF NodeAt
  <2>4. QED
    BY <2>1, <2>2, <2>3
<1>9. \A i \in DOMAIN t : mem'[t[i]].next = NodeAt(t, i + 1)
  <2> TAKE i \in DOMAIN t
  <2>1. i \in Nat /\ i # 0
    BY <1>3, <1>5
  <2>2. CASE i = 1
    BY <1>1, <1>4, <1>7, <1>8, <2>1, <2>2
  <2>3. CASE i # 1
    <3>1. i - 1 \in DOMAIN s /\ i - 1 + 1 = i
      BY <1>3, <1>5, <2>3
    <3>2. t[i] = s[i - 1] /\ mem[s[i - 1]].next = NodeAt(s, i)
      BY <1>4, <1>7, <3>1
    <3>3. s[i - 1] \in Used
      BY <1>4, <3>1 DEF Elems
    <3>4. QED
      BY <1>1, <1>8, <2>1, <3>2, <3>3
  <2>4. QED
    BY <2>2, <2>3
<1>10. NodeAt(t, 1) = n
  BY <1>7 DEF NodeAt
<1>11. Spells(t)'
  BY <1>1, <1>4, <1>6, <1>9, <1>10 DEF Spells
<1>12. QED
  BY <1>1, <1>2, <1>3, <1>11

LEMMA AddNodeKeepsInv ==
  ASSUME Inv, NEW v \in Values, AddNode(v), HasMemory(1)
  PROVE  Inv'
<1>1. TypeOK /\ RecordInv /\ PointersInv /\ ListInv
  BY DEF Inv
<1>2. PICK n \in Addr \ Used :
        /\ mem' \in [Addr -> Chunks]
        /\ mem'[n].next = list_head
        /\ \A a \in Used : mem'[a] = mem[a]
        /\ Used' = Used \cup {n}
        /\ memory' = <<n>> \o memory
        /\ inUse' \in [Addr -> BOOLEAN]
        /\ list_head' = n
        /\ gc = "run" /\ UNCHANGED <<passed, gc, curr, atEnd>> /\ ops' = ops + 1
  BY <1>1, AddNodeEffect
<1>3. PICK s \in Seq(Addr) : Spells(s)
  BY <1>1 DEF ListInv
<1>4. \E t \in Seq(Addr) : Spells(t)'
  BY <1>3, AddNodeSpells
<1>5. ListInv'
  BY <1>2, <1>4, NotMarking DEF ListInv
<1>6. /\ memory \in Seq(Addr) /\ memory' \in Seq(Addr)
      /\ Once(memory') /\ Elems(memory') = Elems(memory) \cup {n}
  <2>1. /\ memory \in Seq(Addr) /\ Once(memory)
        /\ n \in Addr /\ n \notin Elems(memory)
    BY <1>1, <1>2 DEF TypeOK, RecordInv
  <2>2. PICK m : m = memory
    OBVIOUS
  <2>3. /\ Elems(<<n>> \o m) = Elems(m) \cup {n} /\ Once(<<n>> \o m)
        /\ <<n>> \o m \in Seq(Addr)
    BY <2>1, <2>2, ElemsPrepended, PrependedIs
  <2>4. QED
    BY <1>2, <2>1, <2>2, <2>3
<1>7. RecordInv'
  <2>1. passed = <<>> /\ Elems(memory) = Used
    BY <1>1, <1>2, ElemsOfEmpty DEF RecordInv
  <2>2. passed' = <<>> /\ Elems(passed') = {} /\ Once(passed')
    BY <1>2, <2>1, ElemsOfEmpty
  <2>3. QED
    BY <1>2, <1>6, <2>1, <2>2 DEF RecordInv
<1>8. TypeOK'
  BY <1>1, <1>2, <1>6, Addresses DEF TypeOK
<1>9. PointersInv'
  <2>1. list_head \in Used \cup {NULL}
    BY <1>3, NodesAt DEF Spells, NodeAt, Elems
  <2>2. \A a \in Used : mem[a].next \in Used \cup {NULL}
    BY <1>1, <1>2 DEF PointersInv
  <2>3. QED
    BY <1>2, <2>1, <2>2 DEF PointersInv
<1>10. QED
  BY <1>5, <1>7, <1>8, <1>9 DEF Inv

(* remove_node, by where it finds the value: nowhere, at the head, or      *)
(* behind the k-th node of s.                                              *)
Kept(v, s) ==
  /\ UNCHANGED <<mem, list_head>>
  /\ \A i \in DOMAIN s : mem[s[i]].value # v
BeheadedOf(v, s) ==
  /\ s # <<>> /\ mem[s[1]].value = v
  /\ list_head' = NodeAt(s, 2)
  /\ UNCHANGED mem
UnlinkedFrom(v, s, k) ==
  /\ k \in DOMAIN s /\ k + 1 \in DOMAIN s
  /\ \A i \in 1..k : mem[s[i]].value # v
  /\ mem[s[k + 1]].value = v
  /\ mem' = [mem EXCEPT ![s[k]].next = NodeAt(s, k + 2)]
  /\ UNCHANGED list_head

LEMMA RemoveNodeEffect ==
  ASSUME Inv, NEW v, RemoveNode(v), NEW s \in Seq(Addr), Spells(s)
  PROVE  \/ Kept(v, s)
         \/ BeheadedOf(v, s)
         \/ \E k \in DOMAIN s : UnlinkedFrom(v, s, k)
<1>1. /\ list_head = NodeAt(s, 1)
      /\ \A i \in DOMAIN s : mem[s[i]].next = NodeAt(s, i + 1)
  BY DEF Spells
<1>2. /\ Len(s) \in Nat /\ DOMAIN s = 1..Len(s)
      /\ \A i \in 1..Len(s) : NodeAt(s, i) = s[i] /\ s[i] # NULL
      /\ \A i \in Nat : i > Len(s) => NodeAt(s, i) = NULL
  BY NodesAt
<1>3. s = <<>> <=> Len(s) = 0
  BY EmptySeq
<1>4. list_head = NULL => s = <<>>
  BY <1>1, <1>2, <1>3
<1>5. list_head # NULL => 1 \in DOMAIN s /\ list_head = s[1] /\ s # <<>>
  BY <1>1, <1>2, <1>3
<1>6. CASE list_head = NULL
  BY <1>2, <1>3, <1>4, <1>6 DEF RemoveNode, Kept
<1>7. CASE list_head # NULL /\ mem[list_head].value = v
  <2>1. mem[s[1]].next = NodeAt(s, 2)
    BY <1>1, <1>5, <1>7
  <2>2. QED
    BY <1>5, <1>7, <2>1 DEF RemoveNode, BeheadedOf
<1>8. CASE list_head # NULL /\ mem[list_head].value # v
  <2>1. PICK k \in DOMAIN s :
          /\ Before(list_head, v) = s[k]
          /\ \A i \in 1..k : mem[s[i]].value # v
          /\ k = Len(s) \/ mem[s[k + 1]].value = v
    BY <1>8, BeforeIs DEF Inv
  <2>2. mem[s[k]].next = NodeAt(s, k + 1)
    BY <1>1
  <2>3. /\ mem' = IF NodeAt(s, k + 1) = NULL THEN mem
                  ELSE [mem EXCEPT ![s[k]].next = mem[NodeAt(s, k + 1)].next]
        /\ UNCHANGED list_head
    BY <1>8, <2>1, <2>2 DEF RemoveNode
  <2>4. CASE k = Len(s)
    <3>1. NodeAt(s, k + 1) = NULL
      BY <1>2, <2>4
    <3>2. \A i \in DOMAIN s : mem[s[i]].value # v
      BY <1>2, <2>1, <2>4
    <3>3. QED
      BY <2>3, <3>1, <3>2 DEF Kept
  <2>5. CASE k # Len(s)
    <3>1. k + 1 \in DOMAIN s /\ k + 1 + 1 = k + 2
      BY <1>2, <2>5
    <3>2. NodeAt(s, k + 1) = s[k + 1] /\ s[k + 1] # NULL
      BY <1>2, <3>1
    <3>3. mem[s[k + 1]].next = NodeAt(s, k + 2)
      BY <1>1, <3>1
    <3>4. UnlinkedFrom(v, s, k)
      BY <2>1, <2>3, <2>5, <3>1, <3>2, <3>3 DEF UnlinkedFrom
    <3>5. QED
      BY <3>4
  <2>6. QED
    BY <2>4, <2>5
<1>9. QED
  BY <1>6, <1>7, <1>8

(* The nodes that remain spell the list. *)
LEMMA RemovedSpells ==
  ASSUME Inv, NEW v, NEW s \in Seq(Addr), Spells(s),
         NEW j \in DOMAIN s,
         \/ j = 1 /\ BeheadedOf(v, s)
         \/ j # 1 /\ UnlinkedFrom(v, s, j - 1)
  PROVE  /\ mem' \in [Addr -> Chunks]
         /\ Used' = Used
         /\ \A a \in Addr : mem'[a].value = mem[a].value
         /\ Removed(s, j) \in Seq(Addr)
         /\ Spells(Removed(s, j))'
<1> DEFINE t == Removed(s, j)
<1>1. /\ Len(s) \in Nat /\ DOMAIN s = 1..Len(s)
      /\ \A i \in 1..Len(s) : NodeAt(s, i) = s[i] /\ s[i] \in Addr /\ s[i] # NULL
      /\ \A i \in Nat : i > Len(s) => NodeAt(s, i) = NULL
  BY NodesAt
<1>2. /\ Once(s) /\ Elems(s) \subseteq Used /\ list_head = NodeAt(s, 1)
      /\ \A i \in DOMAIN s : mem[s[i]].next = NodeAt(s, i + 1)
  BY DEF Spells
<1>3. /\ t \in Seq(Addr) /\ Len(t) = Len(s) - 1 /\ DOMAIN t = 1..(Len(s) - 1)
      /\ Once(t) /\ Elems(t) = Elems(s) \ {s[j]}
  BY <1>2, RemovedIs, OnceRemoved
<1>4. \A i \in Nat \ {0} : NodeAt(t, i) = IF i < j THEN NodeAt(s, i) ELSE NodeAt(s, i + 1)
  <2> TAKE i \in Nat \ {0}
  <2> j \in 1..Len(s) /\ Len(s) \in Nat
    BY <1>1
  <2>1. CASE i <= Len(s) - 1
    <3>1. i \in DOMAIN t /\ i \in 1..(Len(s) - 1) /\ i \in DOMAIN s /\ i + 1 \in DOMAIN s
      BY <1>1, <1>3, <2>1
    <3>2. t[i] = IF i < j THEN s[i] ELSE s[i + 1]
      BY <3>1 DEF Removed
    <3> HIDE DEF t
    <3>3. QED
      BY <3>1, <3>2 DEF NodeAt
  <2>2. CASE ~(i <= Len(s) - 1)
    <3>1. i \notin DOMAIN t /\ ~(i < j) /\ i + 1 \notin DOMAIN s
      BY <1>1, <1>3, <2>2
    <3> HIDE DEF t
    <3>2. QED
      BY <3>1 DEF NodeAt
  <2>3. QED
    BY <2>1, <2>2
<1> HIDE DEF t
<1>5. \A a \in Used : a \in Addr /\ mem[a] \in Cells
  BY CellsAre DEF Inv
<1>6. CASE j = 1 /\ BeheadedOf(v, s)
  <2>1. mem' = mem /\ list_head' = NodeAt(s, 2)
    BY <1>6 DEF BeheadedOf
  <2>2. Used' = Used /\ mem' \in [Addr -> Chunks]
    BY <2>1 DEF Used, Inv, TypeOK
  <2>3. NodeAt(t, 1) = NodeAt(s, 2)
    BY <1>4, <1>6
  <2>4. ASSUME NEW i \in DOMAIN t PROVE mem[t[i]].next = NodeAt(t, i + 1)
    <3>1. i \in Nat \ {0} /\ i + 1 \in Nat \ {0} /\ i + 1 \in DOMAIN s
          /\ ~(i < j) /\ ~(i + 1 < j)
      BY <1>1, <1>3, <1>6
    <3>2. NodeAt(t, i) = NodeAt(s, i + 1) /\ NodeAt(t, i + 1) = NodeAt(s, i + 1 + 1)
      BY <1>4, <3>1
    <3>3. t[i] = s[i + 1]
      BY <3>1, <3>2 DEF NodeAt
    <3>4. QED
      BY <1>2, <3>1, <3>2, <3>3
  <2>5. Spells(t)'
    BY <1>2, <1>3, <2>1, <2>2, <2>3, <2>4 DEF Spells
  <2>6. QED
    BY <1>3, <2>1, <2>2, <2>5 DEF t
<1>7. CASE j # 1 /\ UnlinkedFrom(v, s, j - 1)
  <2>1. PICK k : k = j - 1
    OBVIOUS
  <2>2. /\ k \in DOMAIN s /\ k + 1 = j /\ j \in Nat /\ k \in Nat /\ k < j
        /\ k + 2 = j + 1
    BY <1>1, <1>7, <2>1
  <2>3. /\ mem' = [mem EXCEPT ![s[k]].next = NodeAt(s, k + 2)]
        /\ list_head' = list_head
    BY <1>7, <2>1 DEF UnlinkedFrom
  <2>4. s[k] \in Used /\ s[k] \in Addr /\ mem[s[k]] \in Cells
    BY <1>2, <1>5, <2>2 DEF Elems
  <2>5. NodeAt(s, k + 2) \in Pointer
    BY <1>1, <2>2, Addresses DEF NodeAt
  <2>6. /\ mem'[s[k]] \in Cells
        /\ mem'[s[k]].value = mem[s[k]].value
        /\ mem'[s[k]].next = NodeAt(s, k + 2)
        /\ \A a \in Addr \ {s[k]} : mem'[a] = mem[a]
        /\ mem' \in [Addr -> Chunks]
    <3>1. mem \in [Addr -> Chunks]
      BY DEF Inv, TypeOK
    <3>2. PICK x, y : x = mem[s[k]] /\ y = [x EXCEPT !.next = NodeAt(s, k + 2)]
      OBVIOUS
    <3>3. mem' = [mem EXCEPT ![s[k]] = y]
      BY <2>3, <3>2
    <3>4. y \in Cells /\ y.value = x.value /\ y.next = NodeAt(s, k + 2)
      BY <2>4, <2>5, <3>2, NewCells
    <3>5. QED
      BY <2>4, <3>1, <3>2, <3>3, <3>4 DEF Chunks
  <2>7. Used' = Used
    <3>1. mem'[s[k]] # Free /\ mem[s[k]] # Free
      BY <2>4, <2>6, CellsAre DEF Inv
    <3>2. QED
      BY <2>4, <2>6, <3>1 DEF Used
  <2>8. \A a \in Addr : mem'[a].value = mem[a].value
    BY <2>6
  <2>9. NodeAt(t, 1) = NodeAt(s, 1)
    <3>1. 1 < j
      BY <2>2, <1>1
    <3>2. QED
      BY <1>4, <3>1
  <2>10. ASSUME NEW i \in DOMAIN t PROVE mem'[t[i]].next = NodeAt(t, i + 1)
    <3>1. i \in Nat \ {0} /\ i + 1 \in Nat \ {0} /\ i \in DOMAIN s /\ i + 1 \in DOMAIN s
      BY <1>1, <1>3
    <3>2. t[i] = NodeAt(t, i)
      BY DEF NodeAt
    <3>3. CASE i = k
      <4>1. t[i] = s[k]
        BY <1>4, <2>2, <3>1, <3>2, <3>3 DEF NodeAt
      <4>2. NodeAt(t, i + 1) = NodeAt(s, k + 2)
        <5>1. ~(i + 1 < j) /\ i + 1 + 1 = k + 2
          BY <2>2, <3>3
        <5>2. QED
          BY <1>4, <3>1, <5>1
      <4>3. QED
        BY <2>6, <4>1, <4>2
    <3>4. CASE i < k
      <4>1. i < j /\ i + 1 < j /\ i # k
        BY <2>2, <3>1, <3>4
      <4>2. t[i] = s[i] /\ NodeAt(t, i + 1) = NodeAt(s, i + 1)
        BY <1>4, <3>1, <3>2, <4>1 DEF NodeAt
      <4>3. s[i] # s[k] /\ s[i] \in Addr
        BY <1>1, <1>2, <2>2, <3>1, <4>1 DEF Once
      <4>4. QED
        BY <1>2, <2>6, <3>1, <4>2, <4>3
    <3>5. CASE i > k
      <4>1. ~(i < j) /\ ~(i + 1 < j) /\ i + 1 # k
        BY <2>2, <3>1, <3>5
      <4>2. t[i] = s[i + 1] /\ NodeAt(t, i + 1) = NodeAt(s, i + 1 + 1)
        BY <1>4, <3>1, <3>2, <4>1 DEF NodeAt
      <4>3. s[i + 1] # s[k] /\ s[i + 1] \in Addr
        BY <1>1, <1>2, <2>2, <3>1, <4>1 DEF Once
      <4>4. QED
        BY <1>2, <2>6, <3>1, <4>2, <4>3
    <3>6. QED
      BY <2>2, <3>1, <3>3, <3>4, <3>5
  <2>11. Spells(t)'
    BY <1>2, <1>3, <2>3, <2>7, <2>9, <2>10 DEF Spells
  <2>12. QED
    BY <1>3, <2>6, <2>7, <2>8, <2>11 DEF t
<1>8. QED
  BY <1>6, <1>7

LEMMA SameList ==
  ASSUME UNCHANGED <<mem, list_head>>, NEW s
  PROVE  Used' = Used /\ (Spells(s) => Spells(s)')
<1>1. Used' = Used
  BY DEF Used
<1>2. QED
  BY <1>1 DEF Spells

LEMMA RemoveNodeKeepsInv ==
  ASSUME Inv, NEW v, RemoveNode(v)
  PROVE  Inv'
<1>1. TypeOK /\ RecordInv /\ PointersInv /\ ListInv
  BY DEF Inv
<1>2. /\ gc = "run" /\ UNCHANGED <<memory, passed, inUse, gc, curr, atEnd>>
      /\ ops' = ops + 1
  BY DEF RemoveNode, Operation
<1>3. PICK s \in Seq(Addr) : Spells(s)
  BY <1>1 DEF ListInv
<1>4. /\ mem' \in [Addr -> Chunks] /\ Used' = Used
      /\ \E t \in Seq(Addr) : Spells(t)'
      /\ PointersInv'
  <2>1. \/ Kept(v, s)
        \/ BeheadedOf(v, s)
        \/ \E k \in DOMAIN s : UnlinkedFrom(v, s, k)
    BY <1>3, RemoveNodeEffect
  <2>2. \A a \in Used : mem[a].next \in Used \cup {NULL}
    BY <1>1, <1>2 DEF PointersInv
  <2>3. CASE Kept(v, s)
    <3>1. UNCHANGED <<mem, list_head>>
      BY <2>3 DEF Kept
    <3>2. Used' = Used /\ Spells(s)'
      BY <1>3, <3>1, SameList
    <3>3. QED
      BY <1>1, <2>2, <3>1, <3>2 DEF TypeOK, PointersInv
  <2>4. CASE BeheadedOf(v, s)
    <3>1. 1 \in DOMAIN s /\ mem' = mem
      BY <2>4, EmptySeq, NodesAt DEF BeheadedOf
    <3>2. mem' \in [Addr -> Chunks] /\ Used' = Used /\ \E t \in Seq(Addr) : Spells(t)'
      BY <1>3, <2>4, <3>1, RemovedSpells
    <3>3. QED
      BY <2>2, <3>1, <3>2 DEF PointersInv
  <2>5. ASSUME NEW k \in DOMAIN s, UnlinkedFrom(v, s, k)
        PROVE  /\ mem' \in [Addr -> Chunks] /\ Used' = Used
               /\ \E t \in Seq(Addr) : Spells(t)'
               /\ PointersInv'
    <3>1. k + 1 \in DOMAIN s /\ k + 1 # 1 /\ k + 1 - 1 = k
      BY <2>5, NodesAt DEF UnlinkedFrom
    <3>2. mem' \in [Addr -> Chunks] /\ Used' = Used /\ \E t \in Seq(Addr) : Spells(t)'
      <4>1. PICK j \in DOMAIN s : j # 1 /\ j - 1 = k
        BY <3>1
      <4>2. UnlinkedFrom(v, s, j - 1)
        BY <2>5, <4>1
      <4>3. QED
        BY <1>3, <4>1, <4>2, RemovedSpells
    <3>3. NodeAt(s, k + 2) \in Used \cup {NULL} /\ s[k] \in Addr
      BY <1>3, NodesAt DEF Spells, NodeAt, Elems
    <3>4. ASSUME NEW a \in Used PROVE mem'[a].next \in Used \cup {NULL}
      <4>1. mem' = [mem EXCEPT ![s[k]] = [mem[s[k]] EXCEPT !.next = NodeAt(s, k + 2)]]
        BY <2>5 DEF UnlinkedFrom
      <4>2. PICK x, y : x = mem[s[k]] /\ y = [x EXCEPT !.next = NodeAt(s, k + 2)]
        OBVIOUS
      <4>3. mem' = [mem EXCEPT ![s[k]] = y]
        BY <4>1, <4>2
      <4>4. mem \in [Addr -> Chunks] /\ a \in Addr
        BY <1>1 DEF TypeOK, Used
      <4>5. CASE a # s[k]
        BY <2>2, <4>3, <4>4, <4>5
      <4>6. CASE a = s[k]
        <5>1. x \in Cells /\ NodeAt(s, k + 2) \in Pointer
          BY <1>1, <3>3, <4>2, <4>6, CellsAre, Addresses
        <5>2. y.next = NodeAt(s, k + 2)
          BY <4>2, <5>1, NewCells
        <5>3. QED
          BY <3>3, <4>3, <4>4, <4>6, <5>2
      <4>7. QED
        BY <4>5, <4>6
    <3>5. QED
      BY <1>2, <3>2, <3>4 DEF PointersInv
  <2>6. QED
    BY <2>1, <2>3, <2>4, <2>5
<1>5. ListInv'
  BY <1>2, <1>4, NotMarking DEF ListInv
<1>6. RecordInv'
  BY <1>1, <1>2, <1>4 DEF RecordInv
<1>7. TypeOK'
  <2>1. list_head' \in Pointer
    <3>1. PICK t \in Seq(Addr) : Spells(t)'
      BY <1>4
    <3>2. QED
      BY <3>1, NodesAt, Addresses DEF Spells, NodeAt
  <2>2. QED
    BY <1>1, <1>2, <1>4, <2>1 DEF TypeOK
<1>8. QED
  BY <1>4, <1>5, <1>6, <1>7 DEF Inv

(* The process exits: nothing changes any more. *)
LEMMA StoppingKeepsInv ==
  ASSUME Inv, gc = "run", gc' = "exit", UNCHANGED <<mem, memory, passed, inUse, curr>>,
         list_head' \in {list_head, NULL}, atEnd' \in BOOLEAN, ops' \in Nat
  PROVE  Inv'
<1>1. TypeOK /\ RecordInv /\ PointersInv /\ ListInv /\ Used' = Used
  BY DEF Inv, Used
<1>2. \E t \in Seq(Addr) : Spells(t)'
  <2>1. CASE list_head' = list_head
    BY <1>1, <2>1, SameList DEF ListInv
  <2>2. CASE list_head' = NULL
    BY <2>2, EmptySpells
  <2>3. QED
    BY <2>1, <2>2
<1>3. ListInv'
  BY <1>2, NotMarking DEF ListInv
<1>4. TypeOK' /\ RecordInv' /\ PointersInv'
  BY <1>1, Addresses DEF TypeOK, RecordInv, PointersInv
<1>5. QED
  BY <1>3, <1>4 DEF Inv

-----------------------------------------------------------------------------
(* Collecting.                                                             *)

(* mark_and_sweep is called with the head of the list, after the list has  *)
(* been given up or not.                                                   *)
LEMMA MarkAndSweepKeepsInv ==
  ASSUME Inv, list_head' \in {list_head, NULL}, MarkAndSweep(list_head'),
         atEnd' \in BOOLEAN, ops' \in Nat
  PROVE  Inv'
<1>1. TypeOK /\ RecordInv /\ PointersInv /\ ListInv /\ Used' = Used
  BY DEF Inv, Used, MarkAndSweep
<1>2. /\ gc = "run" /\ gc' = "mark" /\ inUse' = [a \in Addr |-> FALSE]
      /\ curr' = list_head' /\ UNCHANGED <<mem, memory, passed>>
  BY DEF MarkAndSweep, Cleared, FirstToMark
<1>3. PICK t \in Seq(Addr) : Spells(t)'
  <2>1. CASE list_head' = list_head
    BY <1>1, <1>2, <2>1, SameList DEF ListInv
  <2>2. CASE list_head' = NULL
    BY <2>2, EmptySpells
  <2>3. QED
    BY <2>1, <2>2
<1>4. ListInv'
  <2>1. Len(t) \in Nat /\ DOMAIN t = 1..Len(t)
    BY NodesAt
  <2>2. 1 \in 1..(Len(t) + 1)
    BY <2>1
  <2>3. MarkedTo(t, 1)'
    <3>1. curr' = NodeAt(t, 1)
      BY <1>2, <1>3 DEF Spells
    <3>2. \A i \in DOMAIN t : ~(i < 1)
      BY <2>1
    <3>3. QED
      BY <1>2, <3>1, <3>2 DEF MarkedTo
  <2>4. Marking(t)'
    BY <1>2, <2>2, <2>3 DEF Marking
  <2>5. QED
    BY <1>3, <2>4 DEF ListInv
<1>5. passed = <<>> /\ passed' = <<>> /\ Elems(passed') = {}
  BY <1>1, <1>2, ElemsOfEmpty DEF RecordInv
<1>6. RecordInv'
  BY <1>1, <1>2, <1>5 DEF RecordInv
<1>7. TypeOK'
  BY <1>1, <1>2, Addresses DEF TypeOK
<1>8. PointersInv'
  BY <1>1, <1>2 DEF PointersInv
<1>9. QED
  BY <1>4, <1>6, <1>7, <1>8 DEF Inv

LEMMA MarkCellKeepsInv ==
  ASSUME Inv, MarkCell
  PROVE  Inv'
<1>1. TypeOK /\ RecordInv /\ PointersInv /\ ListInv /\ Used' = Used
  BY DEF Inv, Used, MarkCell
<1>2. /\ gc = "mark" /\ gc' = "mark" /\ curr # NULL
      /\ inUse' = [b \in Addr |-> inUse[b] \/ (b = curr /\ OnRecord(curr))]
      /\ curr' = mem[curr].next
      /\ UNCHANGED <<mem, memory, passed, list_head, atEnd, ops>>
  BY DEF MarkCell, Marked
<1>3. PICK s \in Seq(Addr) : Spells(s) /\ Marking(s)
  BY <1>1 DEF ListInv
<1>4. /\ Len(s) \in Nat /\ DOMAIN s = 1..Len(s)
      /\ \A i \in 1..Len(s) : NodeAt(s, i) = s[i] /\ s[i] \in Addr /\ s[i] # NULL
      /\ \A i \in Nat : i > Len(s) => NodeAt(s, i) = NULL
  BY NodesAt
<1>5. PICK k \in 1..(Len(s) + 1) : MarkedTo(s, k)
  BY <1>2, <1>3 DEF Marking
<1>6. /\ curr = NodeAt(s, k)
      /\ \A a \in Addr : inUse[a] <=> \E i \in DOMAIN s : i < k /\ s[i] = a
  BY <1>5 DEF MarkedTo
<1>7. k \in DOMAIN s /\ curr = s[k] /\ k + 1 \in 1..(Len(s) + 1) /\ k \in Nat
  BY <1>2, <1>4, <1>6
<1>8. s[k] \in Used /\ mem[s[k]].next = NodeAt(s, k + 1)
  BY <1>3, <1>7 DEF Spells, Elems
<1>9. passed = <<>> /\ Elems(memory) = Used
  BY <1>1, <1>2, ElemsOfEmpty DEF RecordInv
<1>10. OnRecord(curr)
  BY <1>7, <1>8, <1>9 DEF OnRecord, Elems
<1>11. \A b \in Addr : inUse'[b] <=> inUse[b] \/ b = s[k]
  BY <1>2, <1>7, <1>10
<1>12. \A i \in DOMAIN s : i < k + 1 <=> i < k \/ i = k
  BY <1>4, <1>7
<1>13. MarkedTo(s, k + 1)'
  <2>1. curr' = NodeAt(s, k + 1)
    BY <1>2, <1>7, <1>8
  <2>2. \A a \in Addr : inUse'[a] <=> \E i \in DOMAIN s : i < k + 1 /\ s[i] = a
    BY <1>6, <1>7, <1>11, <1>12
  <2>3. QED
    BY <2>1, <2>2 DEF MarkedTo
<1>14. Spells(s)'
  BY <1>2, <1>3, SameList
<1>15. ListInv'
  BY <1>2, <1>7, <1>13, <1>14 DEF ListInv, Marking
<1>16. RecordInv' /\ PointersInv'
  BY <1>1, <1>2, <1>9, ElemsOfEmpty DEF RecordInv, PointersInv
<1>17. curr' \in Pointer
  BY <1>2, <1>7, <1>8, <1>4, Addresses DEF NodeAt
<1>18. TypeOK'
  BY <1>1, <1>2, <1>17 DEF TypeOK
<1>19. QED
  BY <1>15, <1>16, <1>18 DEF Inv

LEMMA MarkingDoneKeepsInv ==
  ASSUME Inv, MarkingDone
  PROVE  Inv'
<1>1. TypeOK /\ RecordInv /\ PointersInv /\ ListInv /\ Used' = Used
  BY DEF Inv, Used, MarkingDone
<1>2. /\ gc = "mark" /\ gc' = "sweep" /\ curr = NULL
      /\ UNCHANGED <<mem, memory, passed, inUse, list_head, curr, atEnd, ops>>
  BY DEF MarkingDone
<1>3. PICK s \in Seq(Addr) : Spells(s) /\ Marking(s)
  BY <1>1 DEF ListInv
<1>4. /\ Len(s) \in Nat /\ DOMAIN s = 1..Len(s)
      /\ \A i \in 1..Len(s) : NodeAt(s, i) = s[i] /\ s[i] # NULL
  BY NodesAt
<1>5. PICK k \in 1..(Len(s) + 1) : MarkedTo(s, k)
  BY <1>2, <1>3 DEF Marking
<1>6. k = Len(s) + 1
  BY <1>2, <1>4, <1>5 DEF MarkedTo
<1>7. \A i \in DOMAIN s : i < k
  BY <1>4, <1>6
<1>8. \A a \in Addr : inUse[a] <=> a \in Elems(s)
  BY <1>5, <1>7 DEF MarkedTo, Elems
<1>9. Spells(s)'
  BY <1>2, <1>3, SameList
<1>10. Marking(s)'
  BY <1>2, <1>8 DEF Marking
<1>11. TypeOK' /\ RecordInv' /\ PointersInv'
  BY <1>1, <1>2, ElemsOfEmpty DEF TypeOK, RecordInv, PointersInv
<1>12. QED
  BY <1>9, <1>10, <1>11 DEF Inv, ListInv

(* What is marked when the marker is done: the list, and nothing else. *)
LEMMA Sweeping ==
  ASSUME Inv, gc = "sweep"
  PROVE  \E s \in Seq(Addr) :
           /\ Spells(s) /\ Marking(s)
           /\ \A a \in Addr : inUse[a] <=> a \in Elems(s)
           /\ NodesFrom(list_head) = Elems(s)
<1>1. PICK s \in Seq(Addr) : Spells(s) /\ Marking(s)
  BY DEF Inv, ListInv
<1>2. QED
  BY <1>1, ReadsAlong DEF Marking, Reads

LEMMA OtherFreed ==
  ASSUME NEW s \in Seq(Addr), Spells(s), NEW h, h \notin Elems(s),
         \A a \in Addr \ {h} : mem'[a] = mem[a],
         Used' = Used \ {h}, UNCHANGED list_head
  PROVE  Spells(s)'
<1>1. Elems(s) \subseteq Used /\ Elems(s) \subseteq Used'
  BY DEF Spells
<1>2. \A i \in DOMAIN s : s[i] \in Addr \ {h}
  BY <1>1 DEF Elems, Used
<1>3. QED
  BY <1>1, <1>2 DEF Spells

LEMMA FreeChunkEffect ==
  ASSUME Inv, FreeChunk
  PROVE  \E h \in Used :
           /\ ~inUse[h]
           /\ mem' \in [Addr -> Chunks]
           /\ \A a \in Addr \ {h} : mem'[a] = mem[a]
           /\ Used' = Used \ {h}
           /\ memory' \in Seq(Addr) /\ Once(memory')
           /\ Elems(memory) = Elems(memory') \cup {h} /\ h \notin Elems(memory')
           /\ gc = "sweep" /\ UNCHANGED <<inUse, gc, passed>>
<1>1. /\ gc = "sweep" /\ gc' = "sweep" /\ memory # <<>> /\ UNCHANGED <<inUse, passed>>
      /\ memory' = Tail(memory)
      /\ ~inUse[Head(memory)]
      /\ mem' = [mem EXCEPT ![Head(memory)] = Free]
  BY DEF FreeChunk, AfterFreeing
<1>2. TypeOK /\ RecordInv
  BY DEF Inv
<1>3. PICK h : h = Head(memory)
  OBVIOUS
<1>4. memory \in Seq(Addr) /\ mem \in [Addr -> Chunks] /\ Once(memory)
  BY <1>2 DEF TypeOK, RecordInv
<1>5. /\ h \in Elems(memory) /\ Elems(memory) = Elems(memory') \cup {h}
      /\ Once(memory') /\ h \notin Elems(memory')
      /\ memory' \in Seq(Addr)
  <2>1. /\ Head(memory) \in Elems(memory)
        /\ Elems(memory) = Elems(Tail(memory)) \cup {Head(memory)}
        /\ Once(Tail(memory)) /\ Head(memory) \notin Elems(Tail(memory))
    BY <1>1, <1>4, ElemsOfTail
  <2>2. Tail(memory) \in Seq(Addr)
    BY <1>1, <1>4
  <2>3. QED
    BY <1>1, <1>3, <2>1, <2>2
<1>6. h \in Used /\ h \in Addr
  BY <1>2, <1>5 DEF RecordInv, Used
<1>7. /\ mem' \in [Addr -> Chunks] /\ mem'[h] = Free
      /\ \A a \in Addr \ {h} : mem'[a] = mem[a]
  BY <1>1, <1>3, <1>4, <1>6 DEF Chunks
<1>8. Used' = Used \ {h}
  BY <1>6, <1>7 DEF Used
<1>9. QED
  BY <1>1, <1>3, <1>5, <1>6, <1>7, <1>8

(* A chunk that is not marked may go: it is not a node of the list. *)
LEMMA FreeChunkKeepsInv ==
  ASSUME Inv, FreeChunk, UNCHANGED <<list_head, curr, atEnd, ops>>
  PROVE  Inv'
<1>1. TypeOK /\ RecordInv /\ PointersInv
  BY DEF Inv
<1>2. PICK h \in Used :
        /\ ~inUse[h]
        /\ mem' \in [Addr -> Chunks]
        /\ \A a \in Addr \ {h} : mem'[a] = mem[a]
        /\ Used' = Used \ {h}
        /\ memory' \in Seq(Addr) /\ Once(memory')
        /\ Elems(memory) = Elems(memory') \cup {h} /\ h \notin Elems(memory')
        /\ gc = "sweep" /\ UNCHANGED <<inUse, gc, passed>>
  BY FreeChunkEffect
<1>3. PICK s \in Seq(Addr) :
        Spells(s) /\ \A a \in Addr : inUse[a] <=> a \in Elems(s)
  BY <1>2, Sweeping
<1>4. h \in Addr /\ h \notin Elems(s) /\ Elems(s) \subseteq Used /\ Used \subseteq Addr
  BY <1>2, <1>3 DEF Used, Spells
<1>5. Spells(s)'
  BY <1>2, <1>3, <1>4, OtherFreed
<1>6. ListInv'
  BY <1>2, <1>3, <1>5 DEF ListInv, Marking
<1>7. PointersInv'
  <2>1. ASSUME NEW a \in Used', inUse[a] PROVE mem'[a].next \in Used' \cup {NULL}
    <3>1. a \in Addr /\ a # h /\ a \in Elems(s)
      BY <1>2, <1>3, <1>4, <2>1
    <3>2. PICK i \in DOMAIN s : s[i] = a
      BY <3>1 DEF Elems
    <3>3. mem[a].next = NodeAt(s, i + 1)
      BY <1>3, <3>2 DEF Spells
    <3>4. NodeAt(s, i + 1) \in Elems(s) \cup {NULL}
      BY DEF NodeAt, Elems
    <3>5. QED
      BY <1>2, <1>4, <3>1, <3>3, <3>4
  <2>2. QED
    BY <1>2, <2>1 DEF PointersInv
<1>8. RecordInv'
  <2>1. h \notin Elems(passed)
    BY <1>1, <1>2 DEF RecordInv
  <2>2. QED
    BY <1>1, <1>2, <2>1 DEF RecordInv
<1>9. TypeOK'
  BY <1>1, <1>2 DEF TypeOK
<1>10. QED
  BY <1>6, <1>7, <1>8, <1>9 DEF Inv

LEMMA KeepChunkKeepsInv ==
  ASSUME Inv, KeepChunk, UNCHANGED <<list_head, curr, atEnd, ops>>
  PROVE  Inv'
<1>1. /\ gc = "sweep" /\ gc' = "sweep" /\ memory # <<>> /\ UNCHANGED <<mem, inUse>>
      /\ inUse[Head(memory)]
      /\ passed' = Append(passed, Head(memory))
      /\ memory' = Tail(memory)
  BY DEF KeepChunk
<1>2. TypeOK /\ RecordInv /\ PointersInv /\ ListInv /\ Used' = Used
  BY <1>1 DEF Inv, Used
<1>3. PICK h : h = Head(memory)
  OBVIOUS
<1>4. memory \in Seq(Addr) /\ passed \in Seq(Addr) /\ Once(memory) /\ Once(passed)
  BY <1>2 DEF TypeOK, RecordInv
<1>5. /\ h \in Elems(memory) /\ Elems(memory) = Elems(memory') \cup {h}
      /\ Once(memory') /\ h \notin Elems(memory')
      /\ memory' \in Seq(Addr)
  <2>1. /\ Head(memory) \in Elems(memory)
        /\ Elems(memory) = Elems(Tail(memory)) \cup {Head(memory)}
        /\ Once(Tail(memory)) /\ Head(memory) \notin Elems(Tail(memory))
    BY <1>1, <1>4, ElemsOfTail
  <2>2. Tail(memory) \in Seq(Addr)
    BY <1>1, <1>4
  <2>3. QED
    BY <1>1, <1>3, <2>1, <2>2
<1>6. h \in Addr /\ h \notin Elems(passed)
  BY <1>2, <1>5 DEF RecordInv, Used
<1>7. /\ Elems(passed') = Elems(passed) \cup {h} /\ Once(passed')
      /\ passed' \in Seq(Addr)
  <2>1. passed' = Append(passed, h)
    BY <1>1, <1>3
  <2>2. /\ Elems(Append(passed, h)) = Elems(passed) \cup {h}
        /\ Once(Append(passed, h))
    BY <1>4, <1>6, ElemsOfAppend
  <2>3. QED
    BY <1>4, <1>6, <2>1, <2>2
<1>8. RecordInv'
  <2>1. /\ Elems(memory) \cap Elems(passed) = {}
        /\ Elems(memory) \cup Elems(passed) = Used
        /\ \A a \in Elems(passed) : inUse[a]
    BY <1>2 DEF RecordInv
  <2>2. /\ Elems(memory') \cap Elems(passed') = {}
        /\ Elems(memory') \cup Elems(passed') = Used'
        /\ \A a \in Elems(passed') : inUse'[a]
    BY <1>1, <1>2, <1>3, <1>5, <1>7, <2>1
  <2>3. QED
    BY <1>1, <1>5, <1>7, <2>2 DEF RecordInv
<1>9. PointersInv'
  BY <1>1, <1>2 DEF PointersInv
<1>10. ListInv'
  <2>1. PICK s \in Seq(Addr) : Spells(s) /\ Marking(s)
    BY <1>2 DEF ListInv
  <2>2. Spells(s)'
    BY <1>1, <2>1, SameList
  <2>3. QED
    BY <1>1, <2>1, <2>2 DEF ListInv, Marking
<1>11. TypeOK'
  BY <1>1, <1>2, <1>5, <1>7 DEF TypeOK
<1>12. QED
  BY <1>8, <1>9, <1>10, <1>11 DEF Inv

(* At the end of the sweep every chunk has been looked at, and those that  *)
(* are left are the list.                                                  *)
LEMMA EndSweepKeepsInv ==
  ASSUME Inv, NEW back \in {"run", "done"}, EndSweep(back),
         UNCHANGED <<list_head, curr, atEnd, ops>>
  PROVE  Inv' /\ NodesFrom(list_head) = Used
<1>1. /\ gc = "sweep" /\ gc' = back /\ memory = <<>> /\ UNCHANGED <<mem, inUse>>
      /\ memory' = passed /\ passed' = <<>>
  BY DEF EndSweep
<1>2. TypeOK /\ RecordInv /\ PointersInv /\ ListInv /\ Used' = Used
  BY <1>1 DEF Inv, Used
<1>3. Elems(memory) = {} /\ Elems(passed) = Used /\ Once(passed)
  BY <1>1, <1>2, ElemsOfEmpty DEF RecordInv
<1>4. RecordInv'
  BY <1>1, <1>2, <1>3, ElemsOfEmpty DEF RecordInv
<1>5. \A a \in Used : inUse[a] /\ a \in Addr
  BY <1>2, <1>3 DEF RecordInv, Used
<1>6. PointersInv'
  BY <1>1, <1>2, <1>5 DEF PointersInv
<1>7. PICK s \in Seq(Addr) :
        /\ Spells(s) /\ NodesFrom(list_head) = Elems(s)
        /\ \A a \in Addr : inUse[a] <=> a \in Elems(s)
  BY <1>1, Sweeping
<1>8. NodesFrom(list_head) = Used
  BY <1>5, <1>7 DEF Spells
<1>9. Spells(s)'
  BY <1>1, <1>7, SameList
<1>10. ListInv'
  BY <1>1, <1>9, NotMarking DEF ListInv
<1>11. TypeOK'
  BY <1>1, <1>2 DEF TypeOK
<1>12. QED
  BY <1>4, <1>6, <1>8, <1>10, <1>11 DEF Inv

-----------------------------------------------------------------------------
(* The invariant.                                                          *)

LEMMA InitInv == Init => Inv
<1> SUFFICES ASSUME Init PROVE Inv
  OBVIOUS
<1>1. /\ mem = [a \in Addr |-> Free] /\ memory = <<>> /\ passed = <<>>
      /\ inUse = [a \in Addr |-> FALSE] /\ gc = "run"
      /\ list_head = NULL /\ curr = NULL /\ atEnd = FALSE /\ ops = 0
  BY DEF Init, CollectorInit
<1>2. Used = {}
  BY <1>1 DEF Used
<1>3. TypeOK
  <2>1. <<>> \in Seq(Addr) /\ NULL \in Pointer /\ 0 \in Nat /\ Free \in Chunks
    BY Addresses DEF Chunks
  <2>2. mem \in [Addr -> Chunks] /\ inUse \in [Addr -> BOOLEAN]
    BY <1>1, <2>1
  <2>3. QED
    BY <1>1, <2>1, <2>2 DEF TypeOK
<1>4. RecordInv /\ PointersInv
  BY <1>1, <1>2, ElemsOfEmpty DEF RecordInv, PointersInv
<1>5. ListInv
  <2>1. <<>> \in Seq(Addr) /\ DOMAIN <<>> = {} /\ Elems(<<>>) = {} /\ Once(<<>>)
    BY ElemsOfEmpty
  <2>2. NodeAt(<<>>, 1) = NULL
    BY <2>1 DEF NodeAt
  <2>3. Spells(<<>>) /\ Marking(<<>>)
    BY <1>1, <2>1, <2>2 DEF Spells, Marking
  <2>4. QED
    BY <2>1, <2>3 DEF ListInv
<1>6. QED
  BY <1>3, <1>4, <1>5 DEF Inv

LEMMA SameKeepsInv ==
  ASSUME Inv, UNCHANGED vars
  PROVE  Inv'
<1>1. /\ UNCHANGED <<mem, memory, passed, inUse, gc>>
      /\ UNCHANGED <<list_head, curr, atEnd, ops>>
  BY DEF vars, gcVars
<1>2. TypeOK /\ RecordInv /\ PointersInv /\ ListInv /\ Used' = Used
  BY <1>1 DEF Inv, Used
<1>3. TypeOK' /\ RecordInv' /\ PointersInv'
  BY <1>1, <1>2 DEF TypeOK, RecordInv, PointersInv
<1>4. PICK s \in Seq(Addr) : Spells(s) /\ Marking(s)
  BY <1>2 DEF ListInv
<1>5. Spells(s)' /\ Marking(s)'
  BY <1>1, <1>4, SameList DEF Marking, MarkedTo
<1>6. QED
  BY <1>3, <1>5 DEF Inv, ListInv

LEMMA NextInv == Inv /\ [Next]_vars => Inv'
<1> SUFFICES ASSUME Inv, [Next]_vars PROVE Inv'
  OBVIOUS
<1>1. ASSUME NEW v \in Values, AddNode(v) PROVE Inv'
  <2>1. CASE HasMemory(1)
    BY <1>1, <2>1, AddNodeKeepsInv
  <2>2. CASE ~HasMemory(1)
    <3>1. /\ gc = "run" /\ gc' = "exit" /\ ops' = ops + 1
          /\ UNCHANGED <<mem, memory, passed, inUse, curr, atEnd, list_head>>
      BY <1>1, <2>2 DEF AddNode, OutOfMemory, Operation
    <3>2. ops' \in Nat /\ atEnd' \in BOOLEAN
      BY <3>1 DEF Inv, TypeOK
    <3>3. QED
      BY <3>1, <3>2, StoppingKeepsInv
  <2>3. QED
    BY <2>1, <2>2
<1>2. ASSUME NEW v \in Values, RemoveNode(v) PROVE Inv'
  BY <1>2, RemoveNodeKeepsInv
<1>3. CASE Collect
  <2>1. /\ ops' = ops + 1 /\ UNCHANGED <<list_head, atEnd>>
        /\ ops' \in Nat /\ atEnd' \in BOOLEAN
    BY <1>3 DEF Collect, Inv, TypeOK
  <2>2. CASE MarkAndSweep(list_head)
    BY <2>1, <2>2, MarkAndSweepKeepsInv
  <2>3. CASE LogFails /\ UNCHANGED curr
    BY <2>1, <2>3, StoppingKeepsInv DEF LogFails
  <2>4. QED
    BY <1>3, <2>2, <2>3 DEF Collect
<1>4. CASE EndOfFile
  <2>1. /\ list_head' = NULL /\ ops' \in Nat /\ atEnd' \in BOOLEAN
    BY <1>4 DEF EndOfFile, Inv, TypeOK
  <2>2. CASE MarkAndSweep(NULL)
    BY <2>1, <2>2, MarkAndSweepKeepsInv
  <2>3. CASE LogFails /\ UNCHANGED curr
    BY <2>1, <2>3, StoppingKeepsInv DEF LogFails
  <2>4. QED
    BY <1>4, <2>2, <2>3 DEF EndOfFile
<1>5. CASE Sweep
  <2>1. UNCHANGED <<list_head, curr, atEnd, ops>>
    BY <1>5 DEF Sweep
  <2>2. CASE FreeChunk
    BY <2>1, <2>2, FreeChunkKeepsInv
  <2>3. CASE KeepChunk
    BY <2>1, <2>3, KeepChunkKeepsInv
  <2>4. CASE EndSweep(IF atEnd THEN "done" ELSE "run")
    <3>1. PICK back \in {"run", "done"} : EndSweep(back)
      BY <2>4
    <3>2. QED
      BY <2>1, <3>1, EndSweepKeepsInv
  <2>5. QED
    BY <1>5, <2>2, <2>3, <2>4 DEF Sweep
<1>6. CASE Stopped
  BY <1>6, SameKeepsInv DEF Stopped
<1>7. CASE UNCHANGED vars
  BY <1>7, SameKeepsInv
<1>8. QED
  BY <1>1, <1>2, <1>3, <1>4, <1>5, <1>6, <1>7,
     MarkCellKeepsInv, MarkingDoneKeepsInv DEF Next

LEMMA Invariance == Spec => []Inv
<1>1. QED
  BY InitInv, NextInv, PTL DEF Spec

(* Nothing dangles, the marker marks the list and nothing else, and the    *)
(* records of the collector are of the chunks that exist, for every heap   *)
(* size, set of values and number of operations.                           *)
THEOREM ListIntegrity == Spec => []ListOK
<1>1. Inv => ListOK
  <2> SUFFICES ASSUME Inv PROVE ListOK
    OBVIOUS
  <2>1. TypeOK /\ RecordInv /\ PointersInv /\ ListInv
    BY DEF Inv
  <2>2. PICK s \in Seq(Addr) : Spells(s) /\ Marking(s)
    BY <2>1 DEF ListInv
  <2>3. /\ Len(s) \in Nat /\ DOMAIN s = 1..Len(s)
        /\ \A k \in 1..(Len(s) + 1) :
             NodesFrom(NodeAt(s, k)) = {s[i] : i \in {j \in DOMAIN s : j >= k}}
        /\ NodesFrom(list_head) = Elems(s)
    BY <2>2, ReadsAlong DEF Reads
  <2>4. list_head \in Used \cup {NULL}
    BY <2>2 DEF Spells, NodeAt, Elems
  <2>5. ASSUME gc = "mark"
        PROVE  {a \in Addr : inUse[a]} = NodesFrom(list_head) \ NodesFrom(curr)
    <3>1. PICK k \in 1..(Len(s) + 1) : MarkedTo(s, k)
      BY <2>2, <2>5 DEF Marking
    <3>2. /\ NodesFrom(curr) = {s[i] : i \in {j \in DOMAIN s : j >= k}}
          /\ \A a \in Addr : inUse[a] <=> \E i \in DOMAIN s : i < k /\ s[i] = a
      BY <2>3, <3>1 DEF MarkedTo
    <3>3. Elems(s) \subseteq Addr /\ Once(s)
      BY <2>2 DEF Spells, Used
    <3>4. \A i, j \in DOMAIN s : s[i] = s[j] => i = j
      BY <3>3 DEF Once
    <3>5. \A j \in DOMAIN s : j < k <=> ~(j >= k)
      BY <2>3
    <3>6. ASSUME NEW a \in Addr
          PROVE  inUse[a] <=> a \in Elems(s) /\ a \notin NodesFrom(curr)
      BY <3>2, <3>4, <3>5 DEF Elems
    <3>7. QED
      BY <2>3, <3>3, <3>6
  <2>6. /\ Elems(passed \o memory) = Used
        /\ Len(passed \o memory) = Cardinality(Used)
    <3>1. /\ passed \in Seq(Addr) /\ memory \in Seq(Addr)
          /\ Once(passed) /\ Once(memory)
          /\ Elems(memory) \cap Elems(passed) = {}
          /\ Elems(memory) \cup Elems(passed) = Used
      BY <2>1 DEF TypeOK, RecordInv
    <3>2. PICK p, m : p = passed /\ m = memory
      OBVIOUS
    <3>3. Elems(p \o m) = Elems(p) \cup Elems(m) /\ Once(p \o m)
      BY <3>1, <3>2, ElemsOfConcat
    <3>4. p \o m \in Seq(Addr)
      BY <3>1, <3>2
    <3>5. Cardinality(Elems(p \o m)) = Len(p \o m)
      BY <3>3, <3>4, ElemsCounted
    <3>6. QED
      BY <3>1, <3>2, <3>3, <3>5
  <2>7. QED
    BY <2>1, <2>4, <2>5, <2>6 DEF ListOK, PointersInv, Elems
<1>2. QED
  BY <1>1, Invariance, PTL

-----------------------------------------------------------------------------
(* The list as its users see it.                                           *)

(* The values of the nodes of s. *)
ValuesOf(s) == [i \in 1..Len(s) |-> mem[s[i]].value]

LEMMA ValuesAre ==
  ASSUME TypeOK, NEW s \in Seq(Addr), Spells(s)
  PROVE  /\ Listed = ValuesOf(s)
         /\ ValuesOf(s) \in Seq(Values)
         /\ Len(ValuesOf(s)) = Len(s) /\ DOMAIN ValuesOf(s) = DOMAIN s
         /\ \A i \in DOMAIN s : s[i] \in Used /\ ValuesOf(s)[i] = mem[s[i]].value
<1>1. Len(s) \in Nat /\ DOMAIN s = 1..Len(s)
  BY NodesAt
<1>2. \A i \in DOMAIN s : s[i] \in Used
  BY DEF Spells, Elems
<1>3. \A i \in 1..Len(s) : mem[s[i]].value \in Values
  BY <1>1, <1>2, CellsAre
<1>4. ValuesOf(s) \in [1..Len(s) -> Values]
  BY <1>3 DEF ValuesOf
<1>5. Listed = ValuesOf(s)
  BY ReadsAlong DEF Reads, ValuesOf
<1>6. QED
  BY <1>1, <1>2, <1>4, <1>5 DEF ValuesOf

(* A list whose nodes hold the same values reads the same. *)
LEMMA SameValues ==
  ASSUME Inv, NEW s \in Seq(Addr), Spells(s), Spells(s)',
         \A i \in DOMAIN s : mem'[s[i]].value = mem[s[i]].value
  PROVE  Listed' = Listed /\ NodesFrom(list_head)' = NodesFrom(list_head)
<1>1. DOMAIN s = 1..Len(s)
  BY NodesAt
<1>2. /\ Listed = [i \in 1..Len(s) |-> mem[s[i]].value]
      /\ NodesFrom(list_head) = Elems(s)
  BY ReadsAlong DEF Reads
<1>3. /\ Listed' = [i \in 1..Len(s) |-> mem'[s[i]].value]
      /\ NodesFrom(list_head)' = Elems(s)
  BY ReadsAlongNext DEF Reads
<1>4. QED
  BY <1>1, <1>2, <1>3

LEMMA AddNodeLists ==
  ASSUME Inv, NEW v \in Values, AddNode(v), HasMemory(1)
  PROVE  /\ Listed' = <<v>> \o Listed
         /\ \E n \in Addr \ Used : /\ Used' = Used \cup {n}
                                   /\ NodesFrom(list_head)' = NodesFrom(list_head) \cup {n}
<1>1. PICK s \in Seq(Addr) : Spells(s)
  BY DEF Inv, ListInv
<1>2. PICK n \in Addr \ Used :
        /\ <<n>> \o s \in Seq(Addr)
        /\ Spells(<<n>> \o s)'
        /\ mem'[n].value = v
        /\ \A a \in Used : mem'[a] = mem[a]
        /\ Used' = Used \cup {n}
  BY <1>1, AddNodeSpells
<1>3. PICK t : t = <<n>> \o s
  OBVIOUS
<1>4. /\ t \in Seq(Addr) /\ Spells(t)'
      /\ Len(t) = Len(s) + 1
      /\ t = [i \in 1..(Len(s) + 1) |-> IF i = 1 THEN n ELSE s[i - 1]]
  BY <1>2, <1>3, PrependedIs
<1>5. Len(s) \in Nat /\ DOMAIN s = 1..Len(s)
  BY NodesAt
<1>6. /\ Listed' = [i \in 1..(Len(s) + 1) |-> mem'[t[i]].value]
      /\ NodesFrom(list_head)' = Elems(t)
  BY <1>4, ReadsAlongNext DEF Reads
<1>7. /\ Listed \in Seq(Values) /\ Len(Listed) = Len(s)
      /\ \A i \in DOMAIN s : s[i] \in Used /\ Listed[i] = mem[s[i]].value
      /\ NodesFrom(list_head) = Elems(s)
  BY <1>1, ValuesAre, ReadsAlong DEF Inv, Reads
<1>8. <<v>> \o Listed
        = [i \in 1..(Len(s) + 1) |-> IF i = 1 THEN v ELSE Listed[i - 1]]
  BY <1>7, PrependedIs
<1>9. ASSUME NEW i \in 1..(Len(s) + 1)
      PROVE  mem'[t[i]].value = IF i = 1 THEN v ELSE Listed[i - 1]
  <2>1. CASE i = 1
    BY <1>2, <1>4, <2>1
  <2>2. CASE i # 1
    <3>1. i - 1 \in DOMAIN s
      BY <1>5, <2>2
    <3>2. t[i] = s[i - 1] /\ s[i - 1] \in Used
      BY <1>4, <1>7, <2>2, <3>1
    <3>3. QED
      BY <1>2, <1>7, <2>2, <3>1, <3>2
  <2>3. QED
    BY <2>1, <2>2
<1>10. Elems(t) = Elems(s) \cup {n}
  BY <1>3, ElemsPrepended
<1>11. QED
  BY <1>2, <1>6, <1>7, <1>8, <1>9, <1>10

(* Without takes away the first element with that value. *)
LEMMA WithoutIs ==
  ASSUME NEW S, NEW s \in Seq(S), NEW v
  PROVE  /\ (\A i \in DOMAIN s : s[i] # v) => Without(s, v) = s
         /\ \A j \in DOMAIN s :
              s[j] = v /\ (\A i \in 1..(j - 1) : s[i] # v) =>
                Without(s, v) = Removed(s, j)
<1> DEFINE found == {i \in DOMAIN s : s[i] = v}
<1>1. Without(s, v) = IF found = {} THEN s
                      ELSE SubSeq(s, 1, Least(found) - 1)
                             \o SubSeq(s, Least(found) + 1, Len(s))
  BY DEF Without
<1>2. DOMAIN s = 1..Len(s) /\ Len(s) \in Nat
  OBVIOUS
<1>3. ASSUME NEW j \in DOMAIN s, s[j] = v, \A i \in 1..(j - 1) : s[i] # v
      PROVE  Without(s, v) = Removed(s, j)
  <2>1. j \in found /\ found \subseteq Nat /\ \A i \in found : ~(i \in 1..(j - 1)) /\ i \in 1..Len(s)
    BY <1>2, <1>3
  <2>2. found # {}
    BY <2>1
  <2> HIDE DEF found
  <2>3. Least(found) \in found /\ \A i \in found : Least(found) <= i
    BY <2>1, <2>2, LeastIs
  <2>4. PICK m : m = Least(found)
    OBVIOUS
  <2>5. m \in 1..Len(s) /\ m \notin 1..(j - 1) /\ m <= j
    BY <2>1, <2>3, <2>4
  <2>6. m = j
    BY <1>2, <2>5
  <2>7. QED
    BY <1>1, <2>2, <2>4, <2>6, RemovedIs
<1>4. QED
  BY <1>1, <1>3

LEMMA RemoveNodeLists ==
  ASSUME Inv, NEW v, RemoveNode(v)
  PROVE  /\ Listed' = Without(Listed, v)
         /\ Used' = Used
         /\ NodesFrom(list_head)' \subseteq NodesFrom(list_head)
<1>1. PICK s \in Seq(Addr) : Spells(s)
  BY DEF Inv, ListInv
<1>2. PICK w : w = Listed
  OBVIOUS
<1>3. /\ w \in Seq(Values) /\ Len(w) = Len(s) /\ DOMAIN w = DOMAIN s
      /\ \A i \in DOMAIN s : s[i] \in Used /\ s[i] \in Addr /\ w[i] = mem[s[i]].value
      /\ NodesFrom(list_head) = Elems(s)
  BY <1>1, <1>2, ValuesAre, ReadsAlong DEF Inv, Reads, Used
<1>4. Len(s) \in Nat /\ DOMAIN s = 1..Len(s)
  BY NodesAt
<1>5. CASE Kept(v, s)
  <2>1. UNCHANGED <<mem, list_head>> /\ \A i \in DOMAIN w : w[i] # v
    BY <1>3, <1>5 DEF Kept
  <2>2. Used' = Used /\ Spells(s)'
    BY <1>1, <2>1, SameList
  <2>3. Listed' = w /\ NodesFrom(list_head)' = NodesFrom(list_head)
    BY <1>1, <1>2, <2>1, <2>2, SameValues
  <2>4. Without(w, v) = w
    BY <1>3, <2>1, WithoutIs
  <2>5. QED
    BY <1>2, <2>2, <2>3, <2>4
<1>6. ASSUME NEW j \in DOMAIN s,
             \/ j = 1 /\ BeheadedOf(v, s)
             \/ j # 1 /\ UnlinkedFrom(v, s, j - 1)
      PROVE  /\ Listed' = Without(Listed, v)
             /\ Used' = Used
             /\ NodesFrom(list_head)' \subseteq NodesFrom(list_head)
  <2>1. PICK t : t = Removed(s, j)
    OBVIOUS
  <2>2. /\ Used' = Used
        /\ \A a \in Addr : mem'[a].value = mem[a].value
        /\ t \in Seq(Addr) /\ Spells(t)'
    BY <1>1, <1>6, <2>1, RemovedSpells
  <2>3. /\ Listed' = [i \in 1..Len(t) |-> mem'[t[i]].value]
        /\ NodesFrom(list_head)' = Elems(t)
    BY <2>2, ReadsAlongNext DEF Reads
  <2>4. Len(t) = Len(s) - 1 /\ Elems(t) = Elems(s) \ {s[j]}
    BY <1>1, <2>1, RemovedIs, OnceRemoved DEF Spells
  <2>5. w[j] = v /\ \A i \in 1..(j - 1) : w[i] # v
    <3>1. CASE j = 1
      BY <1>3, <1>6, <3>1 DEF BeheadedOf
    <3>2. CASE j # 1
      <4>1. PICK k : k = j - 1
        OBVIOUS
      <4>2. /\ k \in DOMAIN s /\ k + 1 \in DOMAIN s
            /\ \A i \in 1..k : mem[s[i]].value # v
            /\ mem[s[k + 1]].value = v
        BY <1>6, <3>2, <4>1 DEF UnlinkedFrom
      <4>3. j = k + 1 /\ \A i \in 1..k : i \in DOMAIN s
        BY <1>4, <4>1, <4>2
      <4>4. QED
        BY <1>3, <4>1, <4>2, <4>3
    <3>3. QED
      BY <3>1, <3>2
  <2>6. Without(w, v) = Removed(w, j)
    BY <1>3, <2>5, WithoutIs
  <2>7. Removed(w, j) = [i \in 1..(Len(s) - 1) |-> IF i < j THEN w[i] ELSE w[i + 1]]
    BY <1>3 DEF Removed
  <2>8. ASSUME NEW i \in 1..(Len(s) - 1)
        PROVE  mem'[t[i]].value = IF i < j THEN w[i] ELSE w[i + 1]
    <3>1. i \in DOMAIN s /\ i + 1 \in DOMAIN s
      BY <1>4
    <3>2. t[i] = IF i < j THEN s[i] ELSE s[i + 1]
      BY <2>1 DEF Removed
    <3>3. QED
      BY <1>3, <2>2, <3>1, <3>2
  <2>9. Listed' = Removed(w, j)
    BY <2>3, <2>4, <2>7, <2>8
  <2>10. QED
    BY <1>2, <1>3, <2>2, <2>3, <2>4, <2>6, <2>9
<1>7. CASE BeheadedOf(v, s)
  <2>1. 1 \in DOMAIN s
    BY <1>4, <1>7, EmptySeq DEF BeheadedOf
  <2>2. QED
    BY <1>6, <1>7, <2>1
<1>8. ASSUME NEW k \in DOMAIN s, UnlinkedFrom(v, s, k)
      PROVE  /\ Listed' = Without(Listed, v)
             /\ Used' = Used
             /\ NodesFrom(list_head)' \subseteq NodesFrom(list_head)
  <2>1. k + 1 \in DOMAIN s /\ k + 1 # 1 /\ k + 1 - 1 = k
    BY <1>4, <1>8 DEF UnlinkedFrom
  <2>2. PICK j \in DOMAIN s : j # 1 /\ j - 1 = k
    BY <2>1
  <2>3. UnlinkedFrom(v, s, j - 1)
    BY <1>8, <2>2
  <2>4. QED
    BY <1>6, <2>2, <2>3
<1>9. QED
  BY <1>1, <1>5, <1>7, <1>8, RemoveNodeEffect

LEMMA SameListed ==
  ASSUME Inv, UNCHANGED <<mem, list_head>>
  PROVE  /\ Listed' = Listed /\ Used' = Used
         /\ NodesFrom(list_head)' = NodesFrom(list_head)
<1>1. PICK s \in Seq(Addr) : Spells(s)
  BY DEF Inv, ListInv
<1>2. Used' = Used /\ Spells(s)'
  BY <1>1, SameList
<1>3. QED
  BY <1>1, <1>2, SameValues

LEMMA FreeChunkListed ==
  ASSUME Inv, FreeChunk, UNCHANGED list_head
  PROVE  /\ Listed' = Listed
         /\ NodesFrom(list_head)' = NodesFrom(list_head)
         /\ \E h \in Used \ NodesFrom(list_head) : Used' = Used \ {h}
<1>1. PICK h \in Used :
        /\ ~inUse[h]
        /\ \A a \in Addr \ {h} : mem'[a] = mem[a]
        /\ Used' = Used \ {h}
        /\ gc = "sweep"
  BY FreeChunkEffect
<1>2. PICK s \in Seq(Addr) :
        /\ Spells(s)
        /\ \A a \in Addr : inUse[a] <=> a \in Elems(s)
        /\ NodesFrom(list_head) = Elems(s)
  BY <1>1, Sweeping
<1>3. h \notin Elems(s) /\ Elems(s) \subseteq Used /\ Used \subseteq Addr
  BY <1>1, <1>2 DEF Used, Spells
<1>4. Spells(s)'
  BY <1>1, <1>2, <1>3, OtherFreed
<1>5. \A i \in DOMAIN s : mem'[s[i]].value = mem[s[i]].value
  BY <1>1, <1>3 DEF Elems
<1>6. QED
  BY <1>1, <1>2, <1>3, <1>4, <1>5, SameValues

(* What the program does to its list is what the comments in list.c say of *)
(* a list: adding a value puts it in front, removing one takes away the    *)
(* first node that has it, and nothing else, a collection least of all,    *)
(* changes what the program sees, until it gives the list up at the end.   *)
THEOREM ListIsSequence == Spec => IsSequence
<1> DEFINE Step ==
      /\ \A v \in Values :
           /\ AddNode(v) /\ gc' = "run" => Listed' = <<v>> \o Listed
           /\ RemoveNode(v) => Listed' = Without(Listed, v)
      /\ \/ Listed' = Listed
         \/ \E v \in Values : AddNode(v) \/ RemoveNode(v)
         \/ EndOfFile
<1>1. Inv /\ [Next]_vars => [Step]_vars
  <2> SUFFICES ASSUME Inv, Next PROVE Step
    OBVIOUS
  <2>1. ASSUME NEW v \in Values, AddNode(v), gc' = "run"
        PROVE  Listed' = <<v>> \o Listed
    <3>1. CASE HasMemory(1)
      BY <2>1, <3>1, AddNodeLists
    <3>2. CASE ~HasMemory(1)
      BY <2>1, <3>2 DEF AddNode, OutOfMemory
    <3>3. QED
      BY <3>1, <3>2
  <2>2. ASSUME NEW v \in Values, RemoveNode(v)
        PROVE  Listed' = Without(Listed, v)
    BY <2>2, RemoveNodeLists
  <2>3. \/ Listed' = Listed
        \/ \E v \in Values : AddNode(v) \/ RemoveNode(v)
        \/ EndOfFile
    <3>1. CASE Collect
      BY <3>1, SameListed DEF Collect, MarkAndSweep, LogFails
    <3>2. CASE MarkCell \/ MarkingDone
      BY <3>2, SameListed DEF MarkCell, MarkingDone
    <3>3. CASE Sweep
      BY <3>3, SameListed, FreeChunkListed DEF Sweep, KeepChunk, EndSweep
    <3>4. CASE Stopped
      BY <3>4, SameListed DEF Stopped, vars, gcVars
    <3>5. QED
      BY <3>1, <3>2, <3>3, <3>4 DEF Next
  <2>4. QED
    BY <2>1, <2>2, <2>3
<1> HIDE DEF Step
<1>2. Spec => [][Step]_vars
  BY <1>1, Invariance, PTL DEF Spec
<1>3. QED
  BY <1>2 DEF IsSequence, Step

-----------------------------------------------------------------------------
(* The collector keeps its promise to the program.                         *)

PoolStep == Pool!Next \/ UNCHANGED Pool!poolVars

(* A step that neither the chunks nor the program's view can tell. *)
LEMMA Invisible ==
  ASSUME Inv, UNCHANGED <<mem, list_head>>,
         gc \in {"mark", "sweep"} <=> gc' \in {"mark", "sweep"}
  PROVE  PoolStep
<1>1. Used' = Used /\ NodesFrom(list_head)' = NodesFrom(list_head)
  BY SameListed
<1>2. (gc \in {"mark", "sweep"})' = (gc \in {"mark", "sweep"})
  OBVIOUS
<1>3. QED
  BY <1>1, <1>2 DEF PoolStep, Pool!poolVars

LEMMA HeadInHeap == Inv => NodesFrom(list_head) \subseteq Used /\ Used \subseteq Addr
<1> SUFFICES ASSUME Inv PROVE NodesFrom(list_head) \subseteq Used /\ Used \subseteq Addr
  OBVIOUS
<1>1. PICK s \in Seq(Addr) : Spells(s)
  BY DEF Inv, ListInv
<1>2. QED
  BY <1>1, ReadsAlong DEF Reads, Spells, Used

LEMMA HeadInHeapNext == Inv' => NodesFrom(list_head)' \subseteq Used' /\ Used' \subseteq Addr
<1>1. (Inv => NodesFrom(list_head) \subseteq Used /\ Used \subseteq Addr)'
  BY HeadInHeap, PTL
<1>2. QED
  BY <1>1

(* An operation: what it newly reaches is newly allocated. *)
LEMMA Mutates ==
  ASSUME Inv, Inv', gc = "run", gc' = "run", Used \subseteq Used',
         Used' \ Used = NodesFrom(list_head)' \ NodesFrom(list_head)
  PROVE  PoolStep
<1>1. NodesFrom(list_head)' \subseteq Used' /\ Used' \subseteq Addr
  BY HeadInHeapNext
<1>2. Pool!Mutate
  BY <1>1 DEF Pool!Mutate
<1>3. QED
  BY <1>2 DEF PoolStep, Pool!Next

(* A collection begins, or the program ends instead. *)
LEMMA Begins ==
  ASSUME Inv, Inv', list_head' \in {list_head, NULL},
         MarkAndSweep(list_head') \/ LogFails
  PROVE  PoolStep
<1>1. gc = "run" /\ mem' = mem /\ gc' \in {"mark", "exit"} /\ Used' = Used
  BY DEF MarkAndSweep, LogFails, Used
<1>2. NodesFrom(list_head)' \subseteq NodesFrom(list_head)
  <2>1. CASE list_head' = list_head
    BY <1>1, <2>1, SameListed
  <2>2. CASE list_head' = NULL
    <3>1. PICK t \in Seq(Addr) : Spells(t)'
      BY DEF Inv, ListInv
    <3>2. NodesFrom(list_head)' = Elems(t) /\ NULL = NodeAt(t, 1)
      BY <2>2, <3>1, ReadsAlongNext DEF Reads, Spells
    <3>3. Len(t) \in Nat /\ DOMAIN t = 1..Len(t) /\ (Len(t) >= 1 => NodeAt(t, 1) # NULL)
      BY NodesAt
    <3>4. DOMAIN t = {}
      BY <3>2, <3>3
    <3>5. QED
      BY <3>2, <3>4 DEF Elems
  <2>3. QED
    BY <2>1, <2>2
<1>3. CASE gc' = "mark"
  <2>1. Pool!Begin
    BY <1>1, <1>2, <1>3 DEF Pool!Begin
  <2>2. QED
    BY <2>1 DEF PoolStep, Pool!Next
<1>4. CASE gc' = "exit"
  <2>1. Pool!Mutate
    <3>1. NodesFrom(list_head)' \subseteq Used' /\ Used' \subseteq Addr
      BY HeadInHeapNext
    <3>2. Used' \ Used = {} /\ NodesFrom(list_head)' \ NodesFrom(list_head) = {}
      BY <1>1, <1>2
    <3>3. QED
      BY <1>1, <1>4, <3>1, <3>2 DEF Pool!Mutate
  <2>2. QED
    BY <2>1 DEF PoolStep, Pool!Next
<1>5. QED
  BY <1>1, <1>3, <1>4

LEMMA Sweeps ==
  ASSUME Inv, Inv', Sweep
  PROVE  PoolStep
<1>1. list_head' = list_head /\ UNCHANGED <<list_head, curr, atEnd, ops>>
  BY DEF Sweep
<1>2. CASE FreeChunk
  <2>1. gc = "sweep" /\ gc' = "sweep"
    BY <1>2 DEF FreeChunk
  <2>2. /\ NodesFrom(list_head)' = NodesFrom(list_head)
        /\ \E h \in Used \ NodesFrom(list_head) : Used' = Used \ {h}
    BY <1>1, <1>2, FreeChunkListed
  <2>3. Pool!Release
    BY <2>1, <2>2 DEF Pool!Release
  <2>4. QED
    BY <2>3 DEF PoolStep, Pool!Next
<1>3. CASE KeepChunk
  BY <1>1, <1>3, Invisible DEF KeepChunk
<1>4. CASE EndSweep(IF atEnd THEN "done" ELSE "run")
  <2>1. PICK back \in {"run", "done"} : EndSweep(back)
    BY <1>4
  <2>2. gc = "sweep" /\ gc' \in {"run", "done"} /\ mem' = mem
    BY <2>1 DEF EndSweep
  <2>3. NodesFrom(list_head) = Used
    BY <1>1, <2>1, EndSweepKeepsInv
  <2>4. Used' = Used /\ NodesFrom(list_head)' = NodesFrom(list_head)
    BY <1>1, <2>2, SameListed
  <2>5. Pool!End
    BY <2>2, <2>3, <2>4 DEF Pool!End
  <2>6. QED
    BY <2>5 DEF PoolStep, Pool!Next
<1>5. QED
  BY <1>2, <1>3, <1>4 DEF Sweep

LEMMA NextPool == Inv /\ Inv' /\ [Next]_vars => PoolStep
<1> SUFFICES ASSUME Inv, Inv', [Next]_vars PROVE PoolStep
  OBVIOUS
<1>1. ASSUME NEW v \in Values, AddNode(v) PROVE PoolStep
  <2>1. gc = "run"
    BY <1>1 DEF AddNode, Operation
  <2>2. CASE HasMemory(1)
    <3>1. gc' = "run"
      BY <1>1, <2>1, <2>2 DEF AddNode, Allocate
    <3>2. PICK n \in Addr \ Used :
            /\ Used' = Used \cup {n}
            /\ NodesFrom(list_head)' = NodesFrom(list_head) \cup {n}
      BY <1>1, <2>2, AddNodeLists
    <3>3. Used' \ Used = NodesFrom(list_head)' \ NodesFrom(list_head)
      BY <3>2, HeadInHeap
    <3>4. QED
      BY <2>1, <3>1, <3>2, <3>3, Mutates
  <2>3. CASE ~HasMemory(1)
    BY <1>1, <2>1, <2>3, Invisible DEF AddNode, OutOfMemory
  <2>4. QED
    BY <2>2, <2>3
<1>2. ASSUME NEW v \in Values, RemoveNode(v) PROVE PoolStep
  <2>1. gc = "run" /\ gc' = "run"
    BY <1>2 DEF RemoveNode, Operation
  <2>2. Used' = Used /\ NodesFrom(list_head)' \subseteq NodesFrom(list_head)
    BY <1>2, RemoveNodeLists
  <2>3. Used' \ Used = NodesFrom(list_head)' \ NodesFrom(list_head)
    BY <2>2
  <2>4. QED
    BY <2>1, <2>2, <2>3, Mutates
<1>3. CASE Collect
  BY <1>3, Begins DEF Collect
<1>4. CASE EndOfFile
  BY <1>4, Begins DEF EndOfFile
<1>5. CASE MarkCell \/ MarkingDone
  BY <1>5, Invisible DEF MarkCell, MarkingDone
<1>6. CASE Stopped \/ UNCHANGED vars
  BY <1>6, Invisible DEF Stopped, vars, gcVars
<1>7. QED
  BY <1>1, <1>2, <1>3, <1>4, <1>5, <1>6, Sweeps DEF Next

(* To the program the collector of the list is a pool of chunks: every     *)
(* step is, in terms of the chunks and of the list, a step of ChunkPool or *)
(* invisible.  No node of the list is ever freed, and when a collection is *)
(* over there is no other chunk.  That it gets there is left to the model  *)
(* checker.                                                                *)
THEOREM ListPoolRefinement == Spec => Pool!Init /\ [][Pool!Next]_(Pool!poolVars)
<1>1. Init => Pool!Init
  <2> SUFFICES ASSUME Init PROVE Pool!Init
    OBVIOUS
  <2>1. Inv /\ mem = [a \in Addr |-> Free] /\ gc = "run"
    BY InitInv DEF Init, CollectorInit
  <2>2. Used = {}
    BY <2>1 DEF Used
  <2>3. NodesFrom(list_head) = {}
    BY <2>1, <2>2, HeadInHeap
  <2>4. QED
    BY <2>1, <2>2, <2>3 DEF Pool!Init
<1>2. Inv /\ Inv' /\ [Next]_vars => [Pool!Next]_(Pool!poolVars)
  BY NextPool DEF PoolStep, Pool!poolVars
<1>3. QED
  BY <1>1, <1>2, Invariance, PTL DEF Spec
=============================================================================
