----------------------------- MODULE TreeProofs -----------------------------
(***************************************************************************)
(* Proofs about the file-system tree on top of the collector: nothing      *)
(* dangles, the records of the collector are of the chunks that exist, the *)
(* marker leaves nothing behind, a collection frees what cannot be reached *)
(* and nothing else, and a removal stays within one list of links.         *)
(***************************************************************************)
EXTENDS GcTree, SequenceTheorems, FiniteSetTheorems, WellFoundedInduction, TLAPS

-----------------------------------------------------------------------------
(* Sequences without repetition.                                           *)

Elems(s) == {s[i] : i \in DOMAIN s}
Once(s) == \A i, j \in DOMAIN s : s[i] = s[j] => i = j

LEMMA ElemsOfEmpty == Elems(<<>>) = {} /\ Once(<<>>)
<1>1. DOMAIN <<>> = {}
  OBVIOUS
<1>2. QED
  BY <1>1 DEF Elems, Once

LEMMA ElemsOfConcat ==
  ASSUME NEW S, NEW s \in Seq(S), NEW t \in Seq(S)
  PROVE  /\ Elems(s \o t) = Elems(s) \cup Elems(t)
         /\ Once(s) /\ Once(t) /\ Elems(s) \cap Elems(t) = {} => Once(s \o t)
<1>1. PICK n, k \in Nat : n = Len(s) /\ k = Len(t)
  OBVIOUS
<1>2. DOMAIN s = 1..n /\ DOMAIN t = 1..k
  BY <1>1
<1> DEFINE u == s \o t
<1>3. /\ DOMAIN u = 1..(n + k)
      /\ \A i \in 1..(n + k) : u[i] = IF i <= n THEN s[i] ELSE t[i - n]
  BY <1>1, ConcatProperties
<1> HIDE DEF u
<1>4. \A i \in 1..n : u[i] = s[i] /\ i \in DOMAIN u
  BY <1>3
<1>5. \A i \in 1..k : u[n + i] = t[i] /\ n + i \in DOMAIN u
  <2> TAKE i \in 1..k
  <2>1. n + i \in 1..(n + k) /\ ~(n + i <= n) /\ n + i - n = i
    OBVIOUS
  <2>2. QED
    BY <1>3, <2>1
<1>6. \A j \in DOMAIN u : j \in 1..n \/ \E i \in 1..k : j = n + i
  <2> TAKE j \in DOMAIN u
  <2>1. j \in 1..n \/ (j - n \in 1..k /\ j = n + (j - n))
    BY <1>3
  <2>2. QED
    BY <2>1
<1>7. Elems(u) = Elems(s) \cup Elems(t)
  <2>1. Elems(u) \subseteq Elems(s) \cup Elems(t)
    <3>1. ASSUME NEW j \in DOMAIN u PROVE u[j] \in Elems(s) \cup Elems(t)
      <4>1. CASE j \in 1..n
        BY <1>2, <1>4, <4>1 DEF Elems
      <4>2. ASSUME NEW i \in 1..k, j = n + i PROVE u[j] \in Elems(t)
        BY <1>2, <1>5, <4>2 DEF Elems
      <4>3. QED
        BY <1>6, <4>1, <4>2
    <3>2. QED
      BY <3>1 DEF Elems
  <2>2. Elems(s) \subseteq Elems(u)
    BY <1>2, <1>4 DEF Elems
  <2>3. Elems(t) \subseteq Elems(u)
    BY <1>2, <1>5 DEF Elems
  <2>4. QED
    BY <2>1, <2>2, <2>3
<1>8. ASSUME Once(s), Once(t), Elems(s) \cap Elems(t) = {},
             NEW i \in DOMAIN u, NEW j \in DOMAIN u, u[i] = u[j]
      PROVE  i = j
  <2>1. \A a \in 1..n, b \in 1..k : s[a] # t[b]
    BY <1>2, <1>8 DEF Elems
  <2>2. CASE i \in 1..n /\ j \in 1..n
    BY <1>2, <1>4, <1>8, <2>2 DEF Once
  <2>3. CASE i \in 1..n /\ \E b \in 1..k : j = n + b
    BY <1>4, <1>5, <1>8, <2>1, <2>3
  <2>4. CASE j \in 1..n /\ \E b \in 1..k : i = n + b
    BY <1>4, <1>5, <1>8, <2>1, <2>4
  <2>5. ASSUME NEW a \in 1..k, NEW b \in 1..k, i = n + a, j = n + b
        PROVE  i = j
    BY <1>2, <1>5, <1>8, <2>5 DEF Once
  <2>6. QED
    BY <1>6, <2>2, <2>3, <2>4, <2>5
<1>9. QED
  BY <1>7, <1>8 DEF u, Once

LEMMA ElemsOfAppend ==
  ASSUME NEW S, NEW s \in Seq(S), NEW e \in S
  PROVE  /\ Elems(Append(s, e)) = Elems(s) \cup {e}
         /\ Once(s) /\ e \notin Elems(s) => Once(Append(s, e))
<1>1. PICK n \in Nat : n = Len(s)
  OBVIOUS
<1> DEFINE u == Append(s, e)
<1>2. /\ DOMAIN s = 1..n /\ DOMAIN u = 1..(n + 1)
      /\ \A i \in 1..n : u[i] = s[i]
      /\ u[n + 1] = e
  BY <1>1, AppendProperties
<1> HIDE DEF u
<1>3. \A i \in DOMAIN u : i \in DOMAIN s \/ i = n + 1
  BY <1>2
<1>4. n + 1 \in DOMAIN u /\ DOMAIN s \subseteq DOMAIN u
  BY <1>2
<1>5. Elems(u) = Elems(s) \cup {e}
  <2>1. Elems(u) \subseteq Elems(s) \cup {e}
    BY <1>2, <1>3 DEF Elems
  <2>2. Elems(s) \subseteq Elems(u) /\ e \in Elems(u)
    BY <1>2, <1>4 DEF Elems
  <2>3. QED
    BY <2>1, <2>2
<1>6. Once(s) /\ e \notin Elems(s) => Once(u)
  BY <1>2, <1>3 DEF Once, Elems
<1>7. QED
  BY <1>5, <1>6 DEF u

LEMMA ElemsOfTail ==
  ASSUME NEW S, NEW s \in Seq(S), s # <<>>
  PROVE  /\ Head(s) \in Elems(s)
         /\ Elems(s) = Elems(Tail(s)) \cup {Head(s)}
         /\ Once(s) => Once(Tail(s)) /\ Head(s) \notin Elems(Tail(s))
<1>1. PICK n \in Nat : Len(s) = n + 1
  <2>1. Len(s) \in Nat \ {0}
    BY EmptySeq
  <2>2. Len(s) - 1 \in Nat /\ Len(s) = (Len(s) - 1) + 1
    BY <2>1
  <2>3. QED
    BY <2>2
<1> DEFINE u == Tail(s)
<1>2. /\ DOMAIN s = 1..(n + 1) /\ DOMAIN u = 1..n
      /\ \A i \in 1..n : u[i] = s[i + 1]
      /\ Head(s) = s[1]
  BY <1>1, HeadTailProperties
<1> HIDE DEF u
<1>3. \A i \in DOMAIN s : i = 1 \/ \E j \in DOMAIN u : i = j + 1
  <2> TAKE i \in DOMAIN s
  <2>1. i = 1 \/ (i - 1 \in 1..n /\ i = (i - 1) + 1)
    BY <1>2
  <2>2. QED
    BY <1>2, <2>1
<1>4. \A j \in DOMAIN u : j + 1 \in DOMAIN s /\ j + 1 # 1 /\ j \in Int
  BY <1>2
<1>5. 1 \in DOMAIN s
  BY <1>2
<1>6. Head(s) \in Elems(s)
  BY <1>2, <1>5 DEF Elems
<1>7. Elems(s) = Elems(u) \cup {Head(s)}
  <2>1. Elems(u) \subseteq Elems(s)
    BY <1>2, <1>4 DEF Elems
  <2>2. Elems(s) \subseteq Elems(u) \cup {Head(s)}
    BY <1>2, <1>3 DEF Elems
  <2>3. QED
    BY <1>6, <2>1, <2>2
<1>8. ASSUME Once(s) PROVE Once(u) /\ Head(s) \notin Elems(u)
  <2>1. ASSUME NEW i \in DOMAIN u, NEW j \in DOMAIN u, u[i] = u[j] PROVE i = j
    <3>1. s[i + 1] = s[j + 1]
      BY <1>2, <2>1
    <3>2. i + 1 = j + 1
      BY <1>4, <1>8, <3>1 DEF Once
    <3>3. QED
      BY <1>4, <3>2
  <2>2. Head(s) \notin Elems(u)
    BY <1>2, <1>4, <1>5, <1>8 DEF Once, Elems
  <2>3. QED
    BY <2>1, <2>2 DEF Once
<1>9. QED
  BY <1>6, <1>7, <1>8 DEF u

(* A sequence without repetition has as many elements as positions. *)
LEMMA ElemsCounted ==
  ASSUME NEW S, NEW s \in Seq(S), Once(s)
  PROVE  Cardinality(Elems(s)) = Len(s)
<1>1. Len(s) \in Nat /\ DOMAIN s = 1..Len(s)
  OBVIOUS
<1>2. s \in [1..Len(s) -> Elems(s)]
  BY <1>1 DEF Elems
<1>3. s \in Bijection(1..Len(s), Elems(s))
  <2>1. s \in Injection(1..Len(s), Elems(s))
    BY <1>1, <1>2 DEF Once, Injection, IsInjective
  <2>2. s \in Surjection(1..Len(s), Elems(s))
    BY <1>1, <1>2 DEF Elems, Surjection
  <2>3. QED
    BY <2>1, <2>2 DEF Bijection
<1>4. ExistsBijection(1..Len(s), Elems(s))
  BY <1>3 DEF ExistsBijection
<1>5. QED
  BY <1>1, <1>4, FS_CountingElements

-----------------------------------------------------------------------------
(* Fresh chunks.                                                           *)

LEMMA LeastNat ==
  ASSUME NEW S, S \subseteq Nat, S # {}
  PROVE  \E m \in S : \A n \in S : m <= n
<1> DEFINE R == {ss \in Nat \X Nat : ss[1] < ss[2]}
<1>1. IsWellFoundedOn(R, Nat)
  BY NatLessThanWellFounded DEF OpToRel
<1> HIDE DEF R
<1>2. PICK m \in S : \A n \in S : ~ (<<n, m>> \in R)
  BY <1>1, WFMin
<1>3. ASSUME NEW n \in S PROVE m <= n
  <2>1. ~ (<<n, m>> \in R)
    BY <1>2
  <2>2. <<n, m>> \in Nat \X Nat
    OBVIOUS
  <2>3. ~ (n < m)
    BY <2>1, <2>2 DEF R
  <2>4. QED
    BY <2>3
<1>4. QED
  BY <1>3

LEMMA MallocFresh ==
  ASSUME NEW taken, Addr \ taken # {}
  PROVE  Malloc(taken) \in Addr \ taken
<1>1. Addr \ taken \subseteq Nat
  BY HeapAssumption DEF Addr
<1>2. QED
  BY <1>1, LeastNat DEF Malloc

LEMMA HeapFinite ==
  IsFiniteSet(Addr) /\ \A S : IsFiniteSet(Addr \ S) /\ Cardinality(Addr \ S) \in Nat
<1>1. IsFiniteSet(Addr)
  BY HeapAssumption, FS_Interval DEF Addr
<1>2. QED
  BY <1>1, FS_Subset, FS_CardinalityType

LEMMA RoomForOne ==
  ASSUME NEW S, Cardinality(Addr \ S) > 0
  PROVE  Malloc(S) \in Addr \ S
<1>1. Addr \ S # {}
  BY FS_EmptySet
<1>2. QED
  BY <1>1, MallocFresh

LEMMA OneLess ==
  ASSUME NEW S, NEW a \in Addr \ S
  PROVE  Cardinality(Addr \ (S \cup {a})) = Cardinality(Addr \ S) - 1
<1>1. Addr \ (S \cup {a}) = (Addr \ S) \ {a}
  OBVIOUS
<1>2. QED
  BY <1>1, HeapFinite, FS_RemoveElement

LEMMA Fresh1 ==
  ASSUME HasMemory(1)
  PROVE  Malloc(Used) \in Addr \ Used
<1>1. Cardinality(Addr \ Used) > 0
  BY HeapFinite DEF HasMemory
<1>2. QED
  BY <1>1, RoomForOne

LEMMA Fresh2 ==
  ASSUME HasMemory(2), NEW n, n = Malloc(Used), NEW t, t = Malloc(Used \cup {n})
  PROVE  n \in Addr \ Used /\ t \in Addr \ (Used \cup {n})
<1>1. Cardinality(Addr \ Used) >= 2 /\ Cardinality(Addr \ Used) \in Nat
  BY HeapFinite DEF HasMemory
<1>2. n \in Addr \ Used
  BY <1>1, RoomForOne
<1>3. Cardinality(Addr \ (Used \cup {n})) > 0
  BY <1>1, <1>2, OneLess
<1>4. QED
  BY <1>2, <1>3, RoomForOne

LEMMA Fresh3 ==
  ASSUME HasMemory(3), NEW n, n = Malloc(Used), NEW t, t = Malloc(Used \cup {n}),
         NEW l, l = Malloc(Used \cup {n, t})
  PROVE  n \in Addr \ Used /\ t \in Addr \ (Used \cup {n}) /\ l \in Addr \ (Used \cup {n, t})
<1>1. Cardinality(Addr \ Used) >= 3 /\ Cardinality(Addr \ Used) \in Nat
  BY HeapFinite DEF HasMemory
<1>2. n \in Addr \ Used
  BY <1>1, RoomForOne
<1>3. /\ Cardinality(Addr \ (Used \cup {n})) \in Nat
      /\ Cardinality(Addr \ (Used \cup {n})) > 0
      /\ Cardinality(Addr \ (Used \cup {n})) >= 2
  BY <1>1, <1>2, OneLess
<1>4. t \in Addr \ (Used \cup {n})
  BY <1>3, RoomForOne
<1>5. Cardinality(Addr \ ((Used \cup {n}) \cup {t})) > 0
  BY <1>3, <1>4, OneLess
<1>6. (Used \cup {n}) \cup {t} = Used \cup {n, t}
  OBVIOUS
<1>7. l \in Addr \ (Used \cup {n, t})
  BY <1>5, <1>6, RoomForOne
<1>8. QED
  BY <1>2, <1>4, <1>7

-----------------------------------------------------------------------------
(* Types.                                                                  *)

NodeChunks == [kind : {"node"}, name : Pointer, links : Pointer]
LinkChunks == [kind : {"link"}, fptr : Pointer, next : Pointer]
NameChunks == [kind : {"name"}, text : Names \cup {"root"}]
Chunks == {Free} \cup NodeChunks \cup LinkChunks \cup NameChunks

TypeOK ==
  /\ mem \in [Addr -> Chunks]
  /\ memory \in Seq(Addr)
  /\ passed \in Seq(Addr)
  /\ inUse \in [Addr -> BOOLEAN]
  /\ gc \in {"run", "mark", "sweep", "done", "exit", "crash"}
  /\ root \in Pointer
  /\ atEnd \in BOOLEAN
  /\ stack \in Seq(Pointer)
  /\ ops \in Nat

LEMMA Addresses == NULL \notin Addr /\ Addr \subseteq Pointer /\ NULL \in Pointer
BY HeapAssumption DEF NULL, Addr, Pointer

LEMMA Kinds ==
  ASSUME NEW x \in Chunks
  PROVE  /\ x.kind \in {"free", "node", "link", "name"}
         /\ x.kind = "free" <=> x = Free
         /\ x.kind = "node" => /\ x.name \in Pointer /\ x.links \in Pointer
                               /\ x \in NodeChunks
         /\ x.kind = "link" => /\ x.fptr \in Pointer /\ x.next \in Pointer
                               /\ x \in LinkChunks
BY DEF Chunks, Free, NodeChunks, LinkChunks, NameChunks

LEMMA NewChunks ==
  /\ \A n, l \in Pointer :
       /\ NodeAt(n, l) \in Chunks /\ NodeAt(n, l).kind = "node"
       /\ NodeAt(n, l).name = n /\ NodeAt(n, l).links = l
  /\ \A f, n \in Pointer :
       /\ LinkAt(f, n) \in Chunks /\ LinkAt(f, n).kind = "link"
       /\ LinkAt(f, n).fptr = f /\ LinkAt(f, n).next = n
  /\ \A t \in Names \cup {"root"} :
       NameAt(t) \in Chunks /\ NameAt(t).kind = "name"
BY DEF Chunks, NodeChunks, LinkChunks, NameChunks, NodeAt, LinkAt, NameAt

LEMMA Relinked ==
  /\ \A x \in NodeChunks, l \in Pointer :
       /\ [x EXCEPT !.links = l] \in Chunks
       /\ [x EXCEPT !.links = l].kind = "node"
       /\ [x EXCEPT !.links = l].name = x.name
       /\ [x EXCEPT !.links = l].links = l
  /\ \A x \in LinkChunks, n \in Pointer :
       /\ [x EXCEPT !.next = n] \in Chunks
       /\ [x EXCEPT !.next = n].kind = "link"
       /\ [x EXCEPT !.next = n].fptr = x.fptr
       /\ [x EXCEPT !.next = n].next = n
BY DEF Chunks, NodeChunks, LinkChunks

LEMMA ChunkKinds ==
  ASSUME TypeOK
  PROVE  /\ Used = {a \in Addr : mem[a].kind # "free"}
         /\ Nodes \subseteq Used /\ Links \subseteq Used
         /\ \A a \in Nodes : mem[a] \in NodeChunks /\ mem[a].name \in Pointer
                             /\ mem[a].links \in Pointer
         /\ \A a \in Links : mem[a] \in LinkChunks /\ mem[a].fptr \in Pointer
                             /\ mem[a].next \in Pointer
<1>1. \A a \in Addr : mem[a] \in Chunks
  BY DEF TypeOK
<1>2. \A a \in Addr : mem[a].kind = "free" <=> mem[a] = Free
  BY <1>1, Kinds
<1>3. Used = {a \in Addr : mem[a].kind # "free"}
  BY <1>2 DEF Used
<1>4. Nodes \subseteq Used /\ Links \subseteq Used
  BY <1>3 DEF Nodes, Links, ChunksOf
<1>5. QED
  BY <1>1, <1>3, <1>4, Kinds DEF Nodes, Links, ChunksOf

(* The records of the collector: every chunk is on one of its two lists,   *)
(* once, and nothing else is.                                              *)
RecordInv ==
  /\ Once(memory) /\ Once(passed)
  /\ Elems(memory) \cap Elems(passed) = {}
  /\ Elems(memory) \cup Elems(passed) = Used
  /\ gc # "sweep" => passed = <<>>

(* The pointers of a chunk lead where they should. *)
Leads(x) ==
  /\ x.kind = "node" => x.name \in ChunksOf("name") /\ To("link", x.links)
  /\ x.kind = "link" => x.fptr \in ChunksOf("node") /\ To("link", x.next)

PointersInv ==
  /\ \A a \in Addr : Stays(a) => Leads(mem[a])
  /\ To("node", root)

OnStack(b) == \E i \in DOMAIN stack : stack[i] = b

(* What is marked exists, and what it points to is marked as well, or will *)
(* be.                                                                     *)
MarkInv ==
  /\ gc \in {"mark", "sweep"} =>
       /\ root # NULL => inUse[root]
       /\ \A a \in Addr : inUse[a] => a \in Used
       /\ \A a \in Addr : inUse[a] => \A b \in Targets(a) : inUse[b] \/ OnStack(b)
  /\ gc # "mark" => stack = <<>>
  /\ \A i \in DOMAIN stack : To("link", stack[i])
  /\ \A a \in Elems(passed) : inUse[a]

-----------------------------------------------------------------------------
(* Transactions.                                                           *)

(* A chunk is allocated for every element of s. *)
LEMMA RecordAllocated ==
  ASSUME TypeOK, RecordInv, gc = "run",
         NEW s \in Seq(Addr), Once(s), Elems(s) \cap Used = {},
         memory' = s \o memory, UNCHANGED <<passed, gc>>,
         Used' = Used \cup Elems(s)
  PROVE  RecordInv' /\ memory' \in Seq(Addr)
<1>1. memory \in Seq(Addr) /\ Elems(s) \cap Elems(memory) = {}
  BY DEF TypeOK, RecordInv
<1>2. Elems(s \o memory) = Elems(s) \cup Elems(memory) /\ Once(s \o memory)
  BY <1>1, ElemsOfConcat DEF RecordInv
<1>3. s \o memory \in Seq(Addr)
  BY <1>1, ConcatProperties
<1>4. passed = <<>> /\ passed' = <<>>
  BY DEF RecordInv
<1>5. QED
  BY <1>2, <1>3, <1>4, ElemsOfEmpty DEF RecordInv

LEMMA Tuples ==
  /\ \A a \in Addr : /\ <<a>> \in Seq(Addr) /\ Elems(<<a>>) = {a}
                     /\ Once(<<a>>)
  /\ \A a, b \in Addr : a # b =>
       <<a, b>> \in Seq(Addr) /\ Elems(<<a, b>>) = {a, b} /\ Once(<<a, b>>)
<1>1. ASSUME NEW a \in Addr
      PROVE  <<a>> \in Seq(Addr) /\ Elems(<<a>>) = {a} /\ Once(<<a>>)
  <2>1. DOMAIN <<a>> = {1} /\ <<a>>[1] = a
    OBVIOUS
  <2>2. QED
    BY <2>1 DEF Elems, Once
<1>2. ASSUME NEW a \in Addr, NEW b \in Addr, a # b
      PROVE  <<a, b>> \in Seq(Addr) /\ Elems(<<a, b>>) = {a, b} /\ Once(<<a, b>>)
  <2>1. DOMAIN <<a, b>> = {1, 2} /\ <<a, b>>[1] = a /\ <<a, b>>[2] = b
    OBVIOUS
  <2>2. QED
    BY <1>2, <2>1 DEF Elems, Once
<1>3. QED
  BY <1>1, <1>2

LEMMA TupleOfThree ==
  ASSUME NEW a \in Addr, NEW b \in Addr, NEW c \in Addr, a # b, a # c, b # c
  PROVE  /\ <<a, b, c>> \in Seq(Addr) /\ Elems(<<a, b, c>>) = {a, b, c}
         /\ Once(<<a, b, c>>)
<1>1. /\ DOMAIN <<a, b, c>> = {1, 2, 3}
      /\ <<a, b, c>>[1] = a /\ <<a, b, c>>[2] = b /\ <<a, b, c>>[3] = c
  OBVIOUS
<1>2. <<a, b, c>> \in Seq(Addr)
  OBVIOUS
<1>3. QED
  BY <1>1, <1>2 DEF Elems, Once

(* What the invariant becomes when the program runs. *)
LEMMA MarkRunning ==
  ASSUME RecordInv, MarkInv, gc = "run", gc' \notin {"mark", "sweep"},
         UNCHANGED <<passed, stack>>
  PROVE  MarkInv'
<1>1. passed = <<>> /\ stack = <<>>
  BY DEF RecordInv, MarkInv
<1>2. DOMAIN stack' = {} /\ Elems(passed') = {}
  BY <1>1, ElemsOfEmpty
<1>3. QED
  BY <1>1, <1>2 DEF MarkInv

LEMMA KindsKept ==
  ASSUME TypeOK, PointersInv, gc = "run",
         mem' \in [Addr -> Chunks],
         \A a \in Used : mem'[a].kind = mem[a].kind
  PROVE  /\ Nodes \subseteq Nodes' /\ Links \subseteq Links'
         /\ ChunksOf("name") \subseteq ChunksOf("name")'
         /\ ChunksOf("node") \subseteq ChunksOf("node")'
         /\ ChunksOf("link") \subseteq ChunksOf("link")'
         /\ Used \subseteq Used'
         /\ \A p : To("link", p) => To("link", p)'
         /\ \A p : To("node", p) => To("node", p)'
         /\ \A a \in Addr : mem'[a] = mem[a] => Leads(mem[a])'
<1>1. Used = {a \in Addr : mem[a].kind # "free"}
  BY ChunkKinds
<1>2. Used' = {a \in Addr : mem'[a].kind # "free"}
  <2>1. \A a \in Addr : mem'[a].kind = "free" <=> mem'[a] = Free
    BY Kinds
  <2>2. QED
    BY <2>1 DEF Used
<1>3. \A a \in Addr : mem[a].kind # "free" => mem'[a].kind = mem[a].kind
  BY <1>1
<1>4. Used \subseteq Used'
  BY <1>1, <1>2, <1>3
<1>5. /\ ChunksOf("name") \subseteq ChunksOf("name")'
      /\ ChunksOf("node") \subseteq ChunksOf("node")'
      /\ ChunksOf("link") \subseteq ChunksOf("link")'
  BY <1>3 DEF ChunksOf
<1>6. /\ \A p : To("link", p) => To("link", p)'
      /\ \A p : To("node", p) => To("node", p)'
  BY <1>5 DEF To
<1>7. ASSUME NEW a \in Addr, mem'[a] = mem[a] PROVE Leads(mem[a])'
  <2>1. Leads(mem[a])
    BY DEF PointersInv, Stays
  <2>2. PICK x : x = mem[a]
    OBVIOUS
  <2>3. /\ x.kind = "node" => x.name \in ChunksOf("name") /\ To("link", x.links)
        /\ x.kind = "link" => x.fptr \in ChunksOf("node") /\ To("link", x.next)
    BY <2>1, <2>2 DEF Leads
  <2>4. /\ x.kind = "node" => x.name \in ChunksOf("name")' /\ To("link", x.links)'
        /\ x.kind = "link" => x.fptr \in ChunksOf("node")' /\ To("link", x.next)'
    BY <1>5, <1>6, <2>3
  <2>5. x = mem'[a]
    BY <1>7, <2>2
  <2>6. QED
    BY <2>4, <2>5 DEF Leads
<1>8. QED
  BY <1>4, <1>5, <1>6, <1>7 DEF Nodes, Links

Inv == TypeOK /\ RecordInv /\ PointersInv /\ MarkInv

(* main: root = create_node("root"). *)
LEMMA CreateRootEffect ==
  ASSUME TypeOK, CreateRoot, HasMemory(2)
  PROVE  \E n \in Addr \ Used : \E t \in Addr \ Used :
           /\ t # n
           /\ mem' \in [Addr -> Chunks]
           /\ mem'[n].kind = "node" /\ mem'[n].name = t /\ mem'[n].links = NULL
           /\ mem'[t].kind = "name"
           /\ \A a \in Addr \ {n, t} : mem'[a] = mem[a]
           /\ Used' = Used \cup {t, n}
           /\ memory' = <<t, n>> \o memory
           /\ inUse' \in [Addr -> BOOLEAN]
           /\ root' = n
<1>1. PICK n, t : n = Malloc(Used) /\ t = Malloc(Used \cup {n})
  OBVIOUS
<1>2. n \in Addr \ Used /\ t \in Addr \ (Used \cup {n})
  BY <1>1, Fresh2
<1>3. /\ Allocate(<<t, n>>,
              [mem EXCEPT ![n] = NodeAt(t, NULL), ![t] = NameAt("root")])
      /\ root' = n
  BY <1>1 DEF CreateRoot
<1>4. memory' = <<t, n>> \o memory /\ inUse' \in [Addr -> BOOLEAN]
  BY <1>3 DEF Allocate, Recorded, TypeOK
<1>5. /\ mem' = [mem EXCEPT ![n] = NodeAt(t, NULL), ![t] = NameAt("root")]
      /\ mem \in [Addr -> Chunks]
  BY <1>3 DEF Allocate, TypeOK
<1>6. /\ t # n /\ n \in Addr /\ t \in Addr
      /\ mem'[n] = NodeAt(t, NULL) /\ mem'[t] = NameAt("root")
      /\ \A a \in Addr \ {n, t} : mem'[a] = mem[a]
      /\ DOMAIN mem' = Addr /\ mem' = [a \in Addr |-> mem'[a]]
  BY <1>2, <1>5
<1>7. /\ NodeAt(t, NULL) \in Chunks /\ NodeAt(t, NULL).kind = "node"
      /\ NodeAt(t, NULL).name = t /\ NodeAt(t, NULL).links = NULL
      /\ NameAt("root") \in Chunks /\ NameAt("root").kind = "name"
  BY <1>6, NewChunks, Addresses
<1>8. mem' \in [Addr -> Chunks]
  <2>1. \A a \in Addr : mem'[a] \in Chunks
    BY <1>5, <1>6, <1>7
  <2>2. QED
    BY <1>6, <2>1
<1>9. Used' = Used \cup {t, n}
  <2>1. \A a \in Addr : mem'[a].kind = "free" <=> mem'[a] = Free
    BY <1>8, Kinds
  <2>2. mem'[n] # Free /\ mem'[t] # Free
    BY <1>6, <1>7, <2>1
  <2>3. QED
    BY <1>6, <2>2 DEF Used
<1>10. QED
  BY <1>2, <1>3, <1>4, <1>6, <1>7, <1>8, <1>9

LEMMA CreateRootKeepsInv ==
  ASSUME Inv, CreateRoot, HasMemory(2)
  PROVE  Inv'
<1>1. TypeOK /\ RecordInv /\ PointersInv /\ MarkInv /\ gc = "run"
  BY DEF Inv, CreateRoot
<1>2. PICK n \in Addr \ Used, t \in Addr \ Used :
        /\ t # n
        /\ mem' \in [Addr -> Chunks]
        /\ mem'[n].kind = "node" /\ mem'[n].name = t /\ mem'[n].links = NULL
        /\ mem'[t].kind = "name"
        /\ \A a \in Addr \ {n, t} : mem'[a] = mem[a]
        /\ Used' = Used \cup {t, n}
        /\ memory' = <<t, n>> \o memory
        /\ inUse' \in [Addr -> BOOLEAN]
        /\ root' = n
  BY <1>1, CreateRootEffect
<1>3. UNCHANGED <<passed, gc, atEnd, stack, ops>>
  BY DEF CreateRoot, Allocate
<1>4. \A a \in Used : mem'[a].kind = mem[a].kind
  BY <1>2 DEF Used
<1>5. /\ ChunksOf("name") \subseteq ChunksOf("name")'
      /\ \A a \in Addr : mem'[a] = mem[a] => Leads(mem[a])'
  BY <1>1, <1>2, <1>4, KindsKept
<1>6. t \in ChunksOf("name")' /\ n \in ChunksOf("node")' /\ To("node", root)'
  BY <1>2 DEF ChunksOf, To
<1>7. PointersInv'
  <2>1. Leads(mem[n])'
    BY <1>2, <1>6 DEF Leads, To
  <2>2. Leads(mem[t])'
    BY <1>2 DEF Leads
  <2>3. \A a \in Addr : Leads(mem[a])'
    BY <1>2, <1>5, <2>1, <2>2
  <2>4. QED
    BY <1>6, <2>3 DEF PointersInv
<1>8. RecordInv' /\ memory' \in Seq(Addr)
  <2>1. PICK s : s = <<t, n>>
    OBVIOUS
  <2>2. s \in Seq(Addr) /\ Once(s) /\ Elems(s) = {t, n} /\ memory' = s \o memory
    <3>1. <<t, n>> \in Seq(Addr) /\ Elems(<<t, n>>) = {t, n} /\ Once(<<t, n>>)
      BY <1>2, Tuples
    <3>2. QED
      BY <1>2, <2>1, <3>1, Zenon
  <2>3. Elems(s) \cap Used = {} /\ Used' = Used \cup Elems(s)
    BY <1>2, <2>2
  <2>4. QED
    BY <1>1, <1>3, <2>2, <2>3, RecordAllocated
<1>9. MarkInv'
  BY <1>1, <1>3, MarkRunning
<1>10. TypeOK'
  <2>1. root' \in Pointer
    BY <1>2, Addresses
  <2>2. QED
    BY <1>1, <1>2, <1>3, <1>8, <2>1 DEF TypeOK
<1>11. QED
  BY <1>7, <1>8, <1>9, <1>10 DEF Inv

(* add_node at node fp, with the new node n, its name t and its link l. *)
NodeAdded(fp, nm, n, t, l) ==
  /\ HasMemory(3)
  /\ n = Malloc(Used) /\ t = Malloc(Used \cup {n}) /\ l = Malloc(Used \cup {n, t})
  /\ Allocate(<<l, t, n>>,
       [mem EXCEPT ![n] = NodeAt(t, NULL), ![t] = NameAt(nm),
                   ![l] = LinkAt(n, mem[fp].links), ![fp].links = l])

LEMMA AddNodeEffect ==
  ASSUME TypeOK, NEW nm \in Names, NEW fp \in Nodes,
         NEW n, NEW t, NEW l, NodeAdded(fp, nm, n, t, l)
  PROVE  /\ n \in Addr \ Used /\ t \in Addr \ Used /\ l \in Addr \ Used /\ fp \in Used
         /\ n # t /\ l # n /\ l # t
         /\ mem' \in [Addr -> Chunks]
         /\ mem'[n].kind = "node" /\ mem'[n].name = t /\ mem'[n].links = NULL
         /\ mem'[t].kind = "name"
         /\ mem'[l].kind = "link" /\ mem'[l].fptr = n /\ mem'[l].next = mem[fp].links
         /\ mem[fp].kind = "node" /\ mem'[fp].kind = "node"
         /\ mem'[fp].name = mem[fp].name /\ mem'[fp].links = l
         /\ \A a \in Addr \ {n, t, l, fp} : mem'[a] = mem[a]
         /\ Used' = Used \cup {l, t, n}
<1>1. n \in Addr \ Used /\ t \in Addr \ (Used \cup {n}) /\ l \in Addr \ (Used \cup {n, t})
  BY Fresh3 DEF NodeAdded
<1>2. /\ mem \in [Addr -> Chunks]
      /\ mem' = [mem EXCEPT ![n] = NodeAt(t, NULL), ![t] = NameAt(nm),
                           ![l] = LinkAt(n, mem[fp].links), ![fp].links = l]
  BY DEF NodeAdded, Allocate, TypeOK
<1>3. fp \in Used /\ mem[fp] \in NodeChunks /\ mem[fp].links \in Pointer
  BY ChunkKinds
<1>4. /\ t # n /\ l # n /\ l # t /\ fp \notin {n, t, l}
      /\ n \in Addr /\ t \in Addr /\ l \in Addr /\ fp \in Addr
  BY <1>1, <1>3 DEF Used
<1>5. PICK old : old = mem[fp]
  OBVIOUS
<1> DEFINE relinked == [old EXCEPT !.links = l]
           link == LinkAt(n, old.links)
<1>6. /\ mem'[n] = NodeAt(t, NULL) /\ mem'[t] = NameAt(nm)
      /\ mem'[l] = link
      /\ mem'[fp] = relinked
      /\ \A a \in Addr \ {n, t, l, fp} : mem'[a] = mem[a]
      /\ mem' = [a \in Addr |-> mem'[a]]
  BY <1>2, <1>4, <1>5
<1>7. /\ NodeAt(t, NULL) \in Chunks /\ NodeAt(t, NULL).kind = "node"
      /\ NodeAt(t, NULL).name = t /\ NodeAt(t, NULL).links = NULL
      /\ NameAt(nm) \in Chunks /\ NameAt(nm).kind = "name"
  BY <1>4, NewChunks, Addresses
<1>8. link \in Chunks /\ link.kind = "link" /\ link.fptr = n /\ link.next = old.links
  BY <1>3, <1>4, <1>5, NewChunks, Addresses
<1>9. /\ relinked \in Chunks /\ relinked.kind = "node"
      /\ relinked.name = old.name /\ relinked.links = l
      /\ old.kind = "node"
  <2>1. l \in Pointer /\ old \in NodeChunks
    BY <1>3, <1>4, <1>5, Addresses
  <2>2. QED
    BY <2>1, Relinked DEF NodeChunks
<1> HIDE DEF link, relinked
<1>10. mem' \in [Addr -> Chunks]
  <2>1. \A a \in Addr : mem'[a] \in Chunks
    BY <1>2, <1>6, <1>7, <1>8, <1>9
  <2>2. QED
    BY <1>6, <2>1
<1>11. Used' = Used \cup {l, t, n}
  <2>1. \A a \in Addr : mem'[a].kind = "free" <=> mem'[a] = Free
    BY <1>10, Kinds
  <2>2. mem'[n] # Free /\ mem'[t] # Free /\ mem'[l] # Free /\ mem'[fp] # Free
    BY <1>4, <1>6, <1>7, <1>8, <1>9, <2>1
  <2>3. QED
    BY <1>3, <1>4, <1>6, <2>2 DEF Used
<1>12. QED
  BY <1>1, <1>3, <1>4, <1>5, <1>6, <1>7, <1>8, <1>9, <1>10, <1>11

LEMMA AddNodeKeepsInv ==
  ASSUME Inv, gc = "run", NEW nm \in Names, NEW fp \in Nodes,
         NEW n, NEW t, NEW l, NodeAdded(fp, nm, n, t, l),
         ops' = ops + 1, UNCHANGED <<root, atEnd, stack>>
  PROVE  Inv'
<1>1. TypeOK /\ RecordInv /\ PointersInv /\ MarkInv
  BY DEF Inv
<1>2. /\ n \in Addr \ Used /\ t \in Addr \ Used /\ l \in Addr \ Used /\ fp \in Used
      /\ n # t /\ l # n /\ l # t
      /\ mem' \in [Addr -> Chunks]
      /\ mem'[n].kind = "node" /\ mem'[n].name = t /\ mem'[n].links = NULL
      /\ mem'[t].kind = "name"
      /\ mem'[l].kind = "link" /\ mem'[l].fptr = n /\ mem'[l].next = mem[fp].links
      /\ mem[fp].kind = "node" /\ mem'[fp].kind = "node"
      /\ mem'[fp].name = mem[fp].name /\ mem'[fp].links = l
      /\ \A a \in Addr \ {n, t, l, fp} : mem'[a] = mem[a]
      /\ Used' = Used \cup {l, t, n}
  BY <1>1, AddNodeEffect
<1>3. /\ memory' = <<l, t, n>> \o memory
      /\ inUse' \in [Addr -> BOOLEAN]
      /\ UNCHANGED <<passed, gc>>
  BY <1>1 DEF NodeAdded, Allocate, Recorded, TypeOK
<1>4. PICK old : old = mem[fp]
  OBVIOUS
<1>5. \A a \in Used : mem'[a].kind = mem[a].kind
  BY <1>2 DEF Used
<1>6. /\ ChunksOf("name") \subseteq ChunksOf("name")'
      /\ \A p : To("link", p) => To("link", p)'
      /\ \A p : To("node", p) => To("node", p)'
      /\ \A a \in Addr : mem'[a] = mem[a] => Leads(mem[a])'
  BY <1>1, <1>2, <1>5, KindsKept
<1>7. t \in ChunksOf("name")' /\ n \in ChunksOf("node")' /\ l \in ChunksOf("link")'
  BY <1>2 DEF ChunksOf
<1>8. old.name \in ChunksOf("name")' /\ To("link", old.links)'
  <2>1. Leads(mem[fp])
    BY <1>1, <1>2 DEF PointersInv, Stays, Used
  <2>2. old.name \in ChunksOf("name") /\ To("link", old.links)
    BY <1>2, <1>4, <2>1 DEF Leads
  <2>3. QED
    BY <1>6, <2>2
<1>9. PointersInv'
  <2>1. Leads(mem[n])'
    BY <1>2, <1>7 DEF Leads, To
  <2>2. Leads(mem[t])'
    BY <1>2 DEF Leads
  <2>3. Leads(mem[l])'
    BY <1>2, <1>4, <1>7, <1>8 DEF Leads, To
  <2>4. Leads(mem[fp])'
    BY <1>2, <1>4, <1>7, <1>8 DEF Leads, To
  <2>5. \A a \in Addr : Leads(mem[a])'
    BY <1>2, <1>6, <2>1, <2>2, <2>3, <2>4
  <2>6. To("node", root)'
    <3>1. PICK r : r = root
      OBVIOUS
    <3>2. To("node", r)
      BY <1>1, <3>1 DEF PointersInv
    <3>3. To("node", r)'
      BY <1>6, <3>2
    <3>4. QED
      BY <3>1, <3>3 DEF To
  <2>7. QED
    BY <2>5, <2>6 DEF PointersInv
<1>10. RecordInv' /\ memory' \in Seq(Addr)
  <2>1. PICK s : s = <<l, t, n>>
    OBVIOUS
  <2>2. s \in Seq(Addr) /\ Once(s) /\ Elems(s) = {l, t, n} /\ memory' = s \o memory
    <3>1. /\ <<l, t, n>> \in Seq(Addr) /\ Elems(<<l, t, n>>) = {l, t, n}
          /\ Once(<<l, t, n>>)
      BY <1>2, TupleOfThree
    <3>2. QED
      BY <1>3, <2>1, <3>1, Zenon
  <2>3. Elems(s) \cap Used = {} /\ Used' = Used \cup Elems(s)
    BY <1>2, <2>2
  <2>4. QED
    BY <1>1, <1>3, <2>2, <2>3, RecordAllocated
<1>11. MarkInv'
  BY <1>1, <1>3, MarkRunning
<1>12. TypeOK'
  BY <1>1, <1>2, <1>3, <1>10 DEF TypeOK
<1>13. QED
  BY <1>9, <1>10, <1>11, <1>12 DEF Inv

(* add_hard_link, at node destp, to node fp. *)
LEMMA AddHardLinkEffect ==
  ASSUME TypeOK, HasMemory(1), NEW fp \in Nodes, NEW destp \in Nodes,
         NEW l, l = Malloc(Used),
         Allocate(<<l>>, [mem EXCEPT ![l] = LinkAt(fp, mem[destp].links),
                                     ![destp].links = l])
  PROVE  /\ l \in Addr \ Used /\ destp \in Used
         /\ fp \in Addr /\ fp \in ChunksOf("node")
         /\ mem' \in [Addr -> Chunks]
         /\ mem'[l].kind = "link" /\ mem'[l].fptr = fp /\ mem'[l].next = mem[destp].links
         /\ mem[destp].kind = "node" /\ mem'[destp].kind = "node"
         /\ mem'[destp].name = mem[destp].name /\ mem'[destp].links = l
         /\ \A a \in Addr \ {l, destp} : mem'[a] = mem[a]
         /\ Used' = Used \cup {l}
<1>1. l \in Addr \ Used
  BY Fresh1
<1>2. /\ mem \in [Addr -> Chunks]
      /\ mem' = [mem EXCEPT ![l] = LinkAt(fp, mem[destp].links),
                            ![destp].links = l]
  BY DEF Allocate, TypeOK
<1>3. destp \in Used /\ mem[destp] \in NodeChunks /\ mem[destp].links \in Pointer
  BY ChunkKinds
<1>4. destp # l /\ l \in Addr /\ destp \in Addr /\ fp \in Addr /\ fp \in ChunksOf("node")
  BY <1>1, <1>3 DEF Used, Nodes, ChunksOf
<1>5. PICK old : old = mem[destp]
  OBVIOUS
<1> DEFINE relinked == [old EXCEPT !.links = l]
           link == LinkAt(fp, old.links)
<1>6. /\ mem'[l] = link
      /\ mem'[destp] = relinked
      /\ \A a \in Addr \ {l, destp} : mem'[a] = mem[a]
      /\ mem' = [a \in Addr |-> mem'[a]]
  BY <1>2, <1>4, <1>5
<1>7. link \in Chunks /\ link.kind = "link" /\ link.fptr = fp /\ link.next = old.links
  BY <1>3, <1>4, <1>5, NewChunks, Addresses
<1>8. /\ relinked \in Chunks /\ relinked.kind = "node"
      /\ relinked.name = old.name /\ relinked.links = l
      /\ old.kind = "node"
  <2>1. l \in Pointer /\ old \in NodeChunks
    BY <1>3, <1>4, <1>5, Addresses
  <2>2. QED
    BY <2>1, Relinked DEF NodeChunks
<1> HIDE DEF link, relinked
<1>9. mem' \in [Addr -> Chunks]
  <2>1. \A a \in Addr : mem'[a] \in Chunks
    BY <1>2, <1>6, <1>7, <1>8
  <2>2. QED
    BY <1>6, <2>1
<1>10. Used' = Used \cup {l}
  <2>1. \A a \in Addr : mem'[a].kind = "free" <=> mem'[a] = Free
    BY <1>9, Kinds
  <2>2. mem'[l] # Free /\ mem'[destp] # Free
    BY <1>4, <1>6, <1>7, <1>8, <2>1
  <2>3. QED
    BY <1>3, <1>4, <1>6, <2>2 DEF Used
<1>11. QED
  BY <1>1, <1>3, <1>4, <1>5, <1>6, <1>7, <1>8, <1>9, <1>10

LEMMA AddHardLinkKeepsInv ==
  ASSUME Inv, gc = "run", HasMemory(1), NEW fp \in Nodes, NEW destp \in Nodes,
         NEW l, l = Malloc(Used),
         Allocate(<<l>>, [mem EXCEPT ![l] = LinkAt(fp, mem[destp].links),
                                     ![destp].links = l]),
         ops' = ops + 1, UNCHANGED <<root, atEnd, stack>>
  PROVE  Inv'
<1>1. TypeOK /\ RecordInv /\ PointersInv /\ MarkInv
  BY DEF Inv
<1>2. /\ l \in Addr \ Used /\ destp \in Used
      /\ fp \in Addr /\ fp \in ChunksOf("node")
      /\ mem' \in [Addr -> Chunks]
      /\ mem'[l].kind = "link" /\ mem'[l].fptr = fp /\ mem'[l].next = mem[destp].links
      /\ mem[destp].kind = "node" /\ mem'[destp].kind = "node"
      /\ mem'[destp].name = mem[destp].name /\ mem'[destp].links = l
      /\ \A a \in Addr \ {l, destp} : mem'[a] = mem[a]
      /\ Used' = Used \cup {l}
  BY <1>1, AddHardLinkEffect
<1>3. /\ memory' = <<l>> \o memory
      /\ inUse' \in [Addr -> BOOLEAN]
      /\ UNCHANGED <<passed, gc>>
  BY <1>1 DEF Allocate, Recorded, TypeOK
<1>4. PICK old : old = mem[destp]
  OBVIOUS
<1>5. \A a \in Used : mem'[a].kind = mem[a].kind
  BY <1>2 DEF Used
<1>6. /\ ChunksOf("name") \subseteq ChunksOf("name")'
      /\ ChunksOf("node") \subseteq ChunksOf("node")'
      /\ \A p : To("link", p) => To("link", p)'
      /\ \A p : To("node", p) => To("node", p)'
      /\ \A a \in Addr : mem'[a] = mem[a] => Leads(mem[a])'
  BY <1>1, <1>2, <1>5, KindsKept
<1>7. l \in ChunksOf("link")' /\ fp \in ChunksOf("node")'
  BY <1>2, <1>6 DEF ChunksOf
<1>8. old.name \in ChunksOf("name")' /\ To("link", old.links)'
  <2>1. Leads(mem[destp])
    BY <1>1, <1>2 DEF PointersInv, Stays, Used
  <2>2. old.name \in ChunksOf("name") /\ To("link", old.links)
    BY <1>2, <1>4, <2>1 DEF Leads
  <2>3. QED
    BY <1>6, <2>2
<1>9. PointersInv'
  <2>1. Leads(mem[l])'
    BY <1>2, <1>4, <1>7, <1>8 DEF Leads, To
  <2>2. Leads(mem[destp])'
    BY <1>2, <1>4, <1>7, <1>8 DEF Leads, To
  <2>3. \A a \in Addr : Leads(mem[a])'
    BY <1>2, <1>6, <2>1, <2>2
  <2>4. To("node", root)'
    <3>1. PICK r : r = root
      OBVIOUS
    <3>2. To("node", r)
      BY <1>1, <3>1 DEF PointersInv
    <3>3. To("node", r)'
      BY <1>6, <3>2
    <3>4. QED
      BY <3>1, <3>3 DEF To
  <2>5. QED
    BY <2>3, <2>4 DEF PointersInv
<1>10. RecordInv' /\ memory' \in Seq(Addr)
  <2>1. PICK s : s = <<l>>
    OBVIOUS
  <2>2. s \in Seq(Addr) /\ Once(s) /\ Elems(s) = {l} /\ memory' = s \o memory
    <3>1. <<l>> \in Seq(Addr) /\ Elems(<<l>>) = {l} /\ Once(<<l>>)
      BY <1>2, Tuples, Zenon
    <3>2. QED
      BY <1>3, <2>1, <3>1, Zenon
  <2>3. Elems(s) \cap Used = {} /\ Used' = Used \cup Elems(s)
    BY <1>2, <2>2
  <2>4. QED
    BY <1>1, <1>3, <2>2, <2>3, RecordAllocated
<1>11. MarkInv'
  BY <1>1, <1>3, MarkRunning
<1>12. TypeOK'
  BY <1>1, <1>2, <1>3, <1>10 DEF TypeOK
<1>13. QED
  BY <1>9, <1>10, <1>11, <1>12 DEF Inv

(* What unlinking does to chunk a: nothing, or its first link, or the link *)
(* after it, is gone.                                                      *)
Unlinking(m, a) ==
  \/ m[a] = mem[a]
  \/ /\ mem[a].kind = "node" /\ m[a].kind = "node" /\ m[a].name = mem[a].name
     /\ mem[a].links \in Links /\ m[a].links = mem[mem[a].links].next
  \/ /\ mem[a].kind = "link" /\ m[a].kind = "link" /\ m[a].fptr = mem[a].fptr
     /\ mem[a].next \in Links /\ m[a].next = mem[mem[a].next].next

(* The link after "prev" is unlinked. *)
LEMMA UnlinkNext ==
  ASSUME TypeOK, NEW m \in [Addr -> Chunks], \A a \in Addr : Unlinking(m, a),
         NEW prev \in Links, m[prev] = mem[prev], mem[prev].next \in Links,
         NEW mm, mm = [m EXCEPT ![prev].next = mem[mem[prev].next].next]
  PROVE  mm \in [Addr -> Chunks] /\ \A a \in Addr : Unlinking(mm, a)
<1>1. PICK x : x = mem[mem[prev].next].next
  OBVIOUS
<1>2. x \in Pointer /\ prev \in Addr /\ mem[prev] \in LinkChunks
  BY <1>1, ChunkKinds DEF Links, ChunksOf
<1>3. PICK old : old = mem[prev]
  OBVIOUS
<1> DEFINE new == [old EXCEPT !.next = x]
<1>4. /\ new \in Chunks /\ new.kind = "link" /\ new.fptr = old.fptr /\ new.next = x
      /\ old.kind = "link"
  BY <1>2, <1>3, Relinked DEF LinkChunks
<1>5. mm = [m EXCEPT ![prev] = new]
  BY <1>1, <1>3
<1> HIDE DEF new
<1>6. /\ mm = [a \in Addr |-> mm[a]]
      /\ mm[prev] = new /\ \A a \in Addr \ {prev} : mm[a] = m[a]
  BY <1>2, <1>5
<1>7. \A a \in Addr : mm[a] \in Chunks
  BY <1>4, <1>6
<1>8. Unlinking(mm, prev)
  BY <1>1, <1>3, <1>4, <1>6 DEF Unlinking
<1>9. \A a \in Addr \ {prev} : Unlinking(mm, a)
  BY <1>6 DEF Unlinking
<1>10. mm \in [Addr -> Chunks]
  BY <1>6, <1>7
<1>11. QED
  BY <1>8, <1>9, <1>10

(* The first link of node fp is unlinked. *)
LEMMA UnlinkFirst ==
  ASSUME TypeOK, NEW fp \in Nodes, mem[fp].links \in Links,
         NEW mm, mm = [mem EXCEPT ![fp].links = mem[mem[fp].links].next]
  PROVE  /\ mm \in [Addr -> Chunks] /\ \A a \in Addr : Unlinking(mm, a)
         /\ \A a \in Links : mm[a] = mem[a]
<1>1. PICK x : x = mem[mem[fp].links].next
  OBVIOUS
<1>2. x \in Pointer /\ fp \in Addr /\ mem[fp] \in NodeChunks /\ mem \in [Addr -> Chunks]
  BY <1>1, ChunkKinds DEF Nodes, ChunksOf, TypeOK
<1>3. PICK old : old = mem[fp]
  OBVIOUS
<1> DEFINE new == [old EXCEPT !.links = x]
<1>4. /\ new \in Chunks /\ new.kind = "node" /\ new.name = old.name /\ new.links = x
      /\ old.kind = "node"
  BY <1>2, <1>3, Relinked DEF NodeChunks
<1>5. mm = [mem EXCEPT ![fp] = new]
  BY <1>1, <1>3
<1> HIDE DEF new
<1>6. /\ mm = [a \in Addr |-> mm[a]]
      /\ mm[fp] = new /\ \A a \in Addr \ {fp} : mm[a] = mem[a]
  BY <1>2, <1>5
<1>7. \A a \in Addr : mm[a] \in Chunks
  BY <1>2, <1>4, <1>6
<1>8. Unlinking(mm, fp)
  BY <1>1, <1>3, <1>4, <1>6 DEF Unlinking
<1>9. \A a \in Addr \ {fp} : Unlinking(mm, a)
  BY <1>6 DEF Unlinking
<1>10. \A a \in Links : a \in Addr /\ a # fp
  BY <1>3, <1>4 DEF Links, ChunksOf
<1>11. mm \in [Addr -> Chunks]
  BY <1>6, <1>7
<1>12. \A a \in Links : mm[a] = mem[a]
  BY <1>6, <1>10
<1>13. \A a \in Addr : Unlinking(mm, a)
  BY <1>8, <1>9
<1>14. QED
  BY <1>11, <1>12, <1>13

LEMMA RemoveNodeEffect ==
  ASSUME TypeOK, PointersInv, NEW path \in Paths, NEW nm \in Names, RemoveNode(path, nm)
  PROVE  mem' \in [Addr -> Chunks] /\ \A a \in Addr : Unlinking(mem', a)
<1>1. PICK fp \in Nodes \cap {FindNode(path)} :
        \/ mem[fp].links = NULL /\ UNCHANGED mem
        \/ \E first \in Links \cap {mem[fp].links} :
           \E prev \in Links \cap {Before(first, nm)} :
             LET next == mem[prev].next
                 unlinked == IF ChildName(first) = nm
                             THEN [mem EXCEPT ![fp].links = mem[first].next]
                             ELSE mem
             IN mem' = IF next = NULL THEN unlinked
                       ELSE [unlinked EXCEPT ![prev].next = mem[next].next]
  BY DEF RemoveNode
<1>2. gc = "run" /\ mem \in [Addr -> Chunks]
  BY DEF RemoveNode, Transaction, TypeOK
<1>3. \A l \in Links : mem[l].next = NULL \/ mem[l].next \in Links
  BY <1>2 DEF PointersInv, Stays, Leads, To, Links, ChunksOf
<1>4. CASE UNCHANGED mem
  BY <1>2, <1>4 DEF Unlinking
<1>5. ASSUME NEW prev \in Links, NEW unlinked, mem[fp].links \in Links,
             unlinked = mem \/ unlinked = [mem EXCEPT ![fp].links = mem[mem[fp].links].next],
             mem' = IF mem[prev].next = NULL THEN unlinked
                    ELSE [unlinked EXCEPT ![prev].next = mem[mem[prev].next].next]
      PROVE  mem' \in [Addr -> Chunks] /\ \A a \in Addr : Unlinking(mem', a)
  <2>1. /\ unlinked \in [Addr -> Chunks] /\ \A a \in Addr : Unlinking(unlinked, a)
        /\ \A a \in Links : unlinked[a] = mem[a]
    <3>1. CASE unlinked = mem
      BY <1>2, <3>1 DEF Unlinking
    <3>2. CASE unlinked = [mem EXCEPT ![fp].links = mem[mem[fp].links].next]
      BY <1>5, <3>2, UnlinkFirst
    <3>3. QED
      BY <1>5, <3>1, <3>2
  <2>2. CASE mem[prev].next = NULL
    <3>1. mem' = unlinked
      BY <1>5, <2>2
    <3>2. QED
      BY <2>1, <3>1
  <2>3. CASE mem[prev].next # NULL
    <3>1. PICK mm : mm = [unlinked EXCEPT ![prev].next = mem[mem[prev].next].next]
      OBVIOUS
    <3>2. mm \in [Addr -> Chunks] /\ \A a \in Addr : Unlinking(mm, a)
      BY <1>3, <2>1, <2>3, <3>1, UnlinkNext
    <3>3. mem' = mm
      BY <1>5, <2>3, <3>1
    <3>4. QED
      BY <3>2, <3>3
  <2>4. QED
    BY <2>2, <2>3
<1>6. QED
  BY <1>1, <1>4, <1>5

LEMMA RemoveNodeKeepsInv ==
  ASSUME Inv, NEW path \in Paths, NEW nm \in Names, RemoveNode(path, nm)
  PROVE  Inv'
<1>1. /\ TypeOK /\ RecordInv /\ PointersInv /\ MarkInv /\ gc = "run"
      /\ UNCHANGED <<memory, passed, inUse, gc, root, atEnd, stack>>
      /\ ops' = ops + 1
  BY DEF Inv, RemoveNode, Transaction
<1>2. mem' \in [Addr -> Chunks] /\ \A a \in Addr : Unlinking(mem', a)
  BY <1>1, RemoveNodeEffect
<1>3. \A a \in Addr : mem'[a].kind = mem[a].kind
  BY <1>2 DEF Unlinking
<1>4. /\ ChunksOf("name")' = ChunksOf("name") /\ ChunksOf("node")' = ChunksOf("node")
      /\ ChunksOf("link")' = ChunksOf("link")
  BY <1>3 DEF ChunksOf
<1>5. \A a \in Addr : Leads(mem[a])
  BY <1>1 DEF PointersInv, Stays
<1>6. \A l \in Links : To("link", mem[l].next)
  BY <1>5 DEF Leads, Links, ChunksOf
<1>7. ASSUME NEW a \in Addr PROVE Leads(mem'[a])
  <2>1. CASE mem'[a] = mem[a]
    BY <1>5, <2>1
  <2>2. CASE mem'[a] # mem[a]
    BY <1>2, <1>5, <1>6, <2>2 DEF Unlinking, Leads
  <2>3. QED
    BY <2>1, <2>2
<1>8. PointersInv'
  <2>1. \A a \in Addr : Leads(mem[a])'
    BY <1>4, <1>7 DEF Leads, To
  <2>2. To("node", root)'
    BY <1>1, <1>4 DEF To, PointersInv
  <2>3. QED
    BY <2>1, <2>2 DEF PointersInv
<1>9. Used' = Used
  <2>1. \A a \in Addr : mem'[a] = Free <=> mem[a] = Free
    BY <1>1, <1>2, <1>3, Kinds DEF TypeOK
  <2>2. QED
    BY <2>1 DEF Used
<1>10. RecordInv'
  BY <1>1, <1>9 DEF RecordInv
<1>11. MarkInv'
  BY <1>1, MarkRunning
<1>12. TypeOK'
  BY <1>1, <1>2 DEF TypeOK
<1>13. QED
  BY <1>8, <1>10, <1>11, <1>12 DEF Inv

(* A step that changes nothing but the phase, and ends the program's run. *)
LEMMA StoppingKeepsInv ==
  ASSUME Inv, gc = "run", gc' \in {"exit", "crash"},
         UNCHANGED <<mem, memory, passed, inUse, stack>>,
         root' \in {root, NULL}, atEnd' \in BOOLEAN, ops' \in Nat
  PROVE  Inv'
<1>1. TypeOK /\ RecordInv /\ PointersInv /\ MarkInv
  BY DEF Inv
<1>2. MarkInv'
  BY <1>1, MarkRunning
<1>3. RecordInv'
  BY <1>1 DEF RecordInv, Used
<1>4. PointersInv'
  <2>1. \A a \in Addr : Leads(mem[a])
    BY <1>1 DEF PointersInv, Stays
  <2>2. \A a \in Addr : Leads(mem[a])'
    BY <2>1 DEF Leads, To, ChunksOf
  <2>3. To("node", root)'
    BY <1>1 DEF PointersInv, To, ChunksOf
  <2>4. QED
    BY <2>2, <2>3 DEF PointersInv
<1>5. TypeOK'
  BY <1>1, Addresses DEF TypeOK
<1>6. QED
  BY <1>2, <1>3, <1>4, <1>5 DEF Inv

-----------------------------------------------------------------------------
(* Marking.                                                                *)

(* While the collector marks, exactly the chunks in use are on record. *)
LEMMA RecordMarking ==
  ASSUME RecordInv, gc # "sweep"
  PROVE  \A a : OnRecord(a) <=> a \in Used
<1>1. passed = <<>> /\ Elems(memory) \cup Elems(passed) = Used
  BY DEF RecordInv
<1>2. Elems(memory) = Used
  BY <1>1, ElemsOfEmpty
<1>3. QED
  BY <1>2 DEF OnRecord, Elems

LEMMA TargetsOf ==
  ASSUME NEW a \in Addr
  PROVE  /\ mem[a].kind = "node" => Targets(a) = {mem[a].name, mem[a].links} \ {NULL}
         /\ mem[a].kind = "link" => Targets(a) = {mem[a].fptr, mem[a].next} \ {NULL}
         /\ mem[a].kind \notin {"node", "link"} => Targets(a) = {}
BY DEF Targets

LEMMA TargetsInHeap ==
  ASSUME TypeOK, NEW a \in Addr
  PROVE  Targets(a) \subseteq Addr
<1>1. mem[a] \in Chunks
  BY DEF TypeOK
<1>2. /\ mem[a].kind = "node" => mem[a].name \in Pointer /\ mem[a].links \in Pointer
      /\ mem[a].kind = "link" => mem[a].fptr \in Pointer /\ mem[a].next \in Pointer
  BY <1>1, Kinds
<1>3. \A p \in Pointer : p = NULL \/ p \in Addr
  BY DEF Pointer
<1>4. QED
  BY <1>2, <1>3, TargetsOf

(* Outside a sweep, a pointer leads to a chunk of the right kind. *)
LEMMA Following ==
  ASSUME TypeOK, PointersInv, gc # "sweep"
  PROVE  /\ \A a \in Nodes : mem[a].name \in ChunksOf("name") /\ To("link", mem[a].links)
         /\ \A a \in Links : mem[a].fptr \in Nodes /\ To("link", mem[a].next)
         /\ \A a \in Nodes : Targets(a) = {mem[a].name, mem[a].links} \ {NULL}
         /\ \A a \in Links : Targets(a) = {mem[a].fptr, mem[a].next} \ {NULL}
         /\ \A a \in ChunksOf("name") : Targets(a) = {}
BY TargetsOf DEF PointersInv, Stays, Leads, Nodes, Links, ChunksOf

(* The call mark_fstree(p).  The marks so far point to marked chunks, but  *)
(* for the lists that are to be gone through (those in "todo"), and p.     *)
LEMMA VisitKeeps ==
  ASSUME TypeOK, RecordInv, PointersInv, gc # "sweep", UNCHANGED mem,
         NEW p, To("node", p), NEW marks \in [Addr -> BOOLEAN],
         NEW calls \in Seq(Pointer),
         \A i \in DOMAIN calls : To("link", calls[i]),
         \A a \in Addr : marks[a] => a \in Used,
         \A a \in Addr : marks[a] =>
           \A b \in Targets(a) : marks[b] \/ b = p \/ \E i \in DOMAIN calls : calls[i] = b,
         VisitNode(p, marks, calls)
  PROVE  /\ inUse' \in [Addr -> BOOLEAN] /\ stack' \in Seq(Pointer)
         /\ \A i \in DOMAIN stack' : To("link", stack'[i])
         /\ \A a \in Addr : marks[a] => inUse'[a]
         /\ p # NULL => inUse'[p]
         /\ \A a \in Addr : inUse'[a] => a \in Used
         /\ \A a \in Addr : inUse'[a] =>
              \A b \in Targets(a) : inUse'[b] \/ \E i \in DOMAIN stack' : stack'[i] = b
<1>1. \A a : OnRecord(a) <=> a \in Used
  BY RecordMarking
<1>2. p = NULL \/ (p \in Nodes /\ p \in Used /\ p \in Addr)
  BY ChunkKinds DEF To, Nodes, ChunksOf
<1>3. CASE p = NULL \/ MarkOne(marks, p) = 1
  <2>1. inUse' = marks /\ stack' = calls
    BY <1>3 DEF VisitNode
  <2>2. p # NULL => marks[p]
    <3>1. CASE MarkOne(marks, p) = 1
      BY <3>1 DEF MarkOne
    <3>2. CASE p = NULL
      BY <3>2
    <3>3. QED
      BY <1>3, <3>1, <3>2
  <2>3. \A a \in Addr : \A b \in Targets(a) : b # NULL
    BY DEF Targets
  <2>4. QED
    BY <2>1, <2>2, <2>3
<1>4. CASE ~(p = NULL \/ MarkOne(marks, p) = 1)
  <2>1. p \in Nodes /\ p \in Used /\ p \in Addr
    BY <1>2, <1>4
  <2>2. PICK name, links : name = mem[p].name /\ links = mem[p].links
    OBVIOUS
  <2>3. /\ name \in ChunksOf("name") /\ To("link", links)
        /\ Targets(p) = {name, links} \ {NULL}
        /\ Targets(name) = {}
    BY <2>1, <2>2, Following
  <2>4. name \in Addr /\ name \in Used /\ links \in Pointer
    <3>1. name \in Addr /\ mem[name].kind = "name"
      BY <2>3 DEF ChunksOf
    <3>2. name \in Used
      BY <3>1, ChunkKinds
    <3>3. links \in Pointer
      BY <2>1, <2>2, ChunkKinds
    <3>4. QED
      BY <3>1, <3>2, <3>3
  <2>5. /\ inUse' = Marked(Marked(marks, p), name)
        /\ stack' = Append(calls, links)
    BY <1>4, <2>2 DEF VisitNode
  <2>6. /\ inUse' \in [Addr -> BOOLEAN]
        /\ \A a \in Addr : inUse'[a] <=> (marks[a] \/ a = p \/ a = name)
    <3>1. /\ Marked(marks, p) \in [Addr -> BOOLEAN]
          /\ \A a \in Addr : Marked(marks, p)[a] <=> (marks[a] \/ a = p)
      BY <1>1, <2>1 DEF Marked
    <3>2. PICK m : m = Marked(marks, p)
      OBVIOUS
    <3>3. /\ m \in [Addr -> BOOLEAN] /\ \A a \in Addr : m[a] <=> (marks[a] \/ a = p)
          /\ inUse' = Marked(m, name)
      BY <2>5, <3>1, <3>2
    <3>4. /\ inUse' \in [Addr -> BOOLEAN]
          /\ \A a \in Addr : inUse'[a] <=> (m[a] \/ a = name)
      BY <1>1, <2>4, <3>3 DEF Marked
    <3>5. QED
      BY <3>3, <3>4
  <2>7. PICK n \in Nat : n = Len(calls)
    OBVIOUS
  <2>8. /\ stack' \in Seq(Pointer) /\ DOMAIN calls = 1..n /\ DOMAIN stack' = 1..(n + 1)
        /\ \A i \in 1..n : stack'[i] = calls[i]
        /\ stack'[n + 1] = links
    BY <2>4, <2>5, <2>7, AppendProperties
  <2>9. \A i \in DOMAIN stack' : To("link", stack'[i])
    <3>1. \A i \in 1..(n + 1) : i \in 1..n \/ i = n + 1
      OBVIOUS
    <3>2. QED
      BY <2>3, <2>8, <3>1
  <2>10. ASSUME NEW b, b = links \/ \E i \in DOMAIN calls : calls[i] = b
         PROVE  \E i \in DOMAIN stack' : stack'[i] = b
    <3>1. n + 1 \in 1..(n + 1) /\ 1..n \subseteq 1..(n + 1)
      OBVIOUS
    <3>2. QED
      BY <2>8, <2>10, <3>1
  <2>11. ASSUME NEW a \in Addr, inUse'[a], NEW b \in Targets(a)
         PROVE  inUse'[b] \/ \E i \in DOMAIN stack' : stack'[i] = b
    <3>1. CASE marks[a]
      <4>1. CASE b = p
        BY <2>1, <2>6, <4>1
      <4>2. CASE marks[b]
        <5>1. b \in Addr
          BY <2>11, TargetsInHeap
        <5>2. QED
          BY <2>6, <4>2, <5>1
      <4>3. CASE \E i \in DOMAIN calls : calls[i] = b
        BY <2>10, <4>3
      <4>4. QED
        BY <2>11, <3>1, <4>1, <4>2, <4>3
    <3>2. CASE a = p
      BY <2>3, <2>4, <2>6, <2>10, <2>11, <3>2
    <3>3. CASE a = name
      BY <2>3, <2>11, <3>3
    <3>4. QED
      BY <2>6, <2>11, <3>1, <3>2, <3>3
  <2>12. /\ \A a \in Addr : marks[a] => inUse'[a]
         /\ inUse'[p]
         /\ \A a \in Addr : inUse'[a] => a \in Used
    BY <2>1, <2>4, <2>6
  <2>13. QED
    BY <2>6, <2>8, <2>9, <2>11, <2>12
<1>5. QED
  BY <1>3, <1>4

(* A step of the marker. *)
LEMMA MarkingKeepsInv ==
  ASSUME Inv, gc # "sweep", gc' = "mark", UNCHANGED <<mem, memory, passed>>,
         inUse' \in [Addr -> BOOLEAN], stack' \in Seq(Pointer),
         root' \in {root, NULL}, atEnd' \in BOOLEAN, ops' \in Nat,
         root' # NULL => inUse'[root'],
         \A a \in Addr : inUse'[a] => a \in Used,
         \A a \in Addr : inUse'[a] =>
           \A b \in Targets(a) : inUse'[b] \/ \E i \in DOMAIN stack' : stack'[i] = b,
         \A i \in DOMAIN stack' : To("link", stack'[i])
  PROVE  Inv'
<1>1. TypeOK /\ RecordInv /\ PointersInv /\ MarkInv
  BY DEF Inv
<1>2. Used' = Used /\ \A a : Targets(a)' = Targets(a)
  BY DEF Used, Targets
<1>3. passed = <<>> /\ RecordInv'
  BY <1>1, <1>2 DEF RecordInv
<1>4. \A k : ChunksOf(k)' = ChunksOf(k)
  BY DEF ChunksOf
<1>5. \A p : To("link", p)' <=> To("link", p)
  BY <1>4 DEF To
<1>6. PointersInv'
  <2>1. \A a \in Addr : Leads(mem[a])
    BY <1>1 DEF PointersInv, Stays
  <2>2. \A a \in Addr : Leads(mem[a])'
    BY <1>4, <1>5, <2>1 DEF Leads, To
  <2>3. To("node", root)'
    BY <1>1, <1>4 DEF PointersInv, To
  <2>4. QED
    BY <2>2, <2>3 DEF PointersInv
<1>7. MarkInv'
  <2>1. Elems(passed') = {}
    BY <1>3, ElemsOfEmpty
  <2>2. \A i \in DOMAIN stack' : To("link", stack[i])'
    BY <1>4 DEF To
  <2>3. \A a \in Addr : inUse'[a] => \A b \in Targets(a)' : inUse'[b] \/ OnStack(b)'
    BY <1>2 DEF OnStack
  <2>4. QED
    BY <1>2, <2>1, <2>2, <2>3 DEF MarkInv
<1>8. TypeOK'
  BY <1>1, Addresses DEF TypeOK
<1>9. QED
  BY <1>3, <1>6, <1>7, <1>8 DEF Inv

LEMMA CallKeepsInv ==
  ASSUME Inv, NEW r, MarkAndSweep(r), r = root \/ r = NULL, root' = r,
         atEnd' \in BOOLEAN, ops' \in Nat
  PROVE  Inv'
<1>1. /\ TypeOK /\ RecordInv /\ PointersInv /\ MarkInv /\ gc = "run" /\ gc' = "mark"
      /\ UNCHANGED <<mem, memory, passed>>
      /\ VisitNode(r, Cleared, <<>>)
  BY DEF Inv, MarkAndSweep
<1>2. To("node", r)
  BY <1>1 DEF PointersInv, To
<1>3. /\ Cleared \in [Addr -> BOOLEAN] /\ \A a \in Addr : ~Cleared[a]
      /\ <<>> \in Seq(Pointer) /\ DOMAIN <<>> = {}
  BY DEF Cleared
<1>4. PICK marks, calls : marks = Cleared /\ calls = <<>>
  OBVIOUS
<1>5. /\ marks \in [Addr -> BOOLEAN] /\ \A a \in Addr : ~marks[a]
      /\ calls \in Seq(Pointer) /\ DOMAIN calls = {}
      /\ VisitNode(r, marks, calls)
  BY <1>1, <1>3, <1>4
<1>6. /\ inUse' \in [Addr -> BOOLEAN] /\ stack' \in Seq(Pointer)
      /\ \A i \in DOMAIN stack' : To("link", stack'[i])
      /\ r # NULL => inUse'[r]
      /\ \A a \in Addr : inUse'[a] => a \in Used
      /\ \A a \in Addr : inUse'[a] =>
           \A b \in Targets(a) : inUse'[b] \/ \E i \in DOMAIN stack' : stack'[i] = b
  BY <1>1, <1>2, <1>5, VisitKeeps
<1>7. QED
  BY <1>1, <1>6, MarkingKeepsInv

(* The calls of mark_fstree without the last. *)
LEMMA TopOfStack ==
  ASSUME TypeOK, stack # <<>>
  PROVE  \E n \in Nat :
           /\ Len(stack) = n + 1 /\ DOMAIN stack = 1..(n + 1) /\ Top = stack[n + 1]
           /\ Callers \in Seq(Pointer) /\ Len(Callers) = n /\ DOMAIN Callers = 1..n
           /\ \A i \in 1..n : Callers[i] = stack[i] /\ i \in 1..(n + 1)
           /\ \A i \in 1..(n + 1) : i \in 1..n \/ i = n + 1
<1>1. stack \in Seq(Pointer)
  BY DEF TypeOK
<1>2. Len(stack) \in Nat \ {0}
  BY <1>1, EmptySeq
<1>3. PICK n : n = Len(stack) - 1
  OBVIOUS
<1>4. n \in Nat /\ Len(stack) = n + 1
  BY <1>2, <1>3
<1>5. DOMAIN stack = 1..(n + 1)
  BY <1>1, <1>4
<1>6. Callers = SubSeq(stack, 1, n)
  BY <1>3 DEF Callers
<1>7. /\ Callers \in Seq(Pointer) /\ Len(Callers) = n
      /\ \A i \in 1..n : Callers[i] = stack[i]
  <2>1. 1 \in 1..(Len(stack) + 1) /\ n \in (1 - 1)..Len(stack)
    BY <1>4
  <2>2. /\ SubSeq(stack, 1, n) \in Seq(Pointer)
        /\ Len(SubSeq(stack, 1, n)) = IF 1 <= n THEN n - 1 + 1 ELSE 0
        /\ \A i \in 1..(n - 1 + 1) : SubSeq(stack, 1, n)[i] = stack[1 + i - 1]
    BY <1>1, <1>4, <2>1, SubSeqProperties
  <2>3. \A i \in 1..n : 1 + i - 1 = i
    OBVIOUS
  <2>4. n - 1 + 1 = n /\ (n >= 1 \/ n = 0)
    BY <1>4
  <2>5. QED
    BY <1>4, <1>6, <2>2, <2>3, <2>4
<1>8. DOMAIN Callers = 1..n
  BY <1>7
<1>9. Top = stack[n + 1]
  BY <1>4 DEF Top
<1>10. \A i \in 1..(n + 1) : i \in 1..n \/ i = n + 1
  BY <1>4
<1>11. \A i \in 1..n : i \in 1..(n + 1)
  BY <1>4
<1>12. QED
  BY <1>4, <1>5, <1>7, <1>8, <1>9, <1>10, <1>11

LEMMA MarkLinkKeepsInv ==
  ASSUME Inv, MarkLink
  PROVE  Inv'
<1>1. /\ TypeOK /\ RecordInv /\ PointersInv /\ MarkInv /\ gc = "mark" /\ gc' = "mark"
      /\ stack # <<>> /\ Top # NULL
      /\ UNCHANGED <<mem, memory, passed, root, atEnd, ops>>
  BY DEF Inv, MarkLink
<1>2. PICK n \in Nat :
        /\ Len(stack) = n + 1 /\ DOMAIN stack = 1..(n + 1) /\ Top = stack[n + 1]
        /\ Callers \in Seq(Pointer) /\ Len(Callers) = n /\ DOMAIN Callers = 1..n
        /\ \A i \in 1..n : Callers[i] = stack[i] /\ i \in 1..(n + 1)
        /\ \A i \in 1..(n + 1) : i \in 1..n \/ i = n + 1
  BY <1>1, TopOfStack
<1>3. PICK l : l = Top
  OBVIOUS
<1>4. l \in Links /\ l \in Used /\ l \in Addr
  <2>1. To("link", l)
    BY <1>1, <1>2, <1>3 DEF MarkInv
  <2>2. l \in Links
    BY <1>1, <1>3, <2>1 DEF To, Links
  <2>3. QED
    BY <1>1, <2>2, ChunkKinds DEF Links, ChunksOf
<1>5. PICK target, next : target = mem[l].fptr /\ next = mem[l].next
  OBVIOUS
<1>6. /\ target \in Nodes /\ To("link", next) /\ next \in Pointer
      /\ Targets(l) = {target, next} \ {NULL}
  BY <1>1, <1>4, <1>5, Following, ChunkKinds
<1>7. PICK calls : calls = Append(Callers, next)
  OBVIOUS
<1>8. /\ calls \in Seq(Pointer) /\ DOMAIN calls = 1..(n + 1)
      /\ \A i \in 1..n : calls[i] = stack[i]
      /\ calls[n + 1] = next
  BY <1>2, <1>6, <1>7, AppendProperties
<1>9. \A i \in DOMAIN calls : To("link", calls[i])
  BY <1>1, <1>2, <1>6, <1>8 DEF MarkInv
<1>10. \A b : OnStack(b) => b = l \/ \E i \in DOMAIN calls : calls[i] = b
  BY <1>2, <1>3, <1>8 DEF OnStack
<1>11. \E i \in DOMAIN calls : calls[i] = next
  <2>1. n + 1 \in 1..(n + 1)
    OBVIOUS
  <2>2. QED
    BY <1>8, <2>1
<1>12. PICK marks : marks = Marked(inUse, l)
  OBVIOUS
<1>13. /\ marks \in [Addr -> BOOLEAN]
       /\ \A a \in Addr : marks[a] <=> (inUse[a] \/ a = l)
  <2>1. OnRecord(l)
    BY <1>1, <1>4, RecordMarking
  <2>2. inUse \in [Addr -> BOOLEAN]
    BY <1>1 DEF TypeOK
  <2>3. QED
    BY <1>12, <2>1, <2>2 DEF Marked
<1>14. /\ \A a \in Addr : inUse[a] => a \in Used
       /\ root # NULL => inUse[root]
       /\ \A a \in Addr : inUse[a] => \A b \in Targets(a) : inUse[b] \/ OnStack(b)
       /\ root \in Pointer
  BY <1>1 DEF MarkInv, TypeOK
<1>15. \A a \in Addr : Targets(a) \subseteq Addr
  BY <1>1, TargetsInHeap
<1>16. CASE MarkOne(inUse, l) = 1
  <2>1. stack' = calls /\ UNCHANGED inUse
    BY <1>3, <1>5, <1>7, <1>16 DEF MarkLink
  <2>2. inUse[l]
    BY <1>16 DEF MarkOne
  <2>3. \A a \in Addr : inUse'[a] =>
           \A b \in Targets(a) : inUse'[b] \/ \E i \in DOMAIN stack' : stack'[i] = b
    BY <1>10, <1>14, <2>1, <2>2
  <2>4. inUse' \in [Addr -> BOOLEAN] /\ ops' \in Nat /\ atEnd' \in BOOLEAN
    BY <1>1, <2>1 DEF TypeOK
  <2>5. /\ root' # NULL => inUse'[root']
        /\ \A a \in Addr : inUse'[a] => a \in Used
        /\ \A i \in DOMAIN stack' : To("link", stack'[i])
        /\ stack' \in Seq(Pointer)
    BY <1>1, <1>8, <1>9, <1>14, <2>1
  <2>6. QED
    BY <1>1, <2>3, <2>4, <2>5, MarkingKeepsInv
<1>17. CASE MarkOne(inUse, l) # 1
  <2>1. VisitNode(target, marks, calls)
    BY <1>3, <1>5, <1>7, <1>12, <1>17 DEF MarkLink
  <2>2. \A a \in Addr : marks[a] => a \in Used
    BY <1>4, <1>13, <1>14
  <2>3. ASSUME NEW a \in Addr, marks[a], NEW b \in Targets(a)
        PROVE  marks[b] \/ b = target \/ \E i \in DOMAIN calls : calls[i] = b
    <3>1. b \in Addr
      BY <1>15
    <3>2. CASE a = l
      BY <1>6, <1>11, <2>3, <3>2
    <3>3. CASE inUse[a]
      BY <1>4, <1>10, <1>13, <1>14, <2>3, <3>1, <3>3
    <3>4. QED
      BY <1>13, <2>3, <3>2, <3>3
  <2>4. To("node", target)
    BY <1>6 DEF To, Nodes
  <2>5. /\ inUse' \in [Addr -> BOOLEAN] /\ stack' \in Seq(Pointer)
        /\ \A i \in DOMAIN stack' : To("link", stack'[i])
        /\ \A a \in Addr : marks[a] => inUse'[a]
        /\ \A a \in Addr : inUse'[a] => a \in Used
        /\ \A a \in Addr : inUse'[a] =>
             \A b \in Targets(a) : inUse'[b] \/ \E i \in DOMAIN stack' : stack'[i] = b
    BY <1>1, <1>8, <1>9, <1>13, <2>1, <2>2, <2>3, <2>4, VisitKeeps
  <2>6. root' # NULL => inUse'[root']
    BY <1>1, <1>13, <1>14, <2>5 DEF Pointer
  <2>7. ops' \in Nat /\ atEnd' \in BOOLEAN
    BY <1>1 DEF TypeOK
  <2>8. QED
    BY <1>1, <2>5, <2>6, <2>7, MarkingKeepsInv
<1>18. QED
  BY <1>16, <1>17

LEMMA LeaveNodeKeepsInv ==
  ASSUME Inv, LeaveNode
  PROVE  Inv'
<1>1. /\ TypeOK /\ RecordInv /\ PointersInv /\ MarkInv /\ gc = "mark" /\ gc' = "mark"
      /\ stack # <<>> /\ Top = NULL /\ stack' = Callers
      /\ UNCHANGED <<mem, memory, passed, inUse, root, atEnd, ops>>
  BY DEF Inv, LeaveNode, gcVars
<1>2. PICK n \in Nat :
        /\ Len(stack) = n + 1 /\ DOMAIN stack = 1..(n + 1) /\ Top = stack[n + 1]
        /\ Callers \in Seq(Pointer) /\ Len(Callers) = n /\ DOMAIN Callers = 1..n
        /\ \A i \in 1..n : Callers[i] = stack[i] /\ i \in 1..(n + 1)
        /\ \A i \in 1..(n + 1) : i \in 1..n \/ i = n + 1
  BY <1>1, TopOfStack
<1>3. \A b : OnStack(b) /\ b # NULL => \E i \in DOMAIN stack' : stack'[i] = b
  BY <1>1, <1>2 DEF OnStack
<1>4. \A a \in Addr : NULL \notin Targets(a)
  BY DEF Targets
<1>5. /\ \A a \in Addr : inUse[a] => a \in Used
      /\ root # NULL => inUse[root]
      /\ \A a \in Addr : inUse[a] => \A b \in Targets(a) : inUse[b] \/ OnStack(b)
      /\ \A i \in DOMAIN stack : To("link", stack[i])
  BY <1>1 DEF MarkInv
<1>6. \A a \in Addr : inUse'[a] =>
        \A b \in Targets(a) : inUse'[b] \/ \E i \in DOMAIN stack' : stack'[i] = b
  BY <1>1, <1>3, <1>4, <1>5
<1>7. \A i \in DOMAIN stack' : To("link", stack'[i])
  BY <1>1, <1>2, <1>5
<1>8. inUse' \in [Addr -> BOOLEAN] /\ ops' \in Nat /\ atEnd' \in BOOLEAN /\ stack' \in Seq(Pointer)
  BY <1>1, <1>2 DEF TypeOK
<1>9. (root' # NULL => inUse'[root']) /\ \A a \in Addr : inUse'[a] => a \in Used
  BY <1>1, <1>5
<1>10. QED
  BY <1>1, <1>6, <1>7, <1>8, <1>9, MarkingKeepsInv

-----------------------------------------------------------------------------
(* Sweeping.                                                               *)

LEMMA MarkingDoneKeepsInv ==
  ASSUME Inv, MarkingDone
  PROVE  Inv'
<1>1. /\ TypeOK /\ RecordInv /\ PointersInv /\ MarkInv /\ gc = "mark" /\ gc' = "sweep"
      /\ stack = <<>>
      /\ UNCHANGED <<mem, memory, passed, inUse, root, atEnd, stack, ops>>
  BY DEF Inv, MarkingDone
<1>2. /\ Used' = Used /\ \A a : Targets(a)' = Targets(a)
      /\ \A k : ChunksOf(k)' = ChunksOf(k)
  BY <1>1 DEF Used, Targets, ChunksOf
<1>3. RecordInv'
  BY <1>1, <1>2 DEF RecordInv
<1>4. passed = <<>> /\ Elems(passed') = {}
  BY <1>1, ElemsOfEmpty DEF RecordInv
<1>5. MarkInv'
  <2>1. \A b : OnStack(b)' <=> OnStack(b)
    BY <1>1 DEF OnStack
  <2>2. DOMAIN stack' = {}
    BY <1>1
  <2>3. QED
    BY <1>1, <1>2, <1>4, <2>1, <2>2 DEF MarkInv
<1>6. PointersInv'
  <2>1. \A a \in Addr : Leads(mem[a])
    BY <1>1 DEF PointersInv, Stays
  <2>2. \A a \in Addr : Leads(mem[a])'
    BY <1>1, <1>2, <2>1 DEF Leads, To
  <2>3. To("node", root)'
    BY <1>1, <1>2 DEF PointersInv, To
  <2>4. QED
    BY <2>2, <2>3 DEF PointersInv
<1>7. TypeOK'
  BY <1>1 DEF TypeOK
<1>8. QED
  BY <1>3, <1>5, <1>6, <1>7 DEF Inv

(* What the sweep has at hand: marked chunks point to marked chunks. *)
LEMMA Sweeping ==
  ASSUME Inv, gc = "sweep"
  PROVE  /\ TypeOK /\ RecordInv /\ PointersInv /\ MarkInv
         /\ root # NULL => inUse[root]
         /\ \A a \in Addr : inUse[a] => a \in Used /\ Leads(mem[a])
         /\ \A a \in Addr : inUse[a] => \A b \in Targets(a) : inUse[b]
         /\ stack = <<>>
<1>1. TypeOK /\ RecordInv /\ PointersInv /\ MarkInv
  BY DEF Inv
<1>2. stack = <<>> /\ \A b : ~OnStack(b)
  <2>1. stack = <<>>
    BY <1>1 DEF MarkInv
  <2>2. DOMAIN stack = {}
    BY <2>1
  <2>3. QED
    BY <2>1, <2>2 DEF OnStack
<1>3. /\ root # NULL => inUse[root]
      /\ \A a \in Addr : inUse[a] => a \in Used
      /\ \A a \in Addr : inUse[a] => \A b \in Targets(a) : inUse[b] \/ OnStack(b)
  BY <1>1 DEF MarkInv
<1>4. \A a \in Addr : inUse[a] => Leads(mem[a])
  BY <1>1 DEF PointersInv, Stays
<1>5. QED
  BY <1>1, <1>2, <1>3, <1>4

(* A chunk that is not marked may go: no marked chunk points to it. *)
LEMMA FreeChunkKeepsInv ==
  ASSUME Inv, FreeChunk, UNCHANGED <<root, atEnd, stack, ops>>
  PROVE  Inv'
<1>1. /\ gc = "sweep" /\ gc' = "sweep" /\ memory # <<>> /\ UNCHANGED <<inUse, passed>>
      /\ memory' = Tail(memory)
      /\ ~inUse[Head(memory)]
      /\ mem' = [mem EXCEPT ![Head(memory)] = Free]
  BY DEF FreeChunk, AfterFreeing
<1>2. /\ TypeOK /\ RecordInv /\ PointersInv /\ MarkInv
      /\ root # NULL => inUse[root]
      /\ \A a \in Addr : inUse[a] => a \in Used /\ Leads(mem[a])
      /\ \A a \in Addr : inUse[a] => \A b \in Targets(a) : inUse[b]
      /\ stack = <<>>
  BY <1>1, Sweeping
<1>3. PICK h : h = Head(memory)
  OBVIOUS
<1>4. memory \in Seq(Addr) /\ mem \in [Addr -> Chunks] /\ root \in Pointer
  BY <1>2 DEF TypeOK
<1>5. /\ h \in Elems(memory) /\ Elems(memory) = Elems(memory') \cup {h}
      /\ Once(memory') /\ h \notin Elems(memory')
      /\ memory' \in Seq(Addr)
  <2>1. Once(memory)
    BY <1>2 DEF RecordInv
  <2>2. /\ Head(memory) \in Elems(memory)
        /\ Elems(memory) = Elems(Tail(memory)) \cup {Head(memory)}
        /\ Once(Tail(memory)) /\ Head(memory) \notin Elems(Tail(memory))
    BY <1>1, <1>4, <2>1, ElemsOfTail
  <2>3. Tail(memory) \in Seq(Addr)
    BY <1>1, <1>4
  <2>4. QED
    BY <1>1, <1>3, <2>2, <2>3
<1>6. h \in Addr /\ h \in Used /\ h \notin Elems(passed)
  BY <1>2, <1>5 DEF RecordInv, Used
<1>7. /\ mem' \in [Addr -> Chunks] /\ mem'[h] = Free
      /\ \A a \in Addr \ {h} : mem'[a] = mem[a]
  BY <1>1, <1>3, <1>4, <1>6 DEF Chunks
<1>8. Used' = Used \ {h}
  BY <1>7 DEF Used
<1>9. RecordInv'
  BY <1>1, <1>2, <1>5, <1>6, <1>8 DEF RecordInv
<1>10. ~inUse[h]
  BY <1>1, <1>3
<1>11. \A k, p : p \in ChunksOf(k) /\ p # h => p \in ChunksOf(k)'
  BY <1>7 DEF ChunksOf
<1>12. \A a \in Addr : inUse[a] => Leads(mem[a])'
  <2>1. SUFFICES ASSUME NEW a \in Addr, inUse[a] PROVE Leads(mem[a])'
    OBVIOUS
  <2>2. PICK x : x = mem[a]
    OBVIOUS
  <2>3. x = mem'[a] /\ a # h
    BY <1>7, <1>10, <2>1, <2>2
  <2>4. /\ x.kind = "node" => x.name \in ChunksOf("name") /\ To("link", x.links)
        /\ x.kind = "link" => x.fptr \in ChunksOf("node") /\ To("link", x.next)
    BY <1>2, <2>1, <2>2 DEF Leads
  <2>5. h \notin Targets(a)
    BY <1>2, <1>10, <2>1
  <2>6. h # NULL
    BY <1>6, Addresses
  <2>7. /\ x.kind = "node" => x.name # h /\ x.links # h
        /\ x.kind = "link" => x.fptr # h /\ x.next # h
    BY <2>2, <2>5, <2>6, TargetsOf
  <2>8. /\ x.kind = "node" => x.name \in ChunksOf("name")' /\ To("link", x.links)'
        /\ x.kind = "link" => x.fptr \in ChunksOf("node")' /\ To("link", x.next)'
    BY <1>11, <2>4, <2>7 DEF To
  <2>9. QED
    BY <2>3, <2>8 DEF Leads
<1>13. PointersInv'
  <2>1. To("node", root)'
    <3>1. root = NULL \/ (root \in ChunksOf("node") /\ root # h)
      BY <1>2, <1>10 DEF PointersInv, To
    <3>2. PICK r : r = root
      OBVIOUS
    <3>3. r = NULL \/ r \in ChunksOf("node")'
      BY <1>11, <3>1, <3>2
    <3>4. QED
      BY <3>2, <3>3 DEF To
  <2>2. QED
    BY <1>1, <1>12, <2>1 DEF PointersInv, Stays
<1>14. MarkInv'
  <2>1. \A a \in Addr : inUse[a] => a \in Used'
    BY <1>2, <1>8, <1>10
  <2>2. \A a \in Addr : a # h => Targets(a)' = Targets(a)
    BY <1>7 DEF Targets
  <2>3. \A a \in Addr : inUse[a] => \A b \in Targets(a)' : inUse[b]
    BY <1>2, <1>10, <2>2
  <2>4. DOMAIN stack' = {}
    BY <1>2
  <2>5. \A a \in Elems(passed) : inUse[a]
    BY <1>2 DEF MarkInv
  <2>6. QED
    BY <1>1, <1>2, <2>1, <2>3, <2>4, <2>5 DEF MarkInv
<1>15. TypeOK'
  BY <1>1, <1>2, <1>5, <1>7 DEF TypeOK
<1>16. QED
  BY <1>9, <1>13, <1>14, <1>15 DEF Inv

LEMMA KeepChunkKeepsInv ==
  ASSUME Inv, KeepChunk, UNCHANGED <<root, atEnd, stack, ops>>
  PROVE  Inv'
<1>1. /\ gc = "sweep" /\ gc' = "sweep" /\ memory # <<>> /\ UNCHANGED <<mem, inUse>>
      /\ inUse[Head(memory)]
      /\ passed' = Append(passed, Head(memory))
      /\ memory' = Tail(memory)
  BY DEF KeepChunk
<1>2. TypeOK /\ RecordInv /\ PointersInv /\ MarkInv
  BY DEF Inv
<1>3. PICK h : h = Head(memory)
  OBVIOUS
<1>4. memory \in Seq(Addr) /\ passed \in Seq(Addr)
  BY <1>2 DEF TypeOK
<1>5. /\ h \in Elems(memory) /\ Elems(memory) = Elems(memory') \cup {h}
      /\ Once(memory') /\ h \notin Elems(memory')
      /\ memory' \in Seq(Addr)
  <2>1. Once(memory)
    BY <1>2 DEF RecordInv
  <2>2. /\ Head(memory) \in Elems(memory)
        /\ Elems(memory) = Elems(Tail(memory)) \cup {Head(memory)}
        /\ Once(Tail(memory)) /\ Head(memory) \notin Elems(Tail(memory))
    BY <1>1, <1>4, <2>1, ElemsOfTail
  <2>3. Tail(memory) \in Seq(Addr)
    BY <1>1, <1>4
  <2>4. QED
    BY <1>1, <1>3, <2>2, <2>3
<1>6. h \in Addr /\ h \notin Elems(passed)
  BY <1>2, <1>5 DEF RecordInv, Used
<1>7. /\ Elems(passed') = Elems(passed) \cup {h} /\ Once(passed')
      /\ passed' \in Seq(Addr)
  <2>1. Once(passed)
    BY <1>2 DEF RecordInv
  <2>2. passed' = Append(passed, h)
    BY <1>1, <1>3
  <2>3. /\ Elems(Append(passed, h)) = Elems(passed) \cup {h}
        /\ Once(Append(passed, h))
    BY <1>4, <1>6, <2>1, ElemsOfAppend
  <2>4. QED
    BY <1>4, <1>6, <2>2, <2>3
<1>8. Used' = Used /\ (\A a : Targets(a)' = Targets(a)) /\ (\A k : ChunksOf(k)' = ChunksOf(k))
  BY <1>1 DEF Used, Targets, ChunksOf
<1>9. RecordInv'
  <2>1. /\ Elems(memory) \cap Elems(passed) = {}
        /\ Elems(memory) \cup Elems(passed) = Used
    BY <1>2 DEF RecordInv
  <2>2. Elems(memory') \cap Elems(passed') = {} /\ Elems(memory') \cup Elems(passed') = Used'
    BY <1>5, <1>7, <1>8, <2>1
  <2>3. QED
    BY <1>1, <1>5, <1>7, <2>2 DEF RecordInv
<1>10. PointersInv'
  BY <1>1, <1>2, <1>8 DEF PointersInv, Stays, Leads, To
<1>11. MarkInv'
  <2>1. \A b : OnStack(b)' <=> OnStack(b)
    BY DEF OnStack
  <2>2. \A a \in Elems(passed') : inUse[a]
    BY <1>1, <1>2, <1>3, <1>7 DEF MarkInv
  <2>3. \A i \in DOMAIN stack' : To("link", stack[i])'
    BY <1>2, <1>8 DEF MarkInv, To
  <2>4. QED
    BY <1>1, <1>2, <1>8, <2>1, <2>2, <2>3 DEF MarkInv
<1>12. TypeOK'
  BY <1>1, <1>2, <1>5, <1>7 DEF TypeOK
<1>13. QED
  BY <1>9, <1>10, <1>11, <1>12 DEF Inv

(* At the end of the sweep every chunk has been looked at: those that are  *)
(* left are marked.                                                        *)
LEMMA EndSweepKeepsInv ==
  ASSUME Inv, NEW back \in {"run", "done"}, EndSweep(back),
         UNCHANGED <<root, atEnd, stack, ops>>
  PROVE  Inv'
<1>1. /\ gc = "sweep" /\ gc' = back /\ memory = <<>> /\ UNCHANGED <<mem, inUse>>
      /\ memory' = passed /\ passed' = <<>>
  BY DEF EndSweep
<1>2. /\ TypeOK /\ RecordInv /\ PointersInv /\ MarkInv
      /\ \A a \in Addr : inUse[a] => a \in Used /\ Leads(mem[a])
      /\ stack = <<>>
  BY <1>1, Sweeping
<1>3. Used' = Used /\ \A k : ChunksOf(k)' = ChunksOf(k)
  BY <1>1 DEF Used, ChunksOf
<1>4. Elems(memory) = {} /\ Elems(passed) = Used /\ Once(passed)
  BY <1>1, <1>2, ElemsOfEmpty DEF RecordInv
<1>5. RecordInv'
  BY <1>1, <1>3, <1>4, ElemsOfEmpty DEF RecordInv
<1>6. \A a \in Used : inUse[a] /\ a \in Addr
  BY <1>2, <1>4 DEF MarkInv, Used
<1>7. \A a \in Addr : Leads(mem[a])
  <2>1. \A a \in Addr \ Used : mem[a] = Free
    BY DEF Used
  <2>2. Leads(Free)
    BY DEF Leads, Free
  <2>3. QED
    BY <1>2, <1>6, <2>1, <2>2
<1>8. PointersInv'
  BY <1>1, <1>2, <1>3, <1>7 DEF PointersInv, Leads, To
<1>9. MarkInv'
  <2>1. Elems(passed') = {} /\ DOMAIN stack' = {}
    BY <1>1, <1>2, ElemsOfEmpty
  <2>2. QED
    BY <1>1, <1>2, <2>1 DEF MarkInv
<1>10. TypeOK'
  BY <1>1, <1>2 DEF TypeOK
<1>11. QED
  BY <1>5, <1>8, <1>9, <1>10 DEF Inv

-----------------------------------------------------------------------------
(* The invariant.                                                          *)

LEMMA InitInv == Init => Inv
<1> SUFFICES ASSUME Init PROVE Inv
  OBVIOUS
<1>1. /\ mem = [a \in Addr |-> Free] /\ memory = <<>> /\ passed = <<>>
      /\ inUse = [a \in Addr |-> FALSE] /\ gc = "run"
      /\ root = NULL /\ atEnd = FALSE /\ stack = <<>> /\ ops = 0
  BY DEF Init, CollectorInit
<1>2. /\ Elems(memory) = {} /\ Once(memory) /\ Elems(passed) = {} /\ Once(passed)
      /\ DOMAIN stack = {}
  BY <1>1, ElemsOfEmpty
<1>3. Used = {}
  BY <1>1 DEF Used
<1>4. RecordInv
  BY <1>1, <1>2, <1>3 DEF RecordInv
<1>5. PointersInv
  <2>1. Leads(Free)
    BY DEF Leads, Free
  <2>2. QED
    BY <1>1, <2>1 DEF PointersInv, To
<1>6. MarkInv
  BY <1>1, <1>2 DEF MarkInv
<1>7. TypeOK
  <2>1. Free \in Chunks
    BY DEF Chunks
  <2>2. memory \in Seq(Addr) /\ passed \in Seq(Addr) /\ stack \in Seq(Pointer)
    BY <1>1
  <2>3. QED
    BY <1>1, <2>1, <2>2, Addresses DEF TypeOK
<1>8. QED
  BY <1>4, <1>5, <1>6, <1>7 DEF Inv

LEMMA SameKeepsInv ==
  ASSUME Inv, UNCHANGED <<gcVars, root, atEnd, stack>>, ops' \in Nat
  PROVE  Inv'
<1>1. UNCHANGED <<mem, memory, passed, inUse, gc, root, atEnd, stack>>
  BY DEF gcVars
<1>2. TypeOK'
  BY <1>1 DEF Inv, TypeOK
<1>3. /\ Used' = Used /\ \A k : ChunksOf(k)' = ChunksOf(k)
      /\ \A b : (OnStack(b)' <=> OnStack(b)) /\ Targets(b)' = Targets(b)
  BY <1>1 DEF Used, ChunksOf, OnStack, Targets
<1>4. RecordInv'
  BY <1>1, <1>3 DEF Inv, RecordInv
<1>5. PointersInv'
  BY <1>1, <1>3 DEF Inv, PointersInv, Leads, To, Stays
<1>6. MarkInv'
  BY <1>1, <1>3 DEF Inv, MarkInv, To
<1>7. QED
  BY <1>2, <1>4, <1>5, <1>6 DEF Inv

LEMMA NextInv == Inv /\ [Next]_vars => Inv'
<1> SUFFICES ASSUME Inv, [Next]_vars PROVE Inv'
  OBVIOUS
<1>1. /\ ops \in Nat /\ ops + 1 \in Nat /\ atEnd \in BOOLEAN
  BY DEF Inv, TypeOK
<1>2. CASE UNCHANGED vars
  BY <1>1, <1>2, SameKeepsInv DEF vars
<1>3. ASSUME CreateRoot PROVE Inv'
  <2>1. CASE HasMemory(2)
    BY <1>3, <2>1, CreateRootKeepsInv
  <2>2. CASE ~HasMemory(2)
    BY <1>1, <1>3, <2>2, StoppingKeepsInv DEF CreateRoot, OutOfMemory
  <2>3. QED
    BY <2>1, <2>2
(* Running out of memory in a transaction. *)
<1>4. ASSUME Transaction, OutOfMemory PROVE Inv'
  BY <1>1, <1>4, StoppingKeepsInv DEF Transaction, OutOfMemory
<1>5. ASSUME NEW path \in Paths, NEW nm \in Names, AddNode(path, nm) PROVE Inv'
  <2>1. Transaction
    BY <1>5 DEF AddNode
  <2>2. PICK n, t, l : /\ n = Malloc(Used) /\ t = Malloc(Used \cup {n})
                       /\ l = Malloc(Used \cup {n, t})
    OBVIOUS
  <2>3. PICK fp \in Nodes : NodeAdded(fp, nm, n, t, l) \/ OutOfMemory
    BY <1>5, <2>2 DEF AddNode, NodeAdded
  <2>4. CASE OutOfMemory
    BY <1>4, <2>1, <2>4
  <2>5. gc = "run" /\ ops' = ops + 1 /\ UNCHANGED <<root, atEnd, stack>>
    BY <2>1 DEF Transaction
  <2>6. QED
    BY <2>3, <2>4, <2>5, AddNodeKeepsInv
<1>6. ASSUME NEW dest \in Paths, NEW src \in Paths, NEW nm \in Names,
             AddHardLink(dest, src, nm)
      PROVE  Inv'
  <2>1. Transaction
    BY <1>6 DEF AddHardLink
  <2>2. PICK l : l = Malloc(Used)
    OBVIOUS
  <2>3. PICK fp \in Nodes, destp \in Nodes :
          \/ /\ HasMemory(1)
             /\ Allocate(<<l>>, [mem EXCEPT ![l] = LinkAt(fp, mem[destp].links),
                                            ![destp].links = l])
          \/ OutOfMemory
    BY <1>6, <2>2 DEF AddHardLink
  <2>4. CASE OutOfMemory
    BY <1>4, <2>1, <2>4
  <2>5. gc = "run" /\ ops' = ops + 1 /\ UNCHANGED <<root, atEnd, stack>>
    BY <2>1 DEF Transaction
  <2>6. QED
    BY <2>2, <2>3, <2>4, <2>5, AddHardLinkKeepsInv
<1>7. ASSUME AddFails PROVE Inv'
  BY <1>1, <1>7, SameKeepsInv DEF AddFails, Transaction
<1>8. ASSUME RemoveCrashes \/ PrintCrashes PROVE Inv'
  BY <1>1, <1>8, StoppingKeepsInv DEF RemoveCrashes, PrintCrashes, Transaction
<1>9. ASSUME LogFails, UNCHANGED stack, root' \in {root, NULL}, atEnd' \in BOOLEAN,
             ops' \in Nat
      PROVE  Inv'
  BY <1>9, StoppingKeepsInv DEF LogFails
<1>10. ASSUME Collect PROVE Inv'
  <2>1. ops' \in Nat /\ root' = root /\ atEnd' \in BOOLEAN
    BY <1>1, <1>10 DEF Collect
  <2>2. MarkAndSweep(root) \/ (LogFails /\ UNCHANGED stack)
    BY <1>10 DEF Collect
  <2>3. QED
    BY <1>9, <2>1, <2>2, CallKeepsInv
<1>11. ASSUME EndOfFile PROVE Inv'
  <2>1. ops' \in Nat /\ root' = NULL /\ atEnd' \in BOOLEAN
    BY <1>1, <1>11 DEF EndOfFile
  <2>2. MarkAndSweep(NULL) \/ (LogFails /\ UNCHANGED stack)
    BY <1>11 DEF EndOfFile
  <2>3. QED
    BY <1>9, <2>1, <2>2, CallKeepsInv
<1>12. ASSUME Sweep PROVE Inv'
  <2>1. UNCHANGED <<root, atEnd, stack, ops>>
    BY <1>12 DEF Sweep
  <2>2. PICK back \in {"run", "done"} : FreeChunk \/ KeepChunk \/ EndSweep(back)
    BY <1>12 DEF Sweep
  <2>3. QED
    BY <2>1, <2>2, FreeChunkKeepsInv, KeepChunkKeepsInv, EndSweepKeepsInv
<1>13. CASE Next
  BY <1>2, <1>3, <1>5, <1>6, <1>7, <1>8, <1>10, <1>11, <1>12, <1>13, RemoveNodeKeepsInv,
     MarkLinkKeepsInv, LeaveNodeKeepsInv, MarkingDoneKeepsInv DEF Next, Stopped
<1>14. QED
  BY <1>2, <1>13

LEMMA Invariance == Spec => []Inv
BY InitInv, NextInv, PTL DEF Spec

(* Nothing dangles: whatever transactions are executed, and at every step  *)
(* of a collection, each chunk that is kept has pointers to chunks of the  *)
(* right kind that are not freed, and the records of the collector are of  *)
(* exactly the chunks that exist, each once.                               *)
THEOREM HeapIntegrity == Spec => []HeapOK
<1>1. ASSUME Inv PROVE HeapOK
  <2>1. /\ TypeOK /\ RecordInv /\ PointersInv
        /\ memory \in Seq(Addr) /\ passed \in Seq(Addr)
    BY <1>1 DEF Inv, TypeOK
  <2>2. \A a \in Nodes : Stays(a) =>
          mem[a].name \in ChunksOf("name") /\ To("link", mem[a].links)
    BY <2>1 DEF PointersInv, Leads, Nodes, ChunksOf
  <2>3. \A a \in Links : Stays(a) =>
          mem[a].fptr \in Nodes /\ To("link", mem[a].next)
    BY <2>1 DEF PointersInv, Leads, Nodes, Links, ChunksOf
  <2>4. PICK list : list = passed \o memory
    OBVIOUS
  <2>5. Elems(list) = Used /\ Once(list) /\ list \in Seq(Addr)
    <3>1. /\ Elems(passed \o memory) = Elems(passed) \cup Elems(memory)
          /\ Once(passed \o memory)
      BY <2>1, ElemsOfConcat DEF RecordInv
    <3>2. passed \o memory \in Seq(Addr)
      BY <2>1, ConcatProperties
    <3>3. QED
      BY <2>1, <2>4, <3>1, <3>2 DEF RecordInv
  <2>6. Cardinality(Used) = Len(list)
    BY <2>5, ElemsCounted
  <2>7. {list[i] : i \in DOMAIN list} = Used /\ Len(list) = Cardinality(Used)
    BY <2>5, <2>6 DEF Elems
  <2>8. To("node", root)
    BY <2>1 DEF PointersInv
  <2>9. QED
    BY <2>2, <2>3, <2>4, <2>7, <2>8 DEF HeapOK
<1>2. Inv => HeapOK
  BY <1>1
<1>3. QED
  BY <1>2, Invariance, PTL

-----------------------------------------------------------------------------
(* Reachability.                                                           *)

Further(S) == UNION {{a} \cup Targets(a) : a \in S}

(* "within" of From, up to k. *)
IsWithin(f, start, k) ==
  f = [n \in 0..k |-> IF n = 0 THEN start ELSE Further(f[n - 1])]

LEMMA WithinValues ==
  ASSUME NEW f, NEW start, NEW k \in Nat, IsWithin(f, start, k)
  PROVE  /\ f[0] = start
         /\ \A n \in 0..k : n + 1 \in 0..k => f[n + 1] = Further(f[n])
<1>1. DOMAIN f = 0..k /\ 0 \in 0..k
  BY DEF IsWithin
<1>2. \A n \in 0..k : f[n] = IF n = 0 THEN start ELSE Further(f[n - 1])
  BY DEF IsWithin
<1>3. ASSUME NEW n \in 0..k, n + 1 \in 0..k PROVE f[n + 1] = Further(f[n])
  <2>1. PICK m : m = n + 1
    OBVIOUS
  <2>2. m \in 0..k /\ m # 0 /\ m - 1 = n
    BY <1>3, <2>1
  <2>3. f[m] = Further(f[m - 1])
    BY <1>2, <2>2
  <2>4. QED
    BY <2>1, <2>2, <2>3
<1>4. QED
  BY <1>1, <1>2, <1>3

LEMMA WithinExists ==
  ASSUME NEW start, NEW k \in Nat
  PROVE  \E f : IsWithin(f, start, k)
<1> DEFINE Bad == {n \in Nat : ~\E f : IsWithin(f, start, n)}
<1>1. SUFFICES Bad = {}
  OBVIOUS
<1>2. SUFFICES ASSUME Bad # {} PROVE FALSE
  OBVIOUS
<1>3. PICK n \in Bad : \A m \in Bad : n <= m
  <2>1. Bad \subseteq Nat
    OBVIOUS
  <2> HIDE DEF Bad
  <2>2. QED
    BY <1>2, <2>1, LeastNat
<1>4. n \in Nat /\ ~\E f : IsWithin(f, start, n)
  OBVIOUS
<1>5. CASE n = 0
  <2> DEFINE f == [i \in 0..0 |-> start]
  <2>1. \A i \in 0..0 : i = 0
    OBVIOUS
  <2>2. f = [i \in 0..0 |-> IF i = 0 THEN start ELSE Further(f[i - 1])]
    BY <2>1
  <2>3. IsWithin(f, start, n)
    BY <1>5, <2>2 DEF IsWithin
  <2>4. QED
    BY <1>4, <2>3
<1>6. CASE n # 0
  <2>1. n - 1 \in Nat /\ ~(n <= n - 1)
    BY <1>4, <1>6
  <2>2. n - 1 \notin Bad
    BY <1>3, <2>1
  <2>3. PICK g : IsWithin(g, start, n - 1)
    BY <2>1, <2>2
  <2>4. g = [i \in 0..(n - 1) |-> IF i = 0 THEN start ELSE Further(g[i - 1])]
    BY <2>3 DEF IsWithin
  <2> DEFINE f == [i \in 0..n |-> IF i = 0 THEN start ELSE Further(g[i - 1])]
  <2>5. \A i \in 0..(n - 1) : i \in 0..n /\ f[i] = g[i]
    BY <2>1, <2>4
  <2>6. \A i \in 0..n : i # 0 => i - 1 \in 0..(n - 1)
    BY <1>4
  <2>7. \A i \in 0..n : i # 0 => f[i - 1] = g[i - 1]
    BY <2>5, <2>6
  <2>8. f = [i \in 0..n |-> IF i = 0 THEN start ELSE Further(f[i - 1])]
    <3> DEFINE h == [i \in 0..n |-> IF i = 0 THEN start ELSE Further(f[i - 1])]
    <3>1. \A i \in 0..n : f[i] = h[i]
      BY <2>7
    <3>2. QED
      BY <3>1
  <2>9. IsWithin(f, start, n)
    BY <2>8 DEF IsWithin
  <2>10. QED
    BY <1>4, <2>9
<1>7. QED
  BY <1>5, <1>6

LEMMA FromWithin ==
  ASSUME NEW start
  PROVE  \E f : IsWithin(f, start, HeapSize) /\ From(start) = f[HeapSize]
<1> DEFINE W == CHOOSE f : IsWithin(f, start, HeapSize)
<1>1. IsWithin(W, start, HeapSize)
  <2>1. HeapSize \in Nat
    BY HeapAssumption
  <2>2. \E f : IsWithin(f, start, HeapSize)
    BY <2>1, WithinExists
  <2>3. QED
    BY <2>2
<1>2. From(start) = W[HeapSize]
  BY DEF From, IsWithin, Further
<1>3. QED
  BY <1>1, <1>2

Closed(S) == \A a \in S : Targets(a) \subseteq S

LEMMA FurtherStays ==
  ASSUME NEW S, S \subseteq Addr, \A a \in Addr : Targets(a) \subseteq Addr
  PROVE  /\ S \subseteq Further(S) /\ Further(S) \subseteq Addr
         /\ Further(S) = S <=> Closed(S)
         /\ \A C : S \subseteq C /\ Closed(C) => Further(S) \subseteq C
<1>1. \A x : x \in Further(S) <=> \E a \in S : x = a \/ x \in Targets(a)
  BY DEF Further
<1>2. QED
  BY <1>1 DEF Closed

(* A set of chunks that can grow HeapSize times has more than HeapSize. *)
LEMMA NoMoreRoom ==
  ASSUME NEW S, S \subseteq Addr
  PROVE  Cardinality(S) \in Nat /\ Cardinality(S) <= HeapSize
<1>1. HeapSize \in Nat
  BY HeapAssumption
<1>2. IsFiniteSet(Addr) /\ Cardinality(Addr) = HeapSize
  BY <1>1, FS_Interval, HeapFinite DEF Addr
<1>3. QED
  BY <1>2, FS_Subset, FS_CardinalityType

LEMMA Grown ==
  ASSUME NEW S, NEW U, S \subseteq U, U \subseteq Addr, S # U
  PROVE  Cardinality(U) >= Cardinality(S) + 1
<1>1. IsFiniteSet(U)
  BY HeapFinite, FS_Subset
<1>2. Cardinality(S) < Cardinality(U)
  BY <1>1, FS_Subset, FS_CardinalityType
<1>3. Cardinality(S) \in Nat /\ Cardinality(U) \in Nat
  BY NoMoreRoom
<1>4. QED
  BY <1>2, <1>3

(* What can be reached from "start" is the least set that contains it and  *)
(* is closed under following pointers.                                     *)
LEMMA FromIsLeast ==
  ASSUME NEW start, start \subseteq Addr, \A a \in Addr : Targets(a) \subseteq Addr
  PROVE  /\ start \subseteq From(start) /\ From(start) \subseteq Addr
         /\ Closed(From(start))
         /\ \A C : start \subseteq C /\ Closed(C) => From(start) \subseteq C
<1>1. PICK W : IsWithin(W, start, HeapSize) /\ From(start) = W[HeapSize]
  BY FromWithin
<1>2. HeapSize \in Nat
  BY HeapAssumption
<1>3. /\ W[0] = start
      /\ \A n \in 0..HeapSize : n + 1 \in 0..HeapSize => W[n + 1] = Further(W[n])
  BY <1>1, <1>2, WithinValues
(* Within start, on every level, and within every closed set. *)
<1>4. ASSUME NEW C, start \subseteq C, C \subseteq Addr, Closed(C), NEW n \in 0..HeapSize
      PROVE  start \subseteq W[n] /\ W[n] \subseteq C
  <2> DEFINE Bad == {k \in 0..HeapSize : ~(start \subseteq W[k] /\ W[k] \subseteq C)}
  <2>1. SUFFICES ASSUME Bad # {} PROVE FALSE
    BY <1>4
  <2>2. PICK k \in Bad : \A m \in Bad : k <= m
    <3>1. Bad \subseteq Nat
      OBVIOUS
    <3> HIDE DEF Bad
    <3>2. QED
      BY <2>1, <3>1, LeastNat
  <2>3. k \in 0..HeapSize /\ ~(start \subseteq W[k] /\ W[k] \subseteq C)
    BY <2>2
  <2>4. k # 0
    BY <1>3, <1>4, <2>3
  <2>5. PICK j : j = k - 1
    OBVIOUS
  <2>6. j \in 0..HeapSize /\ j + 1 = k /\ ~(k <= j)
    BY <1>2, <2>3, <2>4, <2>5
  <2>7. j \notin Bad
    BY <2>2, <2>6
  <2>8. start \subseteq W[j] /\ W[j] \subseteq C
    BY <2>6, <2>7
  <2>9. W[k] = Further(W[j])
    BY <1>3, <2>3, <2>6
  <2>10. W[j] \subseteq Addr
    BY <1>4, <2>8
  <2>11. W[j] \subseteq Further(W[j]) /\ Further(W[j]) \subseteq C
    BY <1>4, <2>8, <2>10, FurtherStays
  <2>12. QED
    BY <2>3, <2>8, <2>9, <2>11
<1>5. Closed(Addr)
  BY DEF Closed
<1>6. \A n \in 0..HeapSize : start \subseteq W[n] /\ W[n] \subseteq Addr
  BY <1>4, <1>5
<1>7. HeapSize \in 0..HeapSize
  BY <1>2
(* Once a level adds nothing, no later one does. *)
<1>8. ASSUME NEW n \in 0..HeapSize, Closed(W[n])
      PROVE  Closed(W[HeapSize])
  <2>1. start \subseteq W[n] /\ W[n] \subseteq Addr
    BY <1>6
  <2> DEFINE Bad == {k \in 0..HeapSize : k >= n /\ W[k] # W[n]}
  <2>2. Bad = {}
    <3>1. SUFFICES ASSUME Bad # {} PROVE FALSE
      OBVIOUS
    <3>2. PICK k \in Bad : \A m \in Bad : k <= m
      <4>1. Bad \subseteq Nat
        OBVIOUS
      <4> HIDE DEF Bad
      <4>2. QED
        BY <3>1, <4>1, LeastNat
    <3>3. k \in 0..HeapSize /\ k >= n /\ W[k] # W[n]
      BY <3>2
    <3>4. PICK j : j = k - 1
      OBVIOUS
    <3>5. k # n
      BY <3>3
    <3>6. j \in 0..HeapSize /\ j + 1 = k /\ j >= n /\ ~(k <= j)
      BY <1>2, <3>3, <3>4, <3>5
    <3>7. j \notin Bad
      BY <3>2, <3>6
    <3>8. W[j] = W[n]
      BY <3>6, <3>7
    <3>9. W[k] = Further(W[j])
      BY <1>3, <3>3, <3>6
    <3>10. Further(W[n]) = W[n]
      BY <1>8, <2>1, FurtherStays
    <3>11. QED
      BY <3>3, <3>8, <3>9, <3>10
  <2>3. HeapSize >= n
    BY <1>2
  <2>4. W[HeapSize] = W[n]
    BY <1>7, <2>2, <2>3
  <2>5. QED
    BY <1>8, <2>4
(* Otherwise every level adds a chunk, and there are not so many. *)
<1>9. Closed(W[HeapSize])
  <2>1. CASE start = {}
    <3>1. Closed(W[0])
      BY <1>3, <2>1 DEF Closed
    <3>2. 0 \in 0..HeapSize
      BY <1>2
    <3>3. QED
      BY <1>8, <3>1, <3>2
  <2>2. CASE start # {} /\ \A n \in 0..HeapSize : ~Closed(W[n])
    <3> DEFINE Bad == {k \in 0..HeapSize : ~(Cardinality(W[k]) >= k + 1)}
    <3>1. HeapSize \in Bad
      <4>1. W[HeapSize] \subseteq Addr
        BY <1>6, <1>7
      <4>2. Cardinality(W[HeapSize]) \in Nat /\ Cardinality(W[HeapSize]) <= HeapSize
        BY <4>1, NoMoreRoom
      <4>3. QED
        BY <1>2, <1>7, <4>2
    <3>2. PICK k \in Bad : \A m \in Bad : k <= m
      <4>1. Bad \subseteq Nat /\ Bad # {}
        BY <3>1
      <4> HIDE DEF Bad
      <4>2. QED
        BY <4>1, LeastNat
    <3>3. k \in 0..HeapSize /\ ~(Cardinality(W[k]) >= k + 1)
      BY <3>2
    <3>4. CASE k = 0
      <4>1. Cardinality(start) \in Nat
        BY NoMoreRoom
      <4>2. IsFiniteSet(start)
        BY HeapFinite, FS_Subset
      <4>3. Cardinality(start) # 0
        BY <2>2, <4>2, FS_EmptySet
      <4>4. QED
        BY <1>3, <3>3, <3>4, <4>1, <4>3
    <3>5. CASE k # 0
      <4>1. PICK j : j = k - 1
        OBVIOUS
      <4>2. j \in 0..HeapSize /\ j + 1 = k /\ ~(k <= j)
        BY <1>2, <3>3, <3>5, <4>1
      <4>3. j \notin Bad
        BY <3>2, <4>2
      <4>4. Cardinality(W[j]) >= j + 1
        BY <4>2, <4>3
      <4>5. W[j] \subseteq Addr /\ W[k] \subseteq Addr /\ W[k] = Further(W[j])
        BY <1>3, <1>6, <3>3, <4>2
      <4>6. W[j] \subseteq W[k] /\ W[j] # W[k]
        BY <2>2, <4>2, <4>5, FurtherStays
      <4>7. Cardinality(W[k]) >= Cardinality(W[j]) + 1
        BY <4>5, <4>6, Grown
      <4>8. Cardinality(W[k]) \in Nat /\ Cardinality(W[j]) \in Nat
        BY <4>5, NoMoreRoom
      <4>9. QED
        BY <3>3, <4>2, <4>4, <4>7, <4>8
    <3>6. QED
      BY <3>4, <3>5
  <2>3. QED
    BY <1>8, <2>1, <2>2
<1>10. ASSUME NEW C, start \subseteq C, Closed(C) PROVE From(start) \subseteq C
  <2>1. PICK D : D = C \cap Addr
    OBVIOUS
  <2>2. start \subseteq D /\ D \subseteq Addr /\ Closed(D)
    BY <1>10, <2>1 DEF Closed
  <2>3. W[HeapSize] \subseteq D
    BY <1>4, <1>7, <2>2
  <2>4. QED
    BY <1>1, <2>1, <2>3
<1>11. start \subseteq W[HeapSize] /\ W[HeapSize] \subseteq Addr
  BY <1>6, <1>7
<1>12. QED
  BY <1>1, <1>9, <1>10, <1>11

(* What Reach is, in the current state. *)
ReachLeast ==
  /\ root # NULL => root \in Reach
  /\ Reach \subseteq Addr
  /\ Closed(Reach)
  /\ \A C : (root # NULL => root \in C) /\ Closed(C) => Reach \subseteq C

LEMMA ReachFacts == TypeOK => ReachLeast
<1> SUFFICES ASSUME TypeOK PROVE ReachLeast
  OBVIOUS
<1>1. \A a \in Addr : Targets(a) \subseteq Addr
  BY TargetsInHeap
<1>2. PICK start : start = {root} \ {NULL}
  OBVIOUS
<1>3. start \subseteq Addr /\ Reach = From(start)
  BY <1>2 DEF TypeOK, Pointer, Reach
<1>4. /\ start \subseteq From(start) /\ From(start) \subseteq Addr
      /\ Closed(From(start))
      /\ \A C : start \subseteq C /\ Closed(C) => From(start) \subseteq C
  BY <1>1, <1>3, FromIsLeast
<1>5. root # NULL => root \in Reach
  BY <1>2, <1>3, <1>4
<1>6. ASSUME NEW C, root # NULL => root \in C, Closed(C) PROVE Reach \subseteq C
  BY <1>2, <1>3, <1>4, <1>6
<1>7. QED
  BY <1>3, <1>4, <1>5, <1>6 DEF ReachLeast

LEMMA ReachFactsNext == TypeOK' => ReachLeast'
BY ReachFacts, PTL

(* What can be reached stays the same if its pointers do. *)
LEMMA SameReach ==
  ASSUME TypeOK, TypeOK', root' = root, \A a \in Reach : Targets(a)' = Targets(a)
  PROVE  Reach' = Reach
<1>1. ReachLeast /\ ReachLeast'
  BY ReachFacts, ReachFactsNext
<1>2. PICK R, S, r : R = Reach /\ S = Reach' /\ r = root
  OBVIOUS
<1>3. /\ r # NULL => r \in R
      /\ \A a \in R : Targets(a) \subseteq R
      /\ \A C : (r # NULL => r \in C) /\ (\A a \in C : Targets(a) \subseteq C) => R \subseteq C
  BY <1>1, <1>2 DEF ReachLeast, Closed
<1>4. /\ r # NULL => r \in S
      /\ \A a \in S : Targets(a)' \subseteq S
      /\ \A C : (r # NULL => r \in C) /\ (\A a \in C : Targets(a)' \subseteq C) => S \subseteq C
  BY <1>1, <1>2 DEF ReachLeast, Closed
<1>5. \A a \in R : Targets(a)' = Targets(a)
  BY <1>2
<1>6. S \subseteq R
  BY <1>3, <1>4, <1>5
<1>7. R \subseteq S
  <2>1. \A a \in S : Targets(a) \subseteq S
    BY <1>4, <1>5, <1>6
  <2>2. QED
    BY <1>3, <1>4, <2>1
<1>8. QED
  BY <1>2, <1>6, <1>7

(* The marker marks, and will follow, only what can be reached. *)
ReachInv ==
  gc \in {"mark", "sweep"} =>
    /\ \A a \in Addr : inUse[a] => a \in Reach
    /\ \A i \in DOMAIN stack : stack[i] \in Reach \cup {NULL}

LEMMA VisitReaches ==
  ASSUME TypeOK, NEW R, Closed(R), NEW p, p # NULL => p \in Nodes /\ p \in R,
         NEW marks, \A a \in Addr : marks[a] => a \in R,
         NEW calls \in Seq(Pointer), \A i \in DOMAIN calls : calls[i] \in R \cup {NULL},
         VisitNode(p, marks, calls)
  PROVE  /\ \A a \in Addr : inUse'[a] => a \in R
         /\ \A i \in DOMAIN stack' : stack'[i] \in R \cup {NULL}
<1>1. CASE inUse' = marks /\ stack' = calls
  BY <1>1
<1>2. CASE /\ p # NULL
           /\ inUse' = Marked(Marked(marks, p), mem[p].name)
           /\ stack' = Append(calls, mem[p].links)
  <2>1. PICK name, links : name = mem[p].name /\ links = mem[p].links
    OBVIOUS
  <2>2. p \in Nodes /\ p \in R /\ p \in Addr
    BY <1>2 DEF Nodes, ChunksOf
  <2>3. links \in Pointer /\ Targets(p) = {name, links} \ {NULL}
    BY <2>1, <2>2, ChunkKinds, TargetsOf DEF Nodes, ChunksOf
  <2>4. name \in R \cup {NULL} /\ links \in R \cup {NULL}
    BY <2>2, <2>3 DEF Closed
  <2>5. \A a \in Addr : inUse'[a] => marks[a] \/ a = p \/ a = name
    BY <1>2, <2>1 DEF Marked
  <2>6. NULL \notin Addr
    BY Addresses
  <2>7. PICK n \in Nat : n = Len(calls)
    OBVIOUS
  <2>8. /\ DOMAIN calls = 1..n /\ DOMAIN stack' = 1..(n + 1)
        /\ \A i \in 1..n : stack'[i] = calls[i]
        /\ stack'[n + 1] = links
    BY <1>2, <2>1, <2>3, <2>7, AppendProperties
  <2>9. \A i \in 1..(n + 1) : i \in 1..n \/ i = n + 1
    OBVIOUS
  <2>10. QED
    BY <2>2, <2>4, <2>5, <2>6, <2>8, <2>9
<1>3. QED
  BY <1>1, <1>2 DEF VisitNode

LEMMA CallReaches ==
  ASSUME Inv, Inv', NEW r, MarkAndSweep(r), r = root \/ r = NULL, root' = r
  PROVE  ReachInv'
<1>1. /\ TypeOK /\ PointersInv /\ TypeOK' /\ gc = "run"
      /\ UNCHANGED mem
      /\ VisitNode(r, Cleared, <<>>)
  BY DEF Inv, MarkAndSweep
<1>2. ReachLeast'
  BY <1>1, ReachFactsNext
<1>3. PICK R : R = Reach'
  OBVIOUS
<1>4. Closed(R)
  <2>1. \A a \in R : Targets(a)' \subseteq R
    BY <1>2, <1>3 DEF ReachLeast, Closed
  <2>2. \A a \in R : Targets(a)' = Targets(a)
    BY <1>1 DEF Targets
  <2>3. QED
    BY <2>1, <2>2 DEF Closed
<1>5. r # NULL => r \in Nodes /\ r \in R
  BY <1>1, <1>2, <1>3 DEF ReachLeast, PointersInv, To, Nodes
<1>6. /\ \A a \in Addr : ~Cleared[a]
      /\ <<>> \in Seq(Pointer) /\ DOMAIN <<>> = {}
  BY DEF Cleared
<1>7. PICK marks, calls : marks = Cleared /\ calls = <<>>
  OBVIOUS
<1>8. /\ \A a \in Addr : marks[a] => a \in R
      /\ calls \in Seq(Pointer) /\ \A i \in DOMAIN calls : calls[i] \in R \cup {NULL}
      /\ VisitNode(r, marks, calls)
  BY <1>1, <1>6, <1>7
<1>9. /\ \A a \in Addr : inUse'[a] => a \in R
      /\ \A i \in DOMAIN stack' : stack'[i] \in R \cup {NULL}
  BY <1>1, <1>4, <1>5, <1>8, VisitReaches
<1>10. QED
  BY <1>3, <1>9 DEF ReachInv

LEMMA MarkLinkReaches ==
  ASSUME Inv, Inv', ReachInv, MarkLink
  PROVE  ReachInv'
<1>1. /\ TypeOK /\ TypeOK' /\ RecordInv /\ PointersInv /\ MarkInv /\ gc = "mark"
      /\ stack # <<>> /\ Top # NULL
      /\ UNCHANGED <<mem, root>>
  BY DEF Inv, MarkLink
<1>2. Reach' = Reach /\ ReachLeast
  <2>1. \A a : Targets(a)' = Targets(a)
    BY <1>1 DEF Targets
  <2>2. QED
    BY <1>1, <2>1, SameReach, ReachFacts
<1>3. PICK n \in Nat :
        /\ Len(stack) = n + 1 /\ DOMAIN stack = 1..(n + 1) /\ Top = stack[n + 1]
        /\ Callers \in Seq(Pointer) /\ Len(Callers) = n /\ DOMAIN Callers = 1..n
        /\ \A i \in 1..n : Callers[i] = stack[i] /\ i \in 1..(n + 1)
        /\ \A i \in 1..(n + 1) : i \in 1..n \/ i = n + 1
  BY <1>1, TopOfStack
<1>4. PICK l, R : l = Top /\ R = Reach
  OBVIOUS
<1>5. Closed(R)
  BY <1>2, <1>4 DEF ReachLeast, Closed
<1>6. /\ \A a \in Addr : inUse[a] => a \in R
      /\ \A i \in DOMAIN stack : stack[i] \in R \cup {NULL}
  BY <1>1, <1>4 DEF ReachInv
<1>7. l \in Links /\ l \in Addr /\ l \in R
  <2>1. n + 1 \in 1..(n + 1)
    OBVIOUS
  <2>2. To("link", l) /\ l \in R
    BY <1>1, <1>3, <1>4, <1>6, <2>1 DEF MarkInv
  <2>3. QED
    BY <1>1, <1>4, <2>2 DEF To, Links, ChunksOf
<1>8. PICK target, next : target = mem[l].fptr /\ next = mem[l].next
  OBVIOUS
<1>9. /\ target \in Nodes /\ next \in Pointer
      /\ Targets(l) = {target, next} \ {NULL}
  BY <1>1, <1>7, <1>8, Following, ChunkKinds
<1>10. target \in R \cup {NULL} /\ next \in R \cup {NULL}
  BY <1>5, <1>7, <1>9 DEF Closed
<1>11. PICK calls : calls = Append(Callers, next)
  OBVIOUS
<1>12. /\ calls \in Seq(Pointer) /\ DOMAIN calls = 1..(n + 1)
       /\ \A i \in 1..n : calls[i] = stack[i]
       /\ calls[n + 1] = next
  BY <1>3, <1>9, <1>11, AppendProperties
<1>13. \A i \in DOMAIN calls : calls[i] \in R \cup {NULL}
  BY <1>3, <1>6, <1>10, <1>12
<1>14. PICK marks : marks = Marked(inUse, l)
  OBVIOUS
<1>15. \A a \in Addr : marks[a] => a \in R
  BY <1>6, <1>7, <1>14 DEF Marked
<1>16. /\ \A a \in Addr : inUse'[a] => a \in R
       /\ \A i \in DOMAIN stack' : stack'[i] \in R \cup {NULL}
  <2>1. CASE stack' = calls /\ UNCHANGED inUse
    BY <1>6, <1>13, <2>1
  <2>2. CASE VisitNode(target, marks, calls)
    BY <1>1, <1>5, <1>9, <1>10, <1>12, <1>13, <1>15, <2>2, VisitReaches
  <2>3. QED
    BY <1>4, <1>8, <1>11, <1>14, <2>1, <2>2 DEF MarkLink
<1>17. QED
  BY <1>2, <1>4, <1>16 DEF ReachInv

LEMMA LeaveNodeReaches ==
  ASSUME Inv, Inv', ReachInv, LeaveNode
  PROVE  ReachInv'
<1>1. /\ TypeOK /\ TypeOK' /\ gc = "mark" /\ stack # <<>> /\ stack' = Callers
      /\ UNCHANGED <<mem, root, inUse>>
  BY DEF Inv, LeaveNode, gcVars
<1>2. Reach' = Reach
  <2>1. \A a : Targets(a)' = Targets(a)
    BY <1>1 DEF Targets
  <2>2. QED
    BY <1>1, <2>1, SameReach
<1>3. PICK n \in Nat :
        /\ Len(stack) = n + 1 /\ DOMAIN stack = 1..(n + 1) /\ Top = stack[n + 1]
        /\ Callers \in Seq(Pointer) /\ Len(Callers) = n /\ DOMAIN Callers = 1..n
        /\ \A i \in 1..n : Callers[i] = stack[i] /\ i \in 1..(n + 1)
        /\ \A i \in 1..(n + 1) : i \in 1..n \/ i = n + 1
  BY <1>1, TopOfStack
<1>4. QED
  BY <1>1, <1>2, <1>3 DEF ReachInv

(* When the marker is done, what is marked is what can be reached. *)
LEMMA SweepReach ==
  ASSUME Inv, ReachInv, gc = "sweep"
  PROVE  \A a \in Addr : a \in Reach <=> inUse[a]
<1>1. /\ TypeOK
      /\ root # NULL => inUse[root]
      /\ \A a \in Addr : inUse[a] => \A b \in Targets(a) : inUse[b]
  BY Sweeping
<1>2. ReachLeast /\ \A a \in Addr : Targets(a) \subseteq Addr
  BY <1>1, ReachFacts, TargetsInHeap
<1>3. PICK C : C = {a \in Addr : inUse[a]}
  OBVIOUS
<1>4. Closed(C)
  BY <1>1, <1>2, <1>3 DEF Closed
<1>5. root # NULL => root \in C
  BY <1>1, <1>3 DEF TypeOK, Pointer
<1>6. Reach \subseteq C
  BY <1>2, <1>4, <1>5 DEF ReachLeast
<1>7. QED
  BY <1>3, <1>6 DEF ReachInv

LEMMA SweepKeepsReach ==
  ASSUME Inv, Inv', ReachInv, gc = "sweep", FreeChunk \/ KeepChunk \/ UNCHANGED mem,
         root' = root
  PROVE  Reach' = Reach
<1>1. TypeOK /\ TypeOK' /\ mem \in [Addr -> Chunks]
  BY DEF Inv, TypeOK
<1>2. CASE UNCHANGED mem
  <2>1. \A a : Targets(a)' = Targets(a)
    BY <1>2 DEF Targets
  <2>2. QED
    BY <1>1, <2>1, SameReach
<1>3. CASE FreeChunk
  <2>1. PICK h : h = Head(memory)
    OBVIOUS
  <2>2. ~inUse[h] /\ mem' = [mem EXCEPT ![h] = Free]
    BY <1>3, <2>1 DEF FreeChunk
  <2>3. Reach \subseteq Addr /\ \A a \in Addr : a \in Reach <=> inUse[a]
    BY <1>1, ReachFacts, SweepReach DEF ReachLeast
  <2>4. \A a \in Reach : a # h /\ mem'[a] = mem[a]
    BY <1>1, <2>2, <2>3
  <2>5. \A a \in Reach : Targets(a)' = Targets(a)
    BY <2>4 DEF Targets
  <2>6. QED
    BY <1>1, <2>5, SameReach
<1>4. QED
  BY <1>2, <1>3 DEF KeepChunk

LEMMA NextReaches == Inv /\ Inv' /\ ReachInv /\ [Next]_vars => ReachInv'
<1> SUFFICES ASSUME Inv, Inv', ReachInv, [Next]_vars PROVE ReachInv'
  OBVIOUS
<1>1. CASE gc' \notin {"mark", "sweep"}
  BY <1>1 DEF ReachInv
<1>2. ASSUME gc = "run", gc' = "run" PROVE ReachInv'
  BY <1>2 DEF ReachInv
<1>3. ASSUME UNCHANGED vars PROVE ReachInv'
  <2>1. UNCHANGED <<mem, gc, inUse, stack, root>>
    BY <1>3 DEF vars, gcVars
  <2>2. \A a : Targets(a)' = Targets(a)
    BY <2>1 DEF Targets
  <2>3. Reach' = Reach
    BY <2>1, <2>2, SameReach DEF Inv
  <2>4. QED
    BY <2>1, <2>3 DEF ReachInv
<1>4. ASSUME gc = "sweep", gc' = "sweep", FreeChunk \/ KeepChunk, UNCHANGED <<root, stack>>
      PROVE  ReachInv'
  <2>1. Reach' = Reach
    BY <1>4, SweepKeepsReach
  <2>2. UNCHANGED inUse
    BY <1>4 DEF FreeChunk, KeepChunk
  <2>3. QED
    BY <1>4, <2>1, <2>2 DEF ReachInv
<1>5. ASSUME Sweep PROVE ReachInv'
  <2>1. UNCHANGED <<root, stack>>
    BY <1>5 DEF Sweep
  <2>2. CASE FreeChunk \/ KeepChunk
    BY <1>4, <2>1, <2>2 DEF FreeChunk, KeepChunk
  <2>3. CASE EndSweep(IF atEnd THEN "done" ELSE "run")
    <3>1. gc' \in {"run", "done"}
      BY <2>3 DEF EndSweep
    <3>2. QED
      BY <1>1, <3>1
  <2>4. QED
    BY <1>5, <2>2, <2>3 DEF Sweep
<1>6. ASSUME MarkingDone PROVE ReachInv'
  <2>1. gc = "mark" /\ UNCHANGED <<mem, inUse, stack, root>>
    BY <1>6 DEF MarkingDone
  <2>2. \A a : Targets(a)' = Targets(a)
    BY <2>1 DEF Targets
  <2>3. Reach' = Reach
    BY <2>1, <2>2, SameReach DEF Inv
  <2>4. QED
    BY <2>1, <2>3 DEF ReachInv
<1>7. ASSUME Collect PROVE ReachInv'
  <2>1. CASE MarkAndSweep(root)
    BY <1>7, <2>1, CallReaches DEF Collect
  <2>2. CASE LogFails
    BY <1>1, <2>2 DEF LogFails
  <2>3. QED
    BY <1>7, <2>1, <2>2 DEF Collect
<1>8. ASSUME EndOfFile PROVE ReachInv'
  <2>1. CASE MarkAndSweep(NULL)
    BY <1>8, <2>1, CallReaches DEF EndOfFile
  <2>2. CASE LogFails
    BY <1>1, <2>2 DEF LogFails
  <2>3. QED
    BY <1>8, <2>1, <2>2 DEF EndOfFile
<1>9. ASSUME OutOfMemory PROVE ReachInv'
  BY <1>1, <1>9 DEF OutOfMemory
<1>10. ASSUME gc = "run", UNCHANGED gc PROVE ReachInv'
  BY <1>2, <1>10
<1>11. ASSUME CreateRoot PROVE ReachInv'
  BY <1>9, <1>10, <1>11 DEF CreateRoot, Allocate
<1>12. ASSUME NEW path \in Paths, NEW nm \in Names, AddNode(path, nm) PROVE ReachInv'
  <2>1. OutOfMemory \/ UNCHANGED gc
    BY <1>12 DEF AddNode, Allocate
  <2>2. QED
    BY <1>9, <1>10, <1>12, <2>1 DEF AddNode, Transaction
<1>13. ASSUME NEW dest \in Paths, NEW src \in Paths, NEW nm \in Names,
              AddHardLink(dest, src, nm)
       PROVE  ReachInv'
  <2>1. OutOfMemory \/ UNCHANGED gc
    BY <1>13 DEF AddHardLink, Allocate
  <2>2. QED
    BY <1>9, <1>10, <1>13, <2>1 DEF AddHardLink, Transaction
<1>14. ASSUME NEW path \in Paths, NEW nm \in Names, RemoveNode(path, nm) PROVE ReachInv'
  BY <1>10, <1>14 DEF RemoveNode, Transaction
<1>15. ASSUME AddFails PROVE ReachInv'
  BY <1>10, <1>15 DEF AddFails, Transaction, gcVars
<1>16. ASSUME RemoveCrashes \/ PrintCrashes PROVE ReachInv'
  BY <1>1, <1>16 DEF RemoveCrashes, PrintCrashes
<1>17. CASE Next
  BY <1>3, <1>5, <1>6, <1>7, <1>8, <1>11, <1>12, <1>13, <1>14, <1>15, <1>16, <1>17,
     MarkLinkReaches, LeaveNodeReaches DEF Next, Stopped
<1>18. QED
  BY <1>3, <1>17

LEMMA Reaches == Spec => []ReachInv
<1>1. Init => ReachInv
  BY DEF Init, CollectorInit, ReachInv
<1>2. QED
  BY <1>1, InitInv, NextInv, NextReaches, PTL DEF Spec

(* The marker leaves nothing behind and marks nothing that cannot be       *)
(* reached, whatever hard links and cycles there are: in the middle of its *)
(* recursion, what a marked chunk points to is marked or waits in an       *)
(* active call.                                                            *)
THEOREM Marker == Spec => []Frontier
<1>1. ASSUME Inv, ReachInv PROVE Frontier
  BY <1>1 DEF Inv, MarkInv, ReachInv, Frontier, OnStack
<1>2. Inv /\ ReachInv => Frontier
  BY <1>1
<1>3. QED
  BY <1>2, Invariance, Reaches, PTL

-----------------------------------------------------------------------------
(* Lists of links end.                                                     *)

Descends(rank) ==
  \A l \in Links : Stays(l) /\ mem[l].next # NULL => rank[mem[l].next] < rank[l]

(* There is an order in which every link comes before the next one of its  *)
(* list, in spite of all cycles through hard links.                        *)
RankInv == \E b \in Nat : \E rank \in [Addr -> 0..b] : Descends(rank)

LEMMA RankKept ==
  ASSUME Inv, RankInv,
         \A l \in Links' : Stays(l)' =>
           /\ l \in Links /\ Stays(l)
           /\ \/ mem'[l].next = NULL
              \/ mem'[l].next = mem[l].next
              \/ /\ mem[l].next \in Links /\ Stays(mem[l].next)
                 /\ mem'[l].next = mem[mem[l].next].next
  PROVE  RankInv'
<1>0. PICK b \in Nat : \E rank \in [Addr -> 0..b] : Descends(rank)
  BY DEF RankInv
<1>1. PICK rank \in [Addr -> 0..b] : Descends(rank)
  BY <1>0
<1>2. TypeOK /\ PointersInv
  BY DEF Inv
<1>3. \A l \in Links : l \in Addr /\ (Stays(l) => mem[l].next = NULL \/ mem[l].next \in Links)
  BY <1>2 DEF PointersInv, Leads, To, Links, ChunksOf
<1>4. \A a \in Addr : rank[a] \in Int
  BY <1>1
<1>5. ASSUME NEW l \in Links', Stays(l)', mem'[l].next # NULL
      PROVE  rank[mem'[l].next] < rank[l]
  <2>1. /\ l \in Links /\ Stays(l) /\ l \in Addr
        /\ \/ mem'[l].next = mem[l].next
           \/ /\ mem[l].next \in Links /\ Stays(mem[l].next)
              /\ mem'[l].next = mem[mem[l].next].next
    BY <1>3, <1>5
  <2>2. CASE mem'[l].next = mem[l].next
    BY <1>1, <1>5, <2>1, <2>2 DEF Descends
  <2>3. CASE /\ mem[l].next \in Links /\ Stays(mem[l].next)
             /\ mem'[l].next = mem[mem[l].next].next
    <3>1. PICK k, j : k = mem[l].next /\ j = mem[k].next
      OBVIOUS
    <3>2. k \in Links /\ Stays(k) /\ j # NULL /\ k # NULL /\ mem'[l].next = j
      BY <1>3, <1>5, <2>3, <3>1, Addresses
    <3>3. k \in Addr /\ j \in Addr
      BY <1>3, <3>1, <3>2
    <3>4. rank[k] < rank[l] /\ rank[j] < rank[k]
      BY <1>1, <2>1, <3>1, <3>2 DEF Descends
    <3>5. rank[j] < rank[l]
      BY <1>4, <2>1, <3>3, <3>4
    <3>6. QED
      BY <3>2, <3>5
  <2>4. QED
    BY <2>1, <2>2, <2>3
<1>6. Descends(rank)'
  BY <1>5 DEF Descends
<1>7. QED
  BY <1>1, <1>6 DEF RankInv

(* A new link, in front of those of a list. *)
LEMMA RankGrown ==
  ASSUME Inv, RankInv, gc = "run", NEW l \in Addr \ Used,
         mem'[l].next = NULL \/ mem'[l].next \in Links,
         \A k \in Links' : k = l \/ (k \in Links /\ mem'[k].next = mem[k].next)
  PROVE  RankInv'
<1>0. PICK b \in Nat : \E rank \in [Addr -> 0..b] : Descends(rank)
  BY DEF RankInv
<1>1. PICK rank \in [Addr -> 0..b] : Descends(rank)
  BY <1>0
<1>2. TypeOK /\ PointersInv
  BY DEF Inv
<1>3. \A k \in Links : k \in Addr /\ (mem[k].next = NULL \/ mem[k].next \in Links)
  BY <1>2 DEF PointersInv, Stays, Leads, To, Links, ChunksOf
<1>4. \A k \in Links : k # l
  BY <1>2, ChunkKinds
<1>5. PICK x : x = mem'[l].next
  OBVIOUS
<1>6. PICK new : new = IF x = NULL THEN 0 ELSE rank[x] + 1
  OBVIOUS
<1>7. new \in 0..(b + 1)
  <2>1. x # NULL => x \in Addr
    BY <1>3, <1>5
  <2>2. CASE x = NULL
    BY <1>6, <2>2
  <2>3. CASE x # NULL
    <3>1. rank[x] \in 0..b
      BY <1>1, <2>1, <2>3
    <3>2. QED
      BY <1>6, <2>3, <3>1
  <2>4. QED
    BY <2>2, <2>3
<1>8. PICK higher : higher = [rank EXCEPT ![l] = new]
  OBVIOUS
<1>9. /\ higher[l] = new /\ \A a \in Addr \ {l} : higher[a] = rank[a]
      /\ higher \in [Addr -> 0..(b + 1)]
  <2>1. \A a \in Addr : rank[a] \in 0..(b + 1)
    BY <1>1
  <2>2. QED
    BY <1>1, <1>7, <1>8, <2>1
<1>10. ASSUME NEW k \in Links', mem'[k].next # NULL
       PROVE  higher[mem'[k].next] < higher[k]
  <2>1. CASE k = l
    <3>1. x \in Links /\ x \in Addr /\ x # l /\ x # NULL
      BY <1>3, <1>4, <1>5, <1>10, <2>1
    <3>2. higher[x] = rank[x] /\ rank[x] \in Int /\ higher[l] = rank[x] + 1
      BY <1>1, <1>6, <1>9, <3>1
    <3>3. higher[x] < higher[l]
      BY <3>2
    <3>4. QED
      BY <1>5, <2>1, <3>3
  <2>2. CASE k \in Links /\ mem'[k].next = mem[k].next
    <3>1. PICK j : j = mem[k].next
      OBVIOUS
    <3>2. j \in Links /\ j \in Addr /\ j # l /\ k # l /\ k \in Addr /\ mem'[k].next = j
      BY <1>3, <1>4, <1>10, <2>2, <3>1
    <3>3. rank[j] < rank[k]
      BY <1>1, <1>10, <2>2, <3>1 DEF Descends, Stays
    <3>4. higher[j] < higher[k]
      BY <1>9, <3>2, <3>3
    <3>5. QED
      BY <3>2, <3>4
  <2>3. QED
    BY <1>10, <2>1, <2>2
<1>11. Descends(higher)'
  BY <1>10 DEF Descends
<1>12. b + 1 \in Nat
  BY <1>1
<1>13. QED
  BY <1>9, <1>11, <1>12 DEF RankInv

LEMMA SameRanks ==
  ASSUME Inv, RankInv, UNCHANGED mem, \A l \in Links : Stays(l)' => Stays(l)
  PROVE  RankInv'
<1>1. Links' = Links
  BY DEF Links, ChunksOf
<1>2. QED
  BY <1>1, RankKept

LEMMA NextRanks == Inv /\ Inv' /\ RankInv /\ [Next]_vars => RankInv'
<1> SUFFICES ASSUME Inv, Inv', RankInv, [Next]_vars PROVE RankInv'
  OBVIOUS
<1>1. TypeOK /\ PointersInv /\ TypeOK'
  BY DEF Inv
<1>2. ASSUME UNCHANGED mem, gc # "sweep", gc' # "sweep" PROVE RankInv'
  BY <1>2, SameRanks DEF Stays
<1>3. ASSUME UNCHANGED <<mem, gc, inUse>> PROVE RankInv'
  BY <1>3, SameRanks DEF Stays
<1>4. ASSUME gc # "sweep", UNCHANGED mem PROVE RankInv'
  BY <1>4, SameRanks DEF Stays
<1>5. ASSUME Transaction, OutOfMemory PROVE RankInv'
  BY <1>4, <1>5 DEF Transaction, OutOfMemory
<1>6. ASSUME CreateRoot PROVE RankInv'
  <2>1. gc = "run"
    BY <1>6 DEF CreateRoot
  <2>2. CASE ~HasMemory(2)
    BY <1>4, <1>6, <2>1, <2>2 DEF CreateRoot, OutOfMemory
  <2>3. CASE HasMemory(2)
    <3>1. PICK n \in Addr \ Used, t \in Addr \ Used :
            /\ mem'[n].kind = "node" /\ mem'[t].kind = "name"
            /\ \A a \in Addr \ {n, t} : mem'[a] = mem[a]
      BY <1>1, <1>6, <2>3, CreateRootEffect
    <3>2. \A l \in Links' : l \in Links /\ mem'[l].next = mem[l].next
      BY <3>1 DEF Links, ChunksOf
    <3>3. QED
      BY <2>1, <3>2, RankKept DEF Stays
  <2>4. QED
    BY <2>2, <2>3
<1>7. ASSUME NEW path \in Paths, NEW nm \in Names, AddNode(path, nm) PROVE RankInv'
  <2>1. Transaction
    BY <1>7 DEF AddNode
  <2>2. PICK n, t, l : /\ n = Malloc(Used) /\ t = Malloc(Used \cup {n})
                       /\ l = Malloc(Used \cup {n, t})
    OBVIOUS
  <2>3. PICK fp \in Nodes : NodeAdded(fp, nm, n, t, l) \/ OutOfMemory
    BY <1>7, <2>2 DEF AddNode, NodeAdded
  <2>4. CASE OutOfMemory
    BY <1>5, <2>1, <2>4
  <2>5. CASE NodeAdded(fp, nm, n, t, l)
    <3>1. gc = "run"
      BY <2>1 DEF Transaction
    <3>2. /\ l \in Addr \ Used
          /\ mem'[n].kind = "node" /\ mem'[t].kind = "name" /\ mem'[fp].kind = "node"
          /\ mem'[l].next = mem[fp].links
          /\ \A a \in Addr \ {n, t, l, fp} : mem'[a] = mem[a]
      BY <1>1, <2>5, AddNodeEffect
    <3>3. mem[fp].links = NULL \/ mem[fp].links \in Links
      BY <1>1, <3>1, Following DEF To, Links
    <3>4. \A k \in Links' : k = l \/ (k \in Links /\ mem'[k].next = mem[k].next)
      BY <3>2 DEF Links, ChunksOf
    <3>5. QED
      BY <3>1, <3>2, <3>3, <3>4, RankGrown
  <2>6. QED
    BY <2>3, <2>4, <2>5
<1>8. ASSUME NEW dest \in Paths, NEW src \in Paths, NEW nm \in Names,
             AddHardLink(dest, src, nm)
      PROVE  RankInv'
  <2>1. Transaction
    BY <1>8 DEF AddHardLink
  <2>2. PICK l : l = Malloc(Used)
    OBVIOUS
  <2>3. PICK fp \in Nodes, destp \in Nodes :
          \/ /\ HasMemory(1)
             /\ Allocate(<<l>>, [mem EXCEPT ![l] = LinkAt(fp, mem[destp].links),
                                            ![destp].links = l])
          \/ OutOfMemory
    BY <1>8, <2>2 DEF AddHardLink
  <2>4. CASE OutOfMemory
    BY <1>5, <2>1, <2>4
  <2>5. CASE /\ HasMemory(1)
             /\ Allocate(<<l>>, [mem EXCEPT ![l] = LinkAt(fp, mem[destp].links),
                                            ![destp].links = l])
    <3>1. gc = "run"
      BY <2>1 DEF Transaction
    <3>2. /\ l \in Addr \ Used
          /\ mem'[destp].kind = "node"
          /\ mem'[l].next = mem[destp].links
          /\ \A a \in Addr \ {l, destp} : mem'[a] = mem[a]
      BY <1>1, <2>2, <2>5, AddHardLinkEffect
    <3>3. mem[destp].links = NULL \/ mem[destp].links \in Links
      BY <1>1, <3>1, Following DEF To, Links
    <3>4. \A k \in Links' : k = l \/ (k \in Links /\ mem'[k].next = mem[k].next)
      BY <3>2 DEF Links, ChunksOf
    <3>5. QED
      BY <3>1, <3>2, <3>3, <3>4, RankGrown
  <2>6. QED
    BY <2>3, <2>4, <2>5
<1>9. ASSUME NEW path \in Paths, NEW nm \in Names, RemoveNode(path, nm) PROVE RankInv'
  <2>1. gc = "run" /\ UNCHANGED gc
    BY <1>9 DEF RemoveNode, Transaction
  <2>2. \A a \in Addr : Unlinking(mem', a)
    BY <1>1, <1>9, RemoveNodeEffect
  <2>3. ASSUME NEW l \in Links'
        PROVE  /\ l \in Links
               /\ \/ mem'[l].next = mem[l].next
                  \/ mem[l].next \in Links /\ mem'[l].next = mem[mem[l].next].next
    <3>1. l \in Addr /\ mem'[l].kind = "link"
      BY DEF Links, ChunksOf
    <3>2. Unlinking(mem', l)
      BY <2>2, <3>1
    <3>3. QED
      BY <3>1, <3>2 DEF Unlinking, Links, ChunksOf
  <2>4. QED
    BY <2>1, <2>3, RankKept DEF Stays
<1>10. ASSUME Sweep PROVE RankInv'
  <2>1. CASE FreeChunk
    <3>1. PICK h : h = Head(memory)
      OBVIOUS
    <3>2. /\ gc = "sweep" /\ UNCHANGED <<gc, inUse>> /\ mem' = [mem EXCEPT ![h] = Free]
          /\ mem \in [Addr -> Chunks]
      BY <1>1, <2>1, <3>1 DEF FreeChunk, TypeOK
    <3>3. \A a \in Addr : mem'[a] = mem[a] \/ mem'[a].kind = "free"
      BY <3>2 DEF Free
    <3>4. \A l \in Links' : l \in Links /\ mem'[l].next = mem[l].next
      BY <3>3 DEF Links, ChunksOf
    <3>5. QED
      BY <3>2, <3>4, RankKept DEF Stays
  <2>2. CASE KeepChunk
    BY <1>3, <2>2 DEF KeepChunk
  <2>3. CASE EndSweep(IF atEnd THEN "done" ELSE "run")
    <3>1. gc = "sweep" /\ memory = <<>> /\ UNCHANGED mem
      BY <2>3 DEF EndSweep
    <3>2. RecordInv /\ MarkInv
      BY DEF Inv
    <3>3. \A a \in Used : inUse[a]
      BY <3>1, <3>2, ElemsOfEmpty DEF RecordInv, MarkInv
    <3>4. \A l \in Links : Stays(l)
      BY <1>1, <3>3, ChunkKinds DEF Stays
    <3>5. QED
      BY <3>1, <3>4, SameRanks
  <2>4. QED
    BY <1>10, <2>1, <2>2, <2>3 DEF Sweep
<1>11. ASSUME AddFails \/ RemoveCrashes \/ PrintCrashes PROVE RankInv'
  BY <1>4, <1>11 DEF AddFails, RemoveCrashes, PrintCrashes, Transaction, gcVars
<1>12. ASSUME Collect \/ EndOfFile PROVE RankInv'
  BY <1>4, <1>12 DEF Collect, EndOfFile, MarkAndSweep, LogFails
<1>13. ASSUME MarkLink \/ LeaveNode \/ MarkingDone PROVE RankInv'
  BY <1>4, <1>13 DEF MarkLink, LeaveNode, MarkingDone, gcVars
<1>14. CASE UNCHANGED vars
  BY <1>3, <1>14 DEF vars, gcVars
<1>15. CASE Next
  BY <1>6, <1>7, <1>8, <1>9, <1>10, <1>11, <1>12, <1>13, <1>14, <1>15 DEF Next, Stopped
<1>16. QED
  BY <1>14, <1>15

LEMMA Ranks == Spec => []RankInv
<1>1. Init => RankInv
  <2> SUFFICES ASSUME Init PROVE RankInv
    OBVIOUS
  <2>1. Links = {}
    BY DEF Init, CollectorInit, Links, ChunksOf, Free
  <2>2. PICK rank : rank = [a \in Addr |-> 0]
    OBVIOUS
  <2>3. rank \in [Addr -> 0..0] /\ 0 \in Nat /\ Descends(rank)
    BY <2>1, <2>2 DEF Descends
  <2>4. QED
    BY <2>3 DEF RankInv
<1>2. QED
  BY <1>1, InitInv, NextInv, NextRanks, PTL DEF Spec

-----------------------------------------------------------------------------
(* Looking up.                                                             *)

(* "from" of FindChild, on a part of the links. *)
Searches(f, D, nm) ==
  f = [l \in D |-> IF l = NULL THEN NULL
                   ELSE IF ChildName(l) = nm THEN mem[l].fptr
                   ELSE f[mem[l].next]]

LEMMA SearchExists ==
  ASSUME TypeOK, PointersInv, RankInv, gc = "run", NEW nm
  PROVE  \E f : Searches(f, Links \cup {NULL}, nm)
<1>0. PICK b \in Nat : \E rank \in [Addr -> 0..b] : Descends(rank)
  BY DEF RankInv
<1>1. PICK rank \in [Addr -> 0..b] : Descends(rank)
  BY <1>0
<1>2. \A l \in Links : l \in Addr /\ l # NULL /\ rank[l] \in 0..b
  BY <1>1, Addresses DEF Links, ChunksOf
<1>3. \A l \in Links : mem[l].next = NULL
                       \/ (mem[l].next \in Links /\ rank[mem[l].next] < rank[l])
  BY <1>1, Following DEF To, Links, Descends, Stays
<1> DEFINE Below(k) == {NULL} \cup {l \in Links : rank[l] < k}
           Bad == {k \in Nat : ~\E f : Searches(f, Below(k), nm)}
<1>4. Bad = {}
  <2>1. SUFFICES ASSUME Bad # {} PROVE FALSE
    OBVIOUS
  <2>2. PICK k \in Bad : \A m \in Bad : k <= m
    <3>1. Bad \subseteq Nat
      OBVIOUS
    <3> HIDE DEF Bad
    <3>2. QED
      BY <2>1, <3>1, LeastNat
  <2>3. k \in Nat /\ ~\E f : Searches(f, Below(k), nm)
    BY <2>2
  <2>4. CASE k = 0
    <3>1. Below(k) = {NULL}
      BY <1>2, <2>4
    <3>2. PICK f : f = [l \in {NULL} |-> NULL]
      OBVIOUS
    <3>3. Searches(f, {NULL}, nm)
      <4>1. \A l \in {NULL} : l = NULL
        OBVIOUS
      <4>2. QED
        BY <3>2, <4>1 DEF Searches
    <3>4. QED
      BY <2>3, <3>1, <3>3
  <2>5. CASE k # 0
    <3>1. PICK j : j = k - 1
      OBVIOUS
    <3>2. j \in Nat /\ k = j + 1 /\ ~(k <= j)
      BY <2>3, <2>5, <3>1
    <3>3. j \notin Bad
      BY <2>2, <3>2
    <3>4. PICK g : Searches(g, Below(j), nm)
      BY <3>2, <3>3
    <3> DEFINE body(h, l) == IF l = NULL THEN NULL
                             ELSE IF ChildName(l) = nm THEN mem[l].fptr
                             ELSE h[mem[l].next]
               f == [l \in Below(k) |-> body(g, l)]
    <3>5. \A l \in Below(k) : l # NULL => l \in Links /\ rank[l] < k
      OBVIOUS
    <3>6. \A l \in Below(k) : l # NULL => mem[l].next \in Below(j)
      BY <1>2, <1>3, <3>2, <3>5
    <3>7. Below(j) \subseteq Below(k)
      BY <1>2, <3>2
    <3> HIDE DEF Below
    <3>8. g = [l \in Below(j) |-> body(g, l)]
      BY <3>4 DEF Searches
    <3>9. \A l \in Below(j) : f[l] = g[l]
      BY <3>7, <3>8
    <3>10. \A l \in Below(k) : body(f, l) = body(g, l)
      <4>1. \A l \in Below(k) : l # NULL => f[mem[l].next] = g[mem[l].next]
        BY <3>6, <3>9
      <4> HIDE DEF f
      <4>2. QED
        BY <4>1
    <3>11. f = [l \in Below(k) |-> body(f, l)]
      <4>1. PICK ff : ff = f
        OBVIOUS
      <4>2. ff = [l \in Below(k) |-> body(g, l)] /\ \A l \in Below(k) : body(ff, l) = body(g, l)
        BY <3>10, <4>1
      <4> HIDE DEF body
      <4>3. ff = [l \in Below(k) |-> body(ff, l)]
        BY <4>2
      <4>4. QED
        BY <4>1, <4>3
    <3>12. Searches(f, Below(k), nm)
      BY <3>11 DEF Searches
    <3>13. QED
      BY <2>3, <3>12
  <2>6. QED
    BY <2>4, <2>5
<1>5. Below(b + 1) = Links \cup {NULL}
  <2>1. \A l \in Links : rank[l] < b + 1
    BY <1>2
  <2>2. QED
    BY <2>1
<1>6. b + 1 \in Nat
  OBVIOUS
<1>7. \E f : Searches(f, Below(b + 1), nm)
  BY <1>4, <1>6
<1>8. QED
  BY <1>5, <1>7

(* What find_child finds is a node, and one that can be reached if the     *)
(* node it starts from can.                                                *)
LEMMA FindChildReaches ==
  ASSUME TypeOK, PointersInv, RankInv, gc = "run", NEW p \in Nodes, p \in Reach, NEW nm
  PROVE  FindChild(p, nm) = NULL \/ FindChild(p, nm) \in Nodes \cap Reach
<1> DEFINE F == CHOOSE f : Searches(f, Links \cup {NULL}, nm)
<1>1. Searches(F, Links \cup {NULL}, nm)
  <2>1. \E f : Searches(f, Links \cup {NULL}, nm)
    BY SearchExists
  <2>2. QED
    BY <2>1
<1>2. FindChild(p, nm) = F[mem[p].links]
  BY DEF FindChild, Searches
<1>3. PICK f : f = F
  OBVIOUS
<1> HIDE DEF F
<1>4. /\ f[NULL] = NULL
      /\ \A l \in Links : l # NULL =>
           f[l] = IF ChildName(l) = nm THEN mem[l].fptr ELSE f[mem[l].next]
  BY <1>1, <1>3 DEF Searches
<1>50. PICK b \in Nat : \E rank \in [Addr -> 0..b] : Descends(rank)
  BY DEF RankInv
<1>5. PICK rank \in [Addr -> 0..b] : Descends(rank)
  BY <1>50
<1>6. \A l \in Links : l \in Addr /\ l # NULL /\ rank[l] \in Nat
  BY <1>5, Addresses DEF Links, ChunksOf
<1>7. \A l \in Links : mem[l].next = NULL
                       \/ (mem[l].next \in Links /\ rank[mem[l].next] < rank[l])
  BY <1>5, Following DEF To, Links, Descends, Stays
<1>8. Closed(Reach)
  BY ReachFacts DEF ReachLeast
<1>9. \A l \in Links \cap Reach :
        mem[l].fptr \in Nodes \cap Reach /\ (mem[l].next # NULL => mem[l].next \in Reach)
  <2>1. \A l \in Links : mem[l].fptr \in Nodes /\ mem[l].fptr # NULL
                         /\ Targets(l) = {mem[l].fptr, mem[l].next} \ {NULL}
    BY Following, Addresses DEF Nodes, ChunksOf
  <2>2. QED
    BY <1>8, <2>1 DEF Closed
<1> DEFINE Found(x) == x = NULL \/ x \in Nodes \cap Reach
           Bad == {k \in Nat : \E l \in Links \cap Reach : rank[l] = k /\ ~Found(f[l])}
<1>10. Bad = {}
  <2>1. SUFFICES ASSUME Bad # {} PROVE FALSE
    OBVIOUS
  <2>2. PICK k \in Bad : \A m \in Bad : k <= m
    <3>1. Bad \subseteq Nat
      OBVIOUS
    <3> HIDE DEF Bad
    <3>2. QED
      BY <2>1, <3>1, LeastNat
  <2>3. PICK l \in Links \cap Reach : rank[l] = k /\ ~Found(f[l])
    BY <2>2
  <2>4. l # NULL /\ l \in Links
    BY <1>6
  <2>5. f[l] = f[mem[l].next]
    BY <1>4, <1>9, <2>3, <2>4
  <2>6. PICK next : next = mem[l].next
    OBVIOUS
  <2>7. next # NULL
    BY <1>4, <2>3, <2>5, <2>6
  <2>8. next \in Links \cap Reach /\ rank[next] < rank[l]
    BY <1>7, <1>9, <2>4, <2>6, <2>7
  <2>9. rank[next] \in Nat /\ rank[l] \in Nat /\ ~Found(f[next])
    BY <1>6, <2>3, <2>4, <2>5, <2>6, <2>8
  <2>10. rank[next] \in Bad /\ ~(k <= rank[next])
    BY <2>3, <2>8, <2>9
  <2>11. QED
    BY <2>2, <2>10
<1>11. mem[p].links = NULL \/ mem[p].links \in Links \cap Reach
  <2>1. mem[p].links = NULL \/ mem[p].links \in Links
    BY Following DEF To, Links
  <2>2. Targets(p) = {mem[p].name, mem[p].links} \ {NULL}
    BY Following
  <2>3. QED
    BY <1>8, <2>1, <2>2 DEF Closed
<1>12. Found(f[mem[p].links])
  BY <1>4, <1>6, <1>10, <1>11
<1>13. QED
  BY <1>2, <1>3, <1>12

(* "at" of FindNode, up to k. *)
Descents(f, path, k) ==
  f = [n \in 0..k |->
        IF n = 0 THEN root
        ELSE LET p == f[n - 1]
             IN IF p = NULL THEN NULL ELSE FindChild(p, path[n])]

LEMMA DescentExists ==
  ASSUME NEW path, NEW k \in Nat
  PROVE  \E f : Descents(f, path, k)
<1> DEFINE body(h, i) == IF i = 0 THEN root
                         ELSE LET p == h[i - 1]
                              IN IF p = NULL THEN NULL ELSE FindChild(p, path[i])
           Bad == {n \in Nat : ~\E f : Descents(f, path, n)}
<1>1. SUFFICES ASSUME Bad # {} PROVE FALSE
  OBVIOUS
<1>2. PICK n \in Bad : \A m \in Bad : n <= m
  <2>1. Bad \subseteq Nat
    OBVIOUS
  <2> HIDE DEF Bad
  <2>2. QED
    BY <1>1, <2>1, LeastNat
<1>3. n \in Nat /\ ~\E f : Descents(f, path, n)
  BY <1>2
<1>4. CASE n = 0
  <2>1. PICK f : f = [i \in 0..0 |-> root]
    OBVIOUS
  <2>2. \A i \in 0..0 : i = 0
    OBVIOUS
  <2>3. f = [i \in 0..0 |-> body(f, i)]
    BY <2>1, <2>2
  <2>4. Descents(f, path, n)
    BY <1>4, <2>3 DEF Descents
  <2>5. QED
    BY <1>3, <2>4
<1>5. CASE n # 0
  <2>1. n - 1 \in Nat /\ ~(n <= n - 1)
    BY <1>3, <1>5
  <2>2. n - 1 \notin Bad
    BY <1>2, <2>1
  <2>3. PICK g : Descents(g, path, n - 1)
    BY <2>1, <2>2
  <2>4. g = [i \in 0..(n - 1) |-> body(g, i)]
    BY <2>3 DEF Descents
  <2>5. PICK f : f = [i \in 0..n |-> body(g, i)]
    OBVIOUS
  <2>6. \A i \in 0..(n - 1) : i \in 0..n
    BY <2>1
  <2>7. \A i \in 0..(n - 1) : f[i] = g[i]
    <3> HIDE DEF body
    <3>1. QED
      BY <2>4, <2>5, <2>6
  <2>8. \A i \in 0..n : i # 0 => i - 1 \in 0..(n - 1)
    BY <1>3
  <2>9. \A i \in 0..n : body(f, i) = body(g, i)
    BY <2>7, <2>8
  <2>10. f = [i \in 0..n |-> body(f, i)]
    <3> HIDE DEF body
    <3>1. QED
      BY <2>5, <2>9
  <2>11. Descents(f, path, n)
    BY <2>10 DEF Descents
  <2>12. QED
    BY <1>3, <2>11
<1>6. QED
  BY <1>4, <1>5

(* What find_node finds is a node that can be reached. *)
LEMMA FindNodeReaches ==
  ASSUME TypeOK, PointersInv, RankInv, gc = "run", NEW path \in Paths
  PROVE  FindNode(path) = NULL \/ FindNode(path) \in Nodes \cap Reach
<1>1. PICK len \in Nat : Len(path) = len
  <2>1. PICK n \in 0..MaxDepth : path \in [1..n -> Names]
    BY DEF Paths
  <2>2. n \in Nat
    BY TreeAssumption
  <2>3. path \in Seq(Names)
    BY <2>1, <2>2
  <2>4. QED
    BY <2>3
<1> DEFINE A == CHOOSE f : Descents(f, path, Len(path))
<1>2. Descents(A, path, Len(path))
  <2>1. \E f : Descents(f, path, Len(path))
    BY <1>1, DescentExists
  <2>2. QED
    BY <2>1
<1>3. FindNode(path) = A[Len(path)]
  BY DEF FindNode, Descents
<1>4. PICK at : at = A
  OBVIOUS
<1> HIDE DEF A
<1>5. \A n \in 0..len : at[n] = IF n = 0 THEN root
                                ELSE IF at[n - 1] = NULL THEN NULL
                                ELSE FindChild(at[n - 1], path[n])
  BY <1>1, <1>2, <1>4 DEF Descents
<1> DEFINE Found(x) == x = NULL \/ x \in Nodes \cap Reach
           Bad == {n \in 0..len : ~Found(at[n])}
<1>6. Bad = {}
  <2>1. SUFFICES ASSUME Bad # {} PROVE FALSE
    OBVIOUS
  <2>2. PICK n \in Bad : \A m \in Bad : n <= m
    <3>1. Bad \subseteq Nat
      OBVIOUS
    <3> HIDE DEF Bad
    <3>2. QED
      BY <2>1, <3>1, LeastNat
  <2>3. n \in 0..len /\ ~Found(at[n])
    BY <2>2
  <2>4. CASE n = 0
    <3>1. at[n] = root
      BY <1>5, <2>3, <2>4
    <3>2. Found(root)
      BY ReachFacts DEF ReachLeast, PointersInv, To, Nodes
    <3>3. QED
      BY <2>3, <3>1, <3>2
  <2>5. CASE n # 0
    <3>1. PICK j : j = n - 1
      OBVIOUS
    <3>2. j \in 0..len /\ ~(n <= j)
      BY <1>1, <2>3, <2>5, <3>1
    <3>3. j \notin Bad
      BY <2>2, <3>2
    <3>4. Found(at[j])
      BY <3>2, <3>3
    <3>5. PICK p : p = at[j]
      OBVIOUS
    <3>6. at[n] = IF p = NULL THEN NULL ELSE FindChild(p, path[n])
      BY <1>5, <2>3, <2>5, <3>1, <3>5
    <3>7. p # NULL => Found(FindChild(p, path[n]))
      BY <3>4, <3>5, FindChildReaches
    <3>8. Found(at[n])
      BY <3>6, <3>7
    <3>9. QED
      BY <2>3, <3>8
  <2>6. QED
    BY <2>4, <2>5
<1>7. len \in 0..len
  BY <1>1
<1>8. QED
  BY <1>1, <1>3, <1>4, <1>6, <1>7

-----------------------------------------------------------------------------
(* To the program the heap is the pool of chunks of ChunkPool.             *)

LEMMA ReachStays ==
  ASSUME TypeOK, TypeOK', root' = root,
         \A a \in Reach \cap Reach' : Targets(a) \subseteq Reach'
  PROVE  Reach \subseteq Reach'
<1>1. ReachLeast /\ ReachLeast'
  BY ReachFacts, ReachFactsNext
<1>2. PICK R, S, r : R = Reach /\ S = Reach' /\ r = root
  OBVIOUS
<1>3. /\ r # NULL => r \in R /\ r \in S
      /\ \A a \in R : Targets(a) \subseteq R
      /\ \A C : (r # NULL => r \in C) /\ Closed(C) => R \subseteq C
  BY <1>1, <1>2 DEF ReachLeast, Closed
<1>4. Closed(R \cap S)
  BY <1>2, <1>3 DEF Closed
<1>5. R \subseteq R \cap S
  BY <1>3, <1>4
<1>6. QED
  BY <1>2, <1>5

LEMMA ReachWithin ==
  ASSUME TypeOK', NEW C, root' # NULL => root' \in C,
         \A a \in C : Targets(a)' \subseteq C
  PROVE  Reach' \subseteq C
<1>1. ReachLeast'
  BY ReachFactsNext
<1>2. QED
  BY <1>1 DEF ReachLeast, Closed

(* Only chunks that exist can be reached. *)
LEMMA ReachUsed ==
  ASSUME TypeOK, PointersInv, gc # "sweep"
  PROVE  Reach \subseteq Used
<1>1. Closed(Used)
  <2>1. SUFFICES ASSUME NEW a \in Used, NEW b \in Targets(a) PROVE b \in Used
    BY DEF Closed
  <2>2. a \in Addr /\ mem[a] \in Chunks
    BY DEF TypeOK, Used
  <2>3. CASE a \in Nodes
    <3>1. b \in ChunksOf("name") \/ b \in Links
      BY <2>1, <2>3, Following DEF To, Links
    <3>2. QED
      BY <3>1, ChunkKinds DEF ChunksOf
  <2>4. CASE a \in Links
    <3>1. b \in Nodes \/ b \in Links
      BY <2>1, <2>4, Following DEF To, Links
    <3>2. QED
      BY <3>1, ChunkKinds
  <2>5. CASE a \notin Nodes /\ a \notin Links
    BY <2>1, <2>2, <2>5, TargetsOf DEF Nodes, Links, ChunksOf
  <2>6. QED
    BY <2>3, <2>4, <2>5
<1>2. root # NULL => root \in Used
  BY ChunkKinds DEF PointersInv, To, Nodes
<1>3. QED
  BY <1>1, <1>2, ReachFacts DEF ReachLeast

(* The new chunks are the ones that are newly reached. *)
Grows == Used \subseteq Used' /\ Used' \ Used = Reach' \ Reach

LEMMA AddNodeGrows ==
  ASSUME Inv, Inv', RankInv, NEW nm \in Names, NEW path \in Paths,
         NEW fp \in Nodes \cap {FindNode(path)}, gc = "run", root' = root,
         NEW n, NEW t, NEW l, NodeAdded(fp, nm, n, t, l)
  PROVE  Grows
<1>1. TypeOK /\ PointersInv /\ TypeOK'
  BY DEF Inv
<1>2. /\ n \in Addr \ Used /\ t \in Addr \ Used /\ l \in Addr \ Used /\ fp \in Used
      /\ n # t /\ l # n /\ l # t
      /\ mem' \in [Addr -> Chunks]
      /\ mem'[n].kind = "node" /\ mem'[n].name = t /\ mem'[n].links = NULL
      /\ mem'[t].kind = "name"
      /\ mem'[l].kind = "link" /\ mem'[l].fptr = n /\ mem'[l].next = mem[fp].links
      /\ mem[fp].kind = "node" /\ mem'[fp].kind = "node"
      /\ mem'[fp].name = mem[fp].name /\ mem'[fp].links = l
      /\ \A a \in Addr \ {n, t, l, fp} : mem'[a] = mem[a]
      /\ Used' = Used \cup {l, t, n}
  BY <1>1, AddNodeEffect
<1>3. fp \in Reach /\ fp \in Addr
  BY <1>1, FindNodeReaches, Addresses DEF Nodes, ChunksOf
<1>4. Reach \subseteq Used /\ ReachLeast /\ ReachLeast' /\ Reach \subseteq Addr
  BY <1>1, ReachUsed, ReachFacts, ReachFactsNext DEF ReachLeast
<1>5. PICK name, links, R, S : /\ name = mem[fp].name /\ links = mem[fp].links
                               /\ R = Reach /\ S = Reach'
  OBVIOUS
<1>6. Targets(fp) = {name, links} \ {NULL}
  BY <1>1, <1>5, Following
<1>7. /\ Targets(fp)' = {name, l} \ {NULL}
      /\ Targets(n)' = {t} \ {NULL}
      /\ Targets(t)' = {}
      /\ Targets(l)' = {n, links} \ {NULL}
  BY <1>2, <1>5 DEF Targets
<1>8. \A a \in Addr \ {n, t, l, fp} : Targets(a)' = Targets(a)
  BY <1>2 DEF Targets
<1>9. n # NULL /\ t # NULL /\ l # NULL /\ n \notin R /\ t \notin R /\ l \notin R /\ R \subseteq Addr
  BY <1>2, <1>4, <1>5, Addresses
<1>10. \A a \in R : Targets(a) \subseteq R
  BY <1>4, <1>5 DEF ReachLeast, Closed
<1>11. \A a \in S : Targets(a)' \subseteq S
  BY <1>4, <1>5 DEF ReachLeast, Closed
<1>12. R \subseteq S
  <2>1. ASSUME NEW a \in R \cap S PROVE Targets(a) \subseteq S
    <3>1. CASE a = fp
      <4>1. name \in S \cup {NULL} /\ l \in S
        BY <1>7, <1>9, <1>11, <3>1
      <4>2. links \in S \cup {NULL}
        BY <1>7, <1>11, <4>1
      <4>3. QED
        BY <1>6, <3>1, <4>1, <4>2
    <3>2. CASE a # fp
      BY <1>8, <1>9, <1>11, <3>2
    <3>3. QED
      BY <3>1, <3>2
  <2>2. QED
    BY <1>1, <1>5, <2>1, ReachStays
<1>13. l \in S /\ n \in S /\ t \in S
  <2>1. l \in S
    BY <1>3, <1>5, <1>7, <1>9, <1>11, <1>12
  <2>2. n \in S
    BY <1>7, <1>9, <1>11, <2>1
  <2>3. QED
    BY <1>7, <1>9, <1>11, <2>1, <2>2
<1>14. S \subseteq R \cup {n, t, l}
  <2>1. PICK C : C = R \cup {n, t, l}
    OBVIOUS
  <2>2. ASSUME NEW a \in C PROVE Targets(a)' \subseteq C
    <3>1. CASE a = fp
      BY <1>3, <1>5, <1>6, <1>7, <1>10, <2>1, <3>1
    <3>2. CASE a \in R /\ a # fp
      BY <1>8, <1>9, <1>10, <2>1, <3>2
    <3>3. CASE a = l
      BY <1>3, <1>5, <1>6, <1>7, <1>10, <2>1, <3>3
    <3>4. CASE a = n \/ a = t
      BY <1>7, <2>1, <3>4
    <3>5. QED
      BY <2>1, <3>1, <3>2, <3>3, <3>4
  <2>3. root' # NULL => root' \in C
    BY <1>4, <1>5, <2>1 DEF ReachLeast
  <2>4. QED
    BY <1>1, <1>5, <2>1, <2>2, <2>3, ReachWithin
<1>15. QED
  BY <1>2, <1>5, <1>9, <1>12, <1>13, <1>14 DEF Grows

LEMMA AddHardLinkGrows ==
  ASSUME Inv, Inv', RankInv, gc = "run", root' = root,
         NEW src \in Paths, NEW dest \in Paths, NEW nm,
         NEW srcp \in Nodes \cap {FindNode(src)},
         NEW fp \in Nodes \cap {FindChild(srcp, nm)},
         NEW destp \in Nodes \cap {FindNode(dest)},
         HasMemory(1), NEW l, l = Malloc(Used),
         Allocate(<<l>>, [mem EXCEPT ![l] = LinkAt(fp, mem[destp].links),
                                     ![destp].links = l])
  PROVE  Grows
<1>1. TypeOK /\ PointersInv /\ TypeOK'
  BY DEF Inv
<1>2. /\ l \in Addr \ Used /\ destp \in Used
      /\ mem'[l].kind = "link" /\ mem'[l].fptr = fp /\ mem'[l].next = mem[destp].links
      /\ mem'[destp].kind = "node"
      /\ mem'[destp].name = mem[destp].name /\ mem'[destp].links = l
      /\ \A a \in Addr \ {l, destp} : mem'[a] = mem[a]
      /\ Used' = Used \cup {l}
  BY <1>1, AddHardLinkEffect
<1>3. srcp # NULL /\ fp # NULL /\ destp # NULL
  BY Addresses DEF Nodes, ChunksOf
<1>4. destp \in Reach /\ srcp \in Reach
  BY <1>1, <1>3, FindNodeReaches
<1>5. fp \in Reach
  <2>1. FindChild(srcp, nm) = NULL \/ FindChild(srcp, nm) \in Nodes \cap Reach
    BY <1>1, <1>4, FindChildReaches
  <2>2. QED
    BY <1>3, <2>1
<1>6. Reach \subseteq Used /\ ReachLeast /\ ReachLeast' /\ Reach \subseteq Addr
  BY <1>1, ReachUsed, ReachFacts, ReachFactsNext DEF ReachLeast
<1>7. PICK name, links, R, S : /\ name = mem[destp].name /\ links = mem[destp].links
                               /\ R = Reach /\ S = Reach'
  OBVIOUS
<1>8. Targets(destp) = {name, links} \ {NULL}
  BY <1>1, <1>7, Following
<1>9. /\ Targets(destp)' = {name, l} \ {NULL}
      /\ Targets(l)' = {fp, links} \ {NULL}
  BY <1>2, <1>7 DEF Targets
<1>10. \A a \in Addr \ {l, destp} : Targets(a)' = Targets(a)
  BY <1>2 DEF Targets
<1>11. l # NULL /\ l \notin R /\ R \subseteq Addr
  BY <1>2, <1>6, <1>7, Addresses
<1>12. \A a \in R : Targets(a) \subseteq R
  BY <1>6, <1>7 DEF ReachLeast, Closed
<1>13. \A a \in S : Targets(a)' \subseteq S
  BY <1>6, <1>7 DEF ReachLeast, Closed
<1>14. R \subseteq S
  <2>1. ASSUME NEW a \in R \cap S PROVE Targets(a) \subseteq S
    <3>1. CASE a = destp
      <4>1. name \in S \cup {NULL} /\ l \in S
        BY <1>9, <1>11, <1>13, <3>1
      <4>2. links \in S \cup {NULL}
        BY <1>9, <1>13, <4>1
      <4>3. QED
        BY <1>8, <3>1, <4>1, <4>2
    <3>2. CASE a # destp
      BY <1>10, <1>11, <1>13, <3>2
    <3>3. QED
      BY <3>1, <3>2
  <2>2. QED
    BY <1>1, <1>7, <2>1, ReachStays
<1>15. l \in S
  BY <1>4, <1>7, <1>9, <1>11, <1>13, <1>14
<1>16. S \subseteq R \cup {l}
  <2>1. PICK C : C = R \cup {l}
    OBVIOUS
  <2>2. ASSUME NEW a \in C PROVE Targets(a)' \subseteq C
    <3>1. CASE a = destp
      BY <1>4, <1>7, <1>8, <1>9, <1>12, <2>1, <3>1
    <3>2. CASE a \in R /\ a # destp
      BY <1>10, <1>11, <1>12, <2>1, <3>2
    <3>3. CASE a = l
      BY <1>4, <1>5, <1>7, <1>8, <1>9, <1>12, <2>1, <3>3
    <3>4. QED
      BY <2>1, <3>1, <3>2, <3>3
  <2>3. root' # NULL => root' \in C
    BY <1>6, <1>7, <2>1 DEF ReachLeast
  <2>4. QED
    BY <1>1, <1>7, <2>1, <2>2, <2>3, ReachWithin
<1>17. QED
  BY <1>2, <1>7, <1>11, <1>14, <1>15, <1>16 DEF Grows

LEMMA CreateRootGrows ==
  ASSUME Inv, Inv', CreateRoot, HasMemory(2)
  PROVE  Grows
<1>1. TypeOK /\ TypeOK' /\ root = NULL
  BY DEF Inv, CreateRoot
<1>2. PICK n \in Addr \ Used, t \in Addr \ Used :
        /\ t # n
        /\ mem'[n].kind = "node" /\ mem'[n].name = t /\ mem'[n].links = NULL
        /\ mem'[t].kind = "name"
        /\ Used' = Used \cup {t, n}
        /\ root' = n
  BY <1>1, CreateRootEffect
<1>3. Reach = {}
  <2>1. Closed({})
    BY DEF Closed
  <2>2. QED
    BY <1>1, <2>1, ReachFacts DEF ReachLeast
<1>4. Targets(n)' = {t} \ {NULL} /\ Targets(t)' = {} /\ n # NULL /\ t # NULL
  BY <1>2, Addresses DEF Targets
<1>5. PICK S : S = Reach'
  OBVIOUS
<1>6. n \in S /\ t \in S
  <2>1. n \in S /\ \A a \in S : Targets(a)' \subseteq S
    BY <1>1, <1>2, <1>4, <1>5, ReachFactsNext DEF ReachLeast, Closed
  <2>2. QED
    BY <1>4, <2>1
<1>7. S \subseteq {n, t}
  <2>1. PICK C : C = {n, t}
    OBVIOUS
  <2>2. (\A a \in C : Targets(a)' \subseteq C) /\ root' \in C
    BY <1>2, <1>4, <2>1
  <2>3. QED
    BY <1>1, <1>5, <2>1, <2>2, ReachWithin
<1>8. QED
  BY <1>2, <1>3, <1>5, <1>6, <1>7 DEF Grows

LEMMA RemoveNodeLoses ==
  ASSUME Inv, Inv', NEW path \in Paths, NEW nm \in Names, RemoveNode(path, nm)
  PROVE  Used' = Used /\ Reach' \subseteq Reach
<1>1. TypeOK /\ PointersInv /\ TypeOK' /\ gc = "run" /\ root' = root
  BY DEF Inv, RemoveNode, Transaction
<1>2. mem' \in [Addr -> Chunks] /\ \A a \in Addr : Unlinking(mem', a)
  BY <1>1, RemoveNodeEffect
<1>3. Used' = Used
  <2>1. \A a \in Addr : mem'[a].kind = mem[a].kind
    BY <1>2 DEF Unlinking
  <2>2. \A a \in Addr : mem'[a] = Free <=> mem[a] = Free
    BY <1>1, <1>2, <2>1, Kinds DEF TypeOK
  <2>3. QED
    BY <2>2 DEF Used
<1>4. ReachLeast /\ \A a \in Reach : a \in Addr /\ Targets(a) \subseteq Reach
  BY <1>1, ReachFacts DEF ReachLeast, Closed
<1>5. PICK R : R = Reach
  OBVIOUS
<1>6. ASSUME NEW a \in R PROVE Targets(a)' \subseteq R
  <2>1. a \in Addr /\ Targets(a) \subseteq R /\ Unlinking(mem', a)
    BY <1>2, <1>4, <1>5
  <2>2. CASE mem'[a] = mem[a]
    BY <2>1, <2>2 DEF Targets
  <2>3. CASE /\ mem[a].kind = "node" /\ mem'[a].kind = "node"
             /\ mem'[a].name = mem[a].name /\ mem[a].links \in Links
             /\ mem'[a].links = mem[mem[a].links].next
    <3>1. PICK first, x, name : first = mem[a].links /\ x = mem[first].next /\ name = mem[a].name
      OBVIOUS
    <3>2. first \in Links /\ first # NULL
      BY <2>3, <3>1, Addresses DEF Links, ChunksOf
    <3>3. Targets(a) = {name, first} \ {NULL}
      BY <2>1, <2>3, <3>1, TargetsOf
    <3>4. x \in Targets(first) \cup {NULL}
      BY <1>1, <3>1, <3>2, Following
    <3>5. Targets(a)' = {name, x} \ {NULL}
      BY <2>3, <3>1 DEF Targets
    <3>6. QED
      BY <1>4, <1>5, <2>1, <3>2, <3>3, <3>4, <3>5
  <2>4. CASE /\ mem[a].kind = "link" /\ mem'[a].kind = "link"
             /\ mem'[a].fptr = mem[a].fptr
             /\ mem[a].next \in Links /\ mem'[a].next = mem[mem[a].next].next
    <3>1. PICK next, x, fp : next = mem[a].next /\ x = mem[next].next /\ fp = mem[a].fptr
      OBVIOUS
    <3>2. next \in Links /\ next # NULL
      BY <2>4, <3>1, Addresses DEF Links, ChunksOf
    <3>3. Targets(a) = {fp, next} \ {NULL}
      BY <2>1, <2>4, <3>1, TargetsOf
    <3>4. x \in Targets(next) \cup {NULL}
      BY <1>1, <3>1, <3>2, Following
    <3>5. Targets(a)' = {fp, x} \ {NULL}
      BY <2>4, <3>1 DEF Targets
    <3>6. QED
      BY <1>4, <1>5, <2>1, <3>2, <3>3, <3>4, <3>5
  <2>5. QED
    BY <2>1, <2>2, <2>3, <2>4 DEF Unlinking
<1>7. root' # NULL => root' \in R
  BY <1>1, <1>4, <1>5 DEF ReachLeast
<1>9. Reach' \subseteq R
  BY <1>1, <1>6, <1>7, ReachWithin
<1>10. QED
  BY <1>3, <1>5, <1>9

PoolStep == Pool!Next \/ UNCHANGED Pool!poolVars

LEMMA Mutates ==
  ASSUME TypeOK, TypeOK', gc \notin {"mark", "sweep"}, gc' \notin {"mark", "sweep"}, Grows
  PROVE  PoolStep
<1>1. Used' \subseteq Addr /\ Reach' \subseteq Addr
  BY ReachFactsNext DEF ReachLeast, Used
<1>2. Pool!Mutate
  BY <1>1 DEF Pool!Mutate, Grows
<1>3. QED
  BY <1>2 DEF PoolStep, Pool!Next

LEMMA Invisible ==
  ASSUME TypeOK, TypeOK', UNCHANGED <<mem, root>>,
         gc' \in {"mark", "sweep"} <=> gc \in {"mark", "sweep"}
  PROVE  PoolStep
<1>1. Used' = Used /\ \A a : Targets(a)' = Targets(a)
  BY DEF Used, Targets
<1>2. Reach' = Reach
  BY <1>1, SameReach
<1>3. QED
  BY <1>1, <1>2 DEF PoolStep, Pool!poolVars

LEMMA Begins ==
  ASSUME TypeOK, TypeOK', UNCHANGED mem, root' = root \/ root' = NULL,
         gc = "run", gc' = "mark" \/ gc' = "exit"
  PROVE  PoolStep
<1>1. Used' = Used /\ \A a : Targets(a)' = Targets(a)
  BY DEF Used, Targets
<1>2. Reach' \subseteq Reach
  <2>1. PICK R : R = Reach
    OBVIOUS
  <2>2. \A a \in R : Targets(a)' \subseteq R
    BY <1>1, <2>1, ReachFacts DEF ReachLeast, Closed
  <2>3. root' # NULL => root' \in R
    BY <2>1, ReachFacts DEF ReachLeast
  <2>4. QED
    BY <2>1, <2>2, <2>3, ReachWithin
<1>3. CASE gc' = "mark"
  <2>1. Pool!Begin
    BY <1>1, <1>2, <1>3 DEF Pool!Begin
  <2>2. QED
    BY <2>1 DEF PoolStep, Pool!Next
<1>4. CASE gc' = "exit"
  <2>1. Grows
    BY <1>1, <1>2 DEF Grows
  <2>2. QED
    BY <1>4, <2>1, Mutates
<1>5. QED
  BY <1>3, <1>4

(* A step of the sweep. *)
LEMMA Sweeps ==
  ASSUME Inv, Inv', ReachInv, Sweep
  PROVE  PoolStep
<1>1. TypeOK /\ TypeOK' /\ RecordInv /\ MarkInv /\ gc = "sweep" /\ root' = root
  BY DEF Inv, Sweep, FreeChunk, KeepChunk, EndSweep
<1>2. \A a \in Addr : a \in Reach <=> inUse[a]
  BY <1>1, SweepReach
<1>3. Reach \subseteq Addr
  BY <1>1, ReachFacts DEF ReachLeast
<1>4. CASE FreeChunk
  <2>1. PICK h : h = Head(memory)
    OBVIOUS
  <2>2. /\ ~inUse[h] /\ mem' = [mem EXCEPT ![h] = Free] /\ gc' = "sweep"
        /\ memory \in Seq(Addr) /\ memory # <<>> /\ mem \in [Addr -> Chunks]
    BY <1>1, <1>4, <2>1 DEF FreeChunk, TypeOK
  <2>3. h \in Used /\ h \in Addr
    BY <1>1, <2>1, <2>2, ElemsOfTail DEF RecordInv, Used
  <2>4. Used' = Used \ {h}
    BY <2>2, <2>3 DEF Used
  <2>5. h \in Used \ Reach
    BY <1>2, <2>2, <2>3
  <2>6. Reach' = Reach
    BY <1>1, <1>4, SweepKeepsReach
  <2>7. Pool!Release
    BY <1>1, <2>2, <2>4, <2>5, <2>6 DEF Pool!Release
  <2>8. QED
    BY <2>7 DEF PoolStep, Pool!Next
<1>5. CASE KeepChunk
  BY <1>1, <1>5, Invisible DEF KeepChunk
<1>6. CASE EndSweep(IF atEnd THEN "done" ELSE "run")
  <2>1. memory = <<>> /\ UNCHANGED mem /\ gc' \in {"done", "run"}
    BY <1>6 DEF EndSweep
  <2>2. Elems(passed) = Used
    BY <1>1, <2>1, ElemsOfEmpty DEF RecordInv
  <2>3. \A a \in Addr : inUse[a] <=> a \in Used
    BY <1>1, <2>2 DEF MarkInv
  <2>4. Used = Reach
    BY <1>2, <1>3, <2>3 DEF Used
  <2>5. Used' = Used /\ Reach' = Reach
    BY <1>1, <2>1, SweepKeepsReach DEF Used
  <2>6. Pool!End
    BY <1>1, <2>1, <2>4, <2>5 DEF Pool!End
  <2>7. QED
    BY <2>6 DEF PoolStep, Pool!Next
<1>7. QED
  BY <1>4, <1>5, <1>6 DEF Sweep

LEMMA NextPool == Inv /\ Inv' /\ ReachInv /\ RankInv /\ [Next]_vars => PoolStep
<1> SUFFICES ASSUME Inv, Inv', ReachInv, RankInv, [Next]_vars PROVE PoolStep
  OBVIOUS
<1>1. TypeOK /\ TypeOK'
  BY DEF Inv
<1>2. CASE UNCHANGED vars
  BY <1>1, <1>2, Invisible DEF vars, gcVars
<1>3. ASSUME gc = "run", UNCHANGED root, OutOfMemory PROVE PoolStep
  BY <1>1, <1>3, Invisible DEF OutOfMemory
<1>4. ASSUME CreateRoot PROVE PoolStep
  <2>1. gc = "run"
    BY <1>4 DEF CreateRoot
  <2>2. CASE ~HasMemory(2)
    BY <1>3, <1>4, <2>1, <2>2 DEF CreateRoot
  <2>3. CASE HasMemory(2)
    <3>1. UNCHANGED gc
      BY <1>4, <2>3 DEF CreateRoot, Allocate
    <3>2. QED
      BY <1>1, <1>4, <2>1, <2>3, <3>1, CreateRootGrows, Mutates
  <2>4. QED
    BY <2>2, <2>3
<1>5. ASSUME NEW path \in Paths, NEW nm \in Names, AddNode(path, nm) PROVE PoolStep
  <2>1. gc = "run" /\ root' = root
    BY <1>5 DEF AddNode, Transaction
  <2>2. PICK n, t, l : /\ n = Malloc(Used) /\ t = Malloc(Used \cup {n})
                       /\ l = Malloc(Used \cup {n, t})
    OBVIOUS
  <2>3. PICK fp \in Nodes \cap {FindNode(path)} :
          NodeAdded(fp, nm, n, t, l) \/ OutOfMemory
    BY <1>5, <2>2 DEF AddNode, NodeAdded
  <2>4. CASE OutOfMemory
    BY <1>3, <2>1, <2>4
  <2>5. CASE NodeAdded(fp, nm, n, t, l)
    <3>1. Grows
      BY <2>1, <2>5, AddNodeGrows
    <3>2. UNCHANGED gc
      BY <2>5 DEF NodeAdded, Allocate
    <3>3. QED
      BY <1>1, <2>1, <3>1, <3>2, Mutates
  <2>6. QED
    BY <2>3, <2>4, <2>5
<1>6. ASSUME NEW dest \in Paths, NEW src \in Paths, NEW nm \in Names,
             AddHardLink(dest, src, nm)
      PROVE  PoolStep
  <2>1. gc = "run" /\ root' = root
    BY <1>6 DEF AddHardLink, Transaction
  <2>2. PICK l : l = Malloc(Used)
    OBVIOUS
  <2>3. PICK srcp \in Nodes \cap {FindNode(src)} :
        \E fp \in Nodes \cap {FindChild(srcp, nm)} :
        \E destp \in Nodes \cap {FindNode(dest)} :
          \/ /\ HasMemory(1)
             /\ Allocate(<<l>>, [mem EXCEPT ![l] = LinkAt(fp, mem[destp].links),
                                            ![destp].links = l])
          \/ OutOfMemory
    BY <1>6, <2>2 DEF AddHardLink
  <2>4. CASE OutOfMemory
    BY <1>3, <2>1, <2>4
  <2>5. ASSUME NEW fp \in Nodes \cap {FindChild(srcp, nm)},
               NEW destp \in Nodes \cap {FindNode(dest)},
               HasMemory(1),
               Allocate(<<l>>, [mem EXCEPT ![l] = LinkAt(fp, mem[destp].links),
                                           ![destp].links = l])
        PROVE  PoolStep
    <3>1. Grows
      BY <2>1, <2>2, <2>5, AddHardLinkGrows
    <3>2. UNCHANGED gc
      BY <2>5 DEF Allocate
    <3>3. QED
      BY <1>1, <2>1, <3>1, <3>2, Mutates
  <2>6. QED
    BY <2>3, <2>4, <2>5
<1>7. ASSUME NEW path \in Paths, NEW nm \in Names, RemoveNode(path, nm) PROVE PoolStep
  <2>1. gc = "run" /\ UNCHANGED gc
    BY <1>7 DEF RemoveNode, Transaction
  <2>2. Grows
    BY <1>7, RemoveNodeLoses DEF Grows
  <2>3. QED
    BY <1>1, <2>1, <2>2, Mutates
<1>8. ASSUME AddFails \/ RemoveCrashes \/ PrintCrashes PROVE PoolStep
  BY <1>1, <1>8, Invisible DEF AddFails, RemoveCrashes, PrintCrashes, Transaction, gcVars
<1>9. ASSUME Collect PROVE PoolStep
  BY <1>1, <1>9, Begins DEF Collect, MarkAndSweep, LogFails
<1>10. ASSUME EndOfFile PROVE PoolStep
  BY <1>1, <1>10, Begins DEF EndOfFile, MarkAndSweep, LogFails
<1>11. ASSUME MarkLink \/ LeaveNode \/ MarkingDone PROVE PoolStep
  BY <1>1, <1>11, Invisible DEF MarkLink, LeaveNode, MarkingDone, gcVars
<1>12. CASE Next
  BY <1>2, <1>4, <1>5, <1>6, <1>7, <1>8, <1>9, <1>10, <1>11, <1>12, Sweeps DEF Next, Stopped
<1>13. QED
  BY <1>2, <1>12

(* The collector keeps its promise: every step of the program is, in terms *)
(* of chunks and of what the program can reach, a step of ChunkPool or     *)
(* invisible.  No chunk that can be reached is ever freed, and when a      *)
(* collection is over there is no other one.  That it gets there is left   *)
(* to the model checker.                                                   *)
THEOREM PoolRefinement == Spec => Pool!Init /\ [][Pool!Next]_(Pool!poolVars)
<1>1. Init => Pool!Init
  <2> SUFFICES ASSUME Init PROVE Pool!Init
    OBVIOUS
  <2>1. /\ mem = [a \in Addr |-> Free] /\ gc = "run" /\ root = NULL /\ TypeOK
    BY InitInv DEF Init, CollectorInit, Inv
  <2>2. Used = {}
    BY <2>1 DEF Used
  <2>3. Reach = {}
    <3>1. Closed({})
      BY DEF Closed
    <3>2. QED
      BY <2>1, <3>1, ReachFacts DEF ReachLeast
  <2>4. QED
    BY <2>1, <2>2, <2>3 DEF Pool!Init
<1>2. Inv /\ Inv' /\ ReachInv /\ RankInv /\ [Next]_vars => [Pool!Next]_(Pool!poolVars)
  BY NextPool DEF PoolStep, Pool!poolVars
<1>3. QED
  BY <1>1, <1>2, Invariance, Reaches, Ranks, PTL DEF Spec

-----------------------------------------------------------------------------
(* Every link belongs to the list of one node.                             *)

(* Whose list a link is on, or was on before it was unlinked. *)
Owns(owner) ==
  /\ \A p \in Nodes : Stays(p) /\ mem[p].links # NULL => owner[mem[p].links] = p
  /\ \A l \in Links : Stays(l) /\ mem[l].next # NULL => owner[mem[l].next] = owner[l]

OwnerInv == \E owner \in [Addr -> Addr] : Owns(owner)

(* Pointers of nodes and links that move at most one link further. *)
LEMMA OwnersKept ==
  ASSUME Inv, OwnerInv,
         \A p \in Nodes' : Stays(p)' =>
           \/ mem'[p].links = NULL
           \/ /\ p \in Nodes /\ Stays(p)
              /\ \/ mem'[p].links = mem[p].links
                 \/ /\ mem[p].links \in Links /\ Stays(mem[p].links)
                    /\ mem'[p].links = mem[mem[p].links].next,
         \A l \in Links' : Stays(l)' =>
           /\ l \in Links /\ Stays(l)
           /\ \/ mem'[l].next = mem[l].next
              \/ /\ mem[l].next \in Links /\ Stays(mem[l].next)
                 /\ mem'[l].next = mem[mem[l].next].next
  PROVE  OwnerInv'
<1>1. PICK owner \in [Addr -> Addr] : Owns(owner)
  BY DEF OwnerInv
<1>2. \A l \in Links : l # NULL
  BY Addresses DEF Links, ChunksOf
<1>3. ASSUME NEW p \in Nodes', Stays(p)', mem'[p].links # NULL
      PROVE  owner[mem'[p].links] = p
  <2>1. p \in Nodes /\ Stays(p)
    BY <1>3
  <2>2. CASE mem'[p].links = mem[p].links
    BY <1>1, <1>3, <2>1, <2>2 DEF Owns
  <2>3. CASE /\ mem[p].links \in Links /\ Stays(mem[p].links)
             /\ mem'[p].links = mem[mem[p].links].next
    <3>1. owner[mem[p].links] = p
      BY <1>1, <1>2, <2>1, <2>3 DEF Owns
    <3>2. QED
      BY <1>1, <1>3, <2>3, <3>1 DEF Owns
  <2>4. QED
    BY <1>3, <2>2, <2>3
<1>4. ASSUME NEW l \in Links', Stays(l)', mem'[l].next # NULL
      PROVE  owner[mem'[l].next] = owner[l]
  <2>1. l \in Links /\ Stays(l)
    BY <1>4
  <2>2. CASE mem'[l].next = mem[l].next
    BY <1>1, <1>4, <2>1, <2>2 DEF Owns
  <2>3. CASE /\ mem[l].next \in Links /\ Stays(mem[l].next)
             /\ mem'[l].next = mem[mem[l].next].next
    <3>1. owner[mem[l].next] = owner[l]
      BY <1>1, <1>2, <2>1, <2>3 DEF Owns
    <3>2. QED
      BY <1>1, <1>4, <2>3, <3>1 DEF Owns
  <2>4. QED
    BY <1>4, <2>2, <2>3
<1>5. Owns(owner)'
  BY <1>3, <1>4 DEF Owns
<1>6. QED
  BY <1>5 DEF OwnerInv

(* A new link, in front of those of node p. *)
LEMMA OwnersGrown ==
  ASSUME Inv, OwnerInv, gc = "run", NEW l \in Addr \ Used, NEW p \in Nodes,
         mem'[l].next = mem[p].links, mem'[p].links = l,
         \A q \in Nodes' \ {p} :
           mem'[q].links = NULL \/ (q \in Nodes /\ mem'[q].links = mem[q].links),
         \A k \in Links' : k = l \/ (k \in Links /\ mem'[k].next = mem[k].next)
  PROVE  OwnerInv'
<1>1. PICK owner \in [Addr -> Addr] : Owns(owner)
  BY DEF OwnerInv
<1>2. TypeOK /\ PointersInv
  BY DEF Inv
<1>3. PICK new : new = [owner EXCEPT ![l] = p]
  OBVIOUS
<1>4. p \in Addr
  BY DEF Nodes, ChunksOf
<1>5. /\ new \in [Addr -> Addr]
      /\ new[l] = p /\ \A a \in Addr \ {l} : new[a] = owner[a]
  BY <1>1, <1>3, <1>4
<1>6. \A k \in Links : k \in Addr \ {l}
  BY <1>2, ChunkKinds DEF Links, ChunksOf
<1>7. /\ \A q \in Nodes : mem[q].links = NULL \/ mem[q].links \in Addr \ {l}
      /\ \A k \in Links : mem[k].next = NULL \/ mem[k].next \in Addr \ {l}
  BY <1>2, <1>6, Following DEF To, Links
<1>8. /\ \A q \in Nodes : mem[q].links # NULL => owner[mem[q].links] = q
      /\ \A k \in Links : mem[k].next # NULL => owner[mem[k].next] = owner[k]
  BY <1>1 DEF Owns, Stays
<1>9. ASSUME NEW q \in Nodes', mem'[q].links # NULL
      PROVE  new[mem'[q].links] = q
  <2>1. CASE q = p
    BY <1>5, <2>1
  <2>2. CASE q # p
    <3>1. q \in Nodes /\ mem'[q].links = mem[q].links
      BY <1>9, <2>2
    <3>2. PICK k : k = mem[q].links
      OBVIOUS
    <3>3. k \in Addr \ {l} /\ owner[k] = q
      BY <1>7, <1>8, <1>9, <3>1, <3>2
    <3>4. QED
      BY <1>5, <3>1, <3>2, <3>3
  <2>3. QED
    BY <2>1, <2>2
<1>10. ASSUME NEW k \in Links', mem'[k].next # NULL
       PROVE  new[mem'[k].next] = new[k]
  <2>1. PICK j : j = mem'[k].next
    OBVIOUS
  <2>2. CASE k = l
    <3>1. j = mem[p].links /\ j # NULL
      BY <1>10, <2>1, <2>2
    <3>2. j \in Addr \ {l} /\ owner[j] = p
      BY <1>7, <1>8, <3>1
    <3>3. QED
      BY <1>5, <2>1, <2>2, <3>2
  <2>3. CASE k # l
    <3>1. k \in Links /\ j = mem[k].next /\ j # NULL
      BY <1>10, <2>1, <2>3
    <3>2. j \in Addr \ {l} /\ owner[j] = owner[k] /\ k \in Addr \ {l}
      BY <1>6, <1>7, <1>8, <3>1
    <3>3. QED
      BY <1>5, <2>1, <3>2
  <2>4. QED
    BY <2>2, <2>3
<1>11. Owns(new)'
  BY <1>9, <1>10 DEF Owns
<1>12. QED
  BY <1>5, <1>11 DEF OwnerInv

LEMMA SameOwners ==
  ASSUME Inv, OwnerInv, UNCHANGED mem, \A a \in Used : Stays(a)' => Stays(a)
  PROVE  OwnerInv'
<1>1. Nodes' = Nodes /\ Links' = Links
  BY DEF Nodes, Links, ChunksOf
<1>2. Nodes \subseteq Used /\ Links \subseteq Used
  BY ChunkKinds DEF Inv
<1>3. QED
  BY <1>1, <1>2, OwnersKept

LEMMA NextOwners == Inv /\ Inv' /\ OwnerInv /\ [Next]_vars => OwnerInv'
<1> SUFFICES ASSUME Inv, Inv', OwnerInv, [Next]_vars PROVE OwnerInv'
  OBVIOUS
<1>1. TypeOK /\ PointersInv /\ TypeOK'
  BY DEF Inv
<1>2. ASSUME UNCHANGED <<mem, gc, inUse>> PROVE OwnerInv'
  BY <1>2, SameOwners DEF Stays
<1>3. ASSUME gc # "sweep", UNCHANGED mem PROVE OwnerInv'
  BY <1>3, SameOwners DEF Stays
<1>4. ASSUME Transaction, OutOfMemory PROVE OwnerInv'
  BY <1>3, <1>4 DEF Transaction, OutOfMemory
<1>5. ASSUME CreateRoot PROVE OwnerInv'
  <2>1. gc = "run"
    BY <1>5 DEF CreateRoot
  <2>2. CASE ~HasMemory(2)
    BY <1>3, <1>5, <2>1, <2>2 DEF CreateRoot, OutOfMemory
  <2>3. CASE HasMemory(2)
    <3>1. PICK n \in Addr \ Used, t \in Addr \ Used :
            /\ mem'[n].kind = "node" /\ mem'[n].links = NULL /\ mem'[t].kind = "name"
            /\ \A a \in Addr \ {n, t} : mem'[a] = mem[a]
      BY <1>1, <1>5, <2>3, CreateRootEffect
    <3>2. \A l \in Links' : l \in Links /\ mem'[l].next = mem[l].next
      BY <3>1 DEF Links, ChunksOf
    <3>3. \A p \in Nodes' : mem'[p].links = NULL
                            \/ (p \in Nodes /\ mem'[p].links = mem[p].links)
      BY <3>1 DEF Nodes, ChunksOf
    <3>4. QED
      BY <2>1, <3>2, <3>3, OwnersKept DEF Stays
  <2>4. QED
    BY <2>2, <2>3
<1>6. ASSUME NEW path \in Paths, NEW nm \in Names, AddNode(path, nm) PROVE OwnerInv'
  <2>1. Transaction
    BY <1>6 DEF AddNode
  <2>2. PICK n, t, l : /\ n = Malloc(Used) /\ t = Malloc(Used \cup {n})
                       /\ l = Malloc(Used \cup {n, t})
    OBVIOUS
  <2>3. PICK fp \in Nodes : NodeAdded(fp, nm, n, t, l) \/ OutOfMemory
    BY <1>6, <2>2 DEF AddNode, NodeAdded
  <2>4. CASE OutOfMemory
    BY <1>4, <2>1, <2>4
  <2>5. CASE NodeAdded(fp, nm, n, t, l)
    <3>1. gc = "run"
      BY <2>1 DEF Transaction
    <3>2. /\ l \in Addr \ Used
          /\ mem'[n].kind = "node" /\ mem'[n].links = NULL
          /\ mem'[t].kind = "name" /\ mem'[l].kind = "link" /\ mem'[fp].kind = "node"
          /\ mem'[l].next = mem[fp].links /\ mem'[fp].links = l
          /\ \A a \in Addr \ {n, t, l, fp} : mem'[a] = mem[a]
      BY <1>1, <2>5, AddNodeEffect
    <3>3. \A k \in Links' : k = l \/ (k \in Links /\ mem'[k].next = mem[k].next)
      BY <3>2 DEF Links, ChunksOf
    <3>4. \A q \in Nodes' \ {fp} :
            mem'[q].links = NULL \/ (q \in Nodes /\ mem'[q].links = mem[q].links)
      BY <3>2 DEF Nodes, ChunksOf
    <3>5. QED
      BY <3>1, <3>2, <3>3, <3>4, OwnersGrown
  <2>6. QED
    BY <2>3, <2>4, <2>5
<1>7. ASSUME NEW dest \in Paths, NEW src \in Paths, NEW nm \in Names,
             AddHardLink(dest, src, nm)
      PROVE  OwnerInv'
  <2>1. Transaction
    BY <1>7 DEF AddHardLink
  <2>2. PICK l : l = Malloc(Used)
    OBVIOUS
  <2>3. PICK fp \in Nodes, destp \in Nodes :
          \/ /\ HasMemory(1)
             /\ Allocate(<<l>>, [mem EXCEPT ![l] = LinkAt(fp, mem[destp].links),
                                            ![destp].links = l])
          \/ OutOfMemory
    BY <1>7, <2>2 DEF AddHardLink
  <2>4. CASE OutOfMemory
    BY <1>4, <2>1, <2>4
  <2>5. CASE /\ HasMemory(1)
             /\ Allocate(<<l>>, [mem EXCEPT ![l] = LinkAt(fp, mem[destp].links),
                                            ![destp].links = l])
    <3>1. gc = "run"
      BY <2>1 DEF Transaction
    <3>2. /\ l \in Addr \ Used
          /\ mem'[l].kind = "link" /\ mem'[destp].kind = "node"
          /\ mem'[l].next = mem[destp].links /\ mem'[destp].links = l
          /\ \A a \in Addr \ {l, destp} : mem'[a] = mem[a]
      BY <1>1, <2>2, <2>5, AddHardLinkEffect
    <3>3. \A k \in Links' : k = l \/ (k \in Links /\ mem'[k].next = mem[k].next)
      BY <3>2 DEF Links, ChunksOf
    <3>4. \A q \in Nodes' \ {destp} : q \in Nodes /\ mem'[q].links = mem[q].links
      BY <3>2 DEF Nodes, ChunksOf
    <3>5. QED
      BY <3>1, <3>2, <3>3, <3>4, OwnersGrown
  <2>6. QED
    BY <2>3, <2>4, <2>5
<1>8. ASSUME NEW path \in Paths, NEW nm \in Names, RemoveNode(path, nm) PROVE OwnerInv'
  <2>1. gc = "run" /\ UNCHANGED gc
    BY <1>8 DEF RemoveNode, Transaction
  <2>2. \A a \in Addr : Unlinking(mem', a)
    BY <1>1, <1>8, RemoveNodeEffect
  <2>3. ASSUME NEW l \in Links'
        PROVE  /\ l \in Links
               /\ \/ mem'[l].next = mem[l].next
                  \/ mem[l].next \in Links /\ mem'[l].next = mem[mem[l].next].next
    <3>1. l \in Addr /\ mem'[l].kind = "link"
      BY DEF Links, ChunksOf
    <3>2. Unlinking(mem', l)
      BY <2>2, <3>1
    <3>3. QED
      BY <3>1, <3>2 DEF Unlinking, Links, ChunksOf
  <2>4. ASSUME NEW p \in Nodes'
        PROVE  /\ p \in Nodes
               /\ \/ mem'[p].links = mem[p].links
                  \/ mem[p].links \in Links /\ mem'[p].links = mem[mem[p].links].next
    <3>1. p \in Addr /\ mem'[p].kind = "node"
      BY DEF Nodes, ChunksOf
    <3>2. Unlinking(mem', p)
      BY <2>2, <3>1
    <3>3. QED
      BY <3>1, <3>2 DEF Unlinking, Nodes, ChunksOf
  <2>5. QED
    BY <2>1, <2>3, <2>4, OwnersKept DEF Stays
<1>9. ASSUME Sweep PROVE OwnerInv'
  <2>1. CASE FreeChunk
    <3>1. PICK h : h = Head(memory)
      OBVIOUS
    <3>2. /\ gc = "sweep" /\ UNCHANGED <<gc, inUse>> /\ mem' = [mem EXCEPT ![h] = Free]
          /\ mem \in [Addr -> Chunks]
      BY <1>1, <2>1, <3>1 DEF FreeChunk, TypeOK
    <3>3. \A a \in Addr : mem'[a] = mem[a] \/ mem'[a].kind = "free"
      BY <3>2 DEF Free
    <3>4. /\ \A l \in Links' : l \in Links /\ mem'[l].next = mem[l].next
          /\ \A p \in Nodes' : p \in Nodes /\ mem'[p].links = mem[p].links
      BY <3>3 DEF Nodes, Links, ChunksOf
    <3>5. QED
      BY <3>2, <3>4, OwnersKept DEF Stays
  <2>2. CASE KeepChunk
    BY <1>2, <2>2 DEF KeepChunk
  <2>3. CASE EndSweep(IF atEnd THEN "done" ELSE "run")
    <3>1. gc = "sweep" /\ memory = <<>> /\ UNCHANGED mem
      BY <2>3 DEF EndSweep
    <3>2. RecordInv /\ MarkInv
      BY DEF Inv
    <3>3. \A a \in Used : inUse[a]
      BY <3>1, <3>2, ElemsOfEmpty DEF RecordInv, MarkInv
    <3>4. QED
      BY <3>1, <3>3, SameOwners DEF Stays
  <2>4. QED
    BY <1>9, <2>1, <2>2, <2>3 DEF Sweep
<1>10. ASSUME AddFails \/ RemoveCrashes \/ PrintCrashes PROVE OwnerInv'
  BY <1>3, <1>10 DEF AddFails, RemoveCrashes, PrintCrashes, Transaction, gcVars
<1>11. ASSUME Collect \/ EndOfFile PROVE OwnerInv'
  BY <1>3, <1>11 DEF Collect, EndOfFile, MarkAndSweep, LogFails
<1>12. ASSUME MarkLink \/ LeaveNode \/ MarkingDone PROVE OwnerInv'
  BY <1>3, <1>12 DEF MarkLink, LeaveNode, MarkingDone, gcVars
<1>13. CASE UNCHANGED vars
  BY <1>2, <1>13 DEF vars, gcVars
<1>14. CASE Next
  BY <1>5, <1>6, <1>7, <1>8, <1>9, <1>10, <1>11, <1>12, <1>13, <1>14 DEF Next, Stopped
<1>15. QED
  BY <1>13, <1>14

LEMMA Owners == Spec => []OwnerInv
<1>1. Init => OwnerInv
  <2> SUFFICES ASSUME Init PROVE OwnerInv
    OBVIOUS
  <2>1. Links = {} /\ Nodes = {}
    BY DEF Init, CollectorInit, Links, Nodes, ChunksOf, Free
  <2>2. PICK owner : owner = [a \in Addr |-> a]
    OBVIOUS
  <2>3. owner \in [Addr -> Addr] /\ Owns(owner)
    BY <2>1, <2>2 DEF Owns
  <2>4. QED
    BY <2>3 DEF OwnerInv
<1>2. QED
  BY <1>1, InitInv, NextInv, NextOwners, PTL DEF Spec

-----------------------------------------------------------------------------
(* Lists of links, as sequences.                                           *)

(* Nothing dangles and no list runs in a circle. *)
Settled == TypeOK /\ PointersInv /\ RankInv /\ gc = "run"

(* The lists can be gone through by falling rank. *)
LEMMA RanksOf ==
  ASSUME Settled
  PROVE  \E b \in Nat : \E rank \in [Addr -> 0..b] :
           /\ \A l \in Links : l # NULL /\ rank[l] \in 0..b
           /\ \A l \in Links : mem[l].next = NULL
                               \/ (mem[l].next \in Links /\ rank[mem[l].next] < rank[l])
<1>1. PICK b \in Nat : \E rank \in [Addr -> 0..b] : Descends(rank)
  BY DEF Settled, RankInv
<1>2. PICK rank \in [Addr -> 0..b] : Descends(rank)
  BY <1>1
<1>3. \A l \in Links : l # NULL /\ rank[l] \in 0..b
  BY <1>2, Addresses DEF Links, ChunksOf
<1>4. \A l \in Links : mem[l].next = NULL
                       \/ (mem[l].next \in Links /\ rank[mem[l].next] < rank[l])
  BY <1>2, Following DEF Settled, To, Links, Descends, Stays
<1>5. QED
  BY <1>3, <1>4

(* What holds of the end of a list, and of a link if it does of the next.  *)
LEMMA AlongLists ==
  ASSUME Settled, NEW Good,
         \A l \in Links : (mem[l].next \in Links => mem[l].next \in Good) => l \in Good
  PROVE  Links \subseteq Good
<1>1. PICK b \in Nat : \E rank \in [Addr -> 0..b] :
         /\ \A l \in Links : l # NULL /\ rank[l] \in 0..b
         /\ \A l \in Links : mem[l].next = NULL
                             \/ (mem[l].next \in Links /\ rank[mem[l].next] < rank[l])
  BY RanksOf
<1>2. PICK rank \in [Addr -> 0..b] :
         /\ \A l \in Links : l # NULL /\ rank[l] \in 0..b
         /\ \A l \in Links : mem[l].next = NULL
                             \/ (mem[l].next \in Links /\ rank[mem[l].next] < rank[l])
  BY <1>1
<1> DEFINE Bad == {k \in Nat : \E l \in Links : rank[l] = k /\ l \notin Good}
<1>3. Bad = {}
  <2>1. SUFFICES ASSUME Bad # {} PROVE FALSE
    OBVIOUS
  <2>2. PICK k \in Bad : \A m \in Bad : k <= m
    <3>1. Bad \subseteq Nat
      OBVIOUS
    <3> HIDE DEF Bad
    <3>2. QED
      BY <2>1, <3>1, LeastNat
  <2>3. PICK l \in Links : rank[l] = k /\ l \notin Good
    BY <2>2
  <2>4. PICK next : next = mem[l].next
    OBVIOUS
  <2>5. next \in Links /\ next \notin Good
    BY <2>3, <2>4
  <2>6. rank[next] < rank[l] /\ rank[next] \in Nat /\ rank[l] \in Nat
    BY <1>2, <2>4, <2>5
  <2>7. rank[next] \in Bad /\ ~(k <= rank[next])
    BY <2>3, <2>5, <2>6
  <2>8. QED
    BY <2>2, <2>7
<1>4. QED
  BY <1>2, <1>3

(* "from" of LinksIn, on a part of the links. *)
Collects(f, D, S) ==
  f = [l \in D |-> IF l = NULL THEN <<>>
                   ELSE IF l \in S THEN <<l>> \o f[mem[l].next]
                   ELSE f[mem[l].next]]

LEMMA CollectExists ==
  ASSUME Settled, NEW S
  PROVE  \E f : Collects(f, Links \cup {NULL}, S)
<1>0. PICK b \in Nat : \E rank \in [Addr -> 0..b] :
         /\ \A l \in Links : l # NULL /\ rank[l] \in 0..b
         /\ \A l \in Links : mem[l].next = NULL
                             \/ (mem[l].next \in Links /\ rank[mem[l].next] < rank[l])
  BY RanksOf
<1>1. PICK rank \in [Addr -> 0..b] :
         /\ \A l \in Links : l # NULL /\ rank[l] \in 0..b
         /\ \A l \in Links : mem[l].next = NULL
                             \/ (mem[l].next \in Links /\ rank[mem[l].next] < rank[l])
  BY <1>0
<1>2. \A l \in Links : l # NULL /\ rank[l] \in 0..b
  BY <1>1
<1>3. \A l \in Links : mem[l].next = NULL
                       \/ (mem[l].next \in Links /\ rank[mem[l].next] < rank[l])
  BY <1>1
<1> DEFINE Below(k) == {NULL} \cup {l \in Links : rank[l] < k}
           Bad == {k \in Nat : ~\E f : Collects(f, Below(k), S)}
<1>4. Bad = {}
  <2>1. SUFFICES ASSUME Bad # {} PROVE FALSE
    OBVIOUS
  <2>2. PICK k \in Bad : \A m \in Bad : k <= m
    <3>1. Bad \subseteq Nat
      OBVIOUS
    <3> HIDE DEF Bad
    <3>2. QED
      BY <2>1, <3>1, LeastNat
  <2>3. k \in Nat /\ ~\E f : Collects(f, Below(k), S)
    BY <2>2
  <2>4. CASE k = 0
    <3>1. Below(k) = {NULL}
      BY <1>2, <2>4
    <3>2. PICK f : f = [l \in {NULL} |-> <<>>]
      OBVIOUS
    <3>3. Collects(f, {NULL}, S)
      <4>1. \A l \in {NULL} : l = NULL
        OBVIOUS
      <4>2. QED
        BY <3>2, <4>1 DEF Collects
    <3>4. QED
      BY <2>3, <3>1, <3>3
  <2>5. CASE k # 0
    <3>1. PICK j : j = k - 1
      OBVIOUS
    <3>2. j \in Nat /\ k = j + 1 /\ ~(k <= j)
      BY <2>3, <2>5, <3>1
    <3>3. j \notin Bad
      BY <2>2, <3>2
    <3>4. PICK g : Collects(g, Below(j), S)
      BY <3>2, <3>3
    <3> DEFINE body(h, l) == IF l = NULL THEN <<>>
                             ELSE IF l \in S THEN <<l>> \o h[mem[l].next]
                             ELSE h[mem[l].next]
               f == [l \in Below(k) |-> body(g, l)]
    <3>5. \A l \in Below(k) : l # NULL => l \in Links /\ rank[l] < k
      OBVIOUS
    <3>6. \A l \in Below(k) : l # NULL => mem[l].next \in Below(j)
      BY <1>2, <1>3, <3>2, <3>5
    <3>7. Below(j) \subseteq Below(k)
      BY <1>2, <3>2
    <3> HIDE DEF Below
    <3>8. g = [l \in Below(j) |-> body(g, l)]
      BY <3>4 DEF Collects
    <3>9. \A l \in Below(j) : f[l] = g[l]
      BY <3>7, <3>8
    <3>10. \A l \in Below(k) : body(f, l) = body(g, l)
      <4>1. \A l \in Below(k) : l # NULL => f[mem[l].next] = g[mem[l].next]
        BY <3>6, <3>9
      <4> HIDE DEF f
      <4>2. QED
        BY <4>1
    <3>11. f = [l \in Below(k) |-> body(f, l)]
      <4>1. PICK ff : ff = f
        OBVIOUS
      <4>2. ff = [l \in Below(k) |-> body(g, l)] /\ \A l \in Below(k) : body(ff, l) = body(g, l)
        BY <3>10, <4>1
      <4> HIDE DEF body
      <4>3. ff = [l \in Below(k) |-> body(ff, l)]
        BY <4>2
      <4>4. QED
        BY <4>1, <4>3
    <3>12. Collects(f, Below(k), S)
      BY <3>11 DEF Collects
    <3>13. QED
      BY <2>3, <3>12
  <2>6. QED
    BY <2>4, <2>5
<1>5. Below(b + 1) = Links \cup {NULL}
  <2>1. \A l \in Links : rank[l] < b + 1
    BY <1>2
  <2>2. QED
    BY <2>1
<1>6. b + 1 \in Nat
  OBVIOUS
<1>7. \E f : Collects(f, Below(b + 1), S)
  BY <1>4, <1>6
<1>8. QED
  BY <1>5, <1>7

(* f has for every link the part of its list from there on that is in S.   *)
Lists(f, S) ==
  /\ f[NULL] = <<>>
  /\ \A l \in Links :
       f[l] = IF l \in S THEN <<l>> \o f[mem[l].next] ELSE f[mem[l].next]
  /\ \A l \in Links \cup {NULL} : f[l] \in Seq(Links)

LEMMA ListsIn ==
  ASSUME Settled, NEW S
  PROVE  \E f : Lists(f, S) /\ \A p : LinksIn(S, p) = f[mem[p].links]
<1> DEFINE F == CHOOSE f : Collects(f, Links \cup {NULL}, S)
<1>1. Collects(F, Links \cup {NULL}, S)
  <2>1. \E f : Collects(f, Links \cup {NULL}, S)
    BY CollectExists
  <2>2. QED
    BY <2>1
<1>2. \A p : LinksIn(S, p) = F[mem[p].links]
  BY DEF LinksIn, Collects
<1>3. PICK f : f = F
  OBVIOUS
<1> HIDE DEF F
<1>4. \A l \in Links : l # NULL
  BY Addresses DEF Links, ChunksOf
<1>5. /\ f[NULL] = <<>>
      /\ \A l \in Links : l # NULL =>
           f[l] = IF l \in S THEN <<l>> \o f[mem[l].next] ELSE f[mem[l].next]
  BY <1>1, <1>3 DEF Collects
<1>6. \A l \in Links : mem[l].next = NULL \/ mem[l].next \in Links
  BY RanksOf
<1> DEFINE Good == {l \in Links : f[l] \in Seq(Links)}
<1>7. ASSUME NEW l \in Links, mem[l].next \in Links => mem[l].next \in Good
      PROVE  f[l] \in Seq(Links)
  <2>1. PICK t : t = f[mem[l].next]
    OBVIOUS
  <2>2. t \in Seq(Links)
    <3>1. CASE mem[l].next = NULL
      <4>1. t = <<>>
        BY <1>5, <2>1, <3>1
      <4>2. QED
        BY <4>1, EmptySeq
    <3>2. CASE mem[l].next \in Links
      BY <1>7, <2>1, <3>2
    <3>3. QED
      BY <1>6, <3>1, <3>2
  <2>3. <<l>> \o t \in Seq(Links)
    <3>1. <<l>> \in Seq(Links)
      OBVIOUS
    <3>2. QED
      BY <2>2, <3>1, ConcatProperties
  <2>4. QED
    BY <1>4, <1>5, <2>1, <2>2, <2>3
<1>8. Links \subseteq Good
  <2>1. \A l \in Links : (mem[l].next \in Links => mem[l].next \in Good) => l \in Good
    BY <1>7
  <2> HIDE DEF Good
  <2>2. QED
    BY <2>1, AlongLists
<1>9. Lists(f, S)
  <2>1. f[NULL] \in Seq(Links)
    BY <1>5, EmptySeq
  <2>2. \A l \in Links \cup {NULL} : f[l] \in Seq(Links)
    BY <1>8, <2>1
  <2>3. QED
    BY <1>4, <1>5, <2>2 DEF Lists
<1>10. QED
  BY <1>2, <1>3, <1>9

(* The lists whose contents RemoveIsLocal compares. *)
ListsOf(p, nm) ==
  /\ \E f : Lists(f, Called(nm)) /\ Named(p, nm) = f[mem[p].links]
  /\ \E f : Lists(f, Links \ Called(nm)) /\ Others(p, nm) = f[mem[p].links]
  /\ \E f : Lists(f, Links) /\ LinksOf(p) = f[mem[p].links]

LEMMA ListsCollected ==
  ASSUME NEW p, NEW nm
  PROVE  Settled => ListsOf(p, nm)
<1> SUFFICES ASSUME Settled PROVE ListsOf(p, nm)
  OBVIOUS
<1>1. \E f : Lists(f, Called(nm)) /\ Named(p, nm) = f[mem[p].links]
  <2>1. PICK f : Lists(f, Called(nm)) /\ \A q : LinksIn(Called(nm), q) = f[mem[q].links]
    BY ListsIn
  <2>2. QED
    BY <2>1 DEF Named
<1>2. \E f : Lists(f, Links \ Called(nm)) /\ Others(p, nm) = f[mem[p].links]
  <2>1. PICK f : /\ Lists(f, Links \ Called(nm))
                 /\ \A q : LinksIn(Links \ Called(nm), q) = f[mem[q].links]
    BY ListsIn
  <2>2. QED
    BY <2>1 DEF Others
<1>3. \E f : Lists(f, Links) /\ LinksOf(p) = f[mem[p].links]
  <2>1. PICK f : Lists(f, Links) /\ \A q : LinksIn(Links, q) = f[mem[q].links]
    BY ListsIn
  <2>2. QED
    BY <2>1 DEF LinksOf
<1>4. QED
  BY <1>1, <1>2, <1>3 DEF ListsOf

LEMMA ListsCollectedNext ==
  ASSUME NEW p, NEW nm
  PROVE  Settled' => ListsOf(p, nm)'
<1>1. Settled => ListsOf(p, nm)
  BY ListsCollected
<1>2. QED
  BY <1>1, PTL

-----------------------------------------------------------------------------
(* The search of remove_node.                                              *)

(* The walk along the links stops at l. *)
Stops(l, nm) == mem[l].next = NULL \/ ChildName(mem[l].next) = nm

(* "from" of Before, on a part of the links. *)
Walks(f, D, nm) ==
  f = [k \in D |-> IF mem[k].next = NULL \/ ChildName(mem[k].next) = nm
                   THEN k ELSE f[mem[k].next]]

LEMMA WalkExists ==
  ASSUME Settled, NEW nm
  PROVE  \E f : Walks(f, Links, nm)
<1>0. PICK b \in Nat : \E rank \in [Addr -> 0..b] :
         /\ \A l \in Links : l # NULL /\ rank[l] \in 0..b
         /\ \A l \in Links : mem[l].next = NULL
                             \/ (mem[l].next \in Links /\ rank[mem[l].next] < rank[l])
  BY RanksOf
<1>1. PICK rank \in [Addr -> 0..b] :
         /\ \A l \in Links : l # NULL /\ rank[l] \in 0..b
         /\ \A l \in Links : mem[l].next = NULL
                             \/ (mem[l].next \in Links /\ rank[mem[l].next] < rank[l])
  BY <1>0
<1>2. \A l \in Links : rank[l] \in 0..b
  BY <1>1
<1>3. \A l \in Links : mem[l].next = NULL
                       \/ (mem[l].next \in Links /\ rank[mem[l].next] < rank[l])
  BY <1>1
<1> DEFINE Below(k) == {l \in Links : rank[l] < k}
           Bad == {k \in Nat : ~\E f : Walks(f, Below(k), nm)}
<1>4. Bad = {}
  <2>1. SUFFICES ASSUME Bad # {} PROVE FALSE
    OBVIOUS
  <2>2. PICK k \in Bad : \A m \in Bad : k <= m
    <3>1. Bad \subseteq Nat
      OBVIOUS
    <3> HIDE DEF Bad
    <3>2. QED
      BY <2>1, <3>1, LeastNat
  <2>3. k \in Nat /\ ~\E f : Walks(f, Below(k), nm)
    BY <2>2
  <2>4. CASE k = 0
    <3>1. Below(k) = {}
      BY <1>2, <2>4
    <3>2. PICK f : f = [l \in {} |-> NULL]
      OBVIOUS
    <3>3. Walks(f, {}, nm)
      BY <3>2 DEF Walks
    <3>4. QED
      BY <2>3, <3>1, <3>3
  <2>5. CASE k # 0
    <3>1. PICK j : j = k - 1
      OBVIOUS
    <3>2. j \in Nat /\ k = j + 1 /\ ~(k <= j)
      BY <2>3, <2>5, <3>1
    <3>3. j \notin Bad
      BY <2>2, <3>2
    <3>4. PICK g : Walks(g, Below(j), nm)
      BY <3>2, <3>3
    <3> DEFINE body(h, l) == IF mem[l].next = NULL \/ ChildName(mem[l].next) = nm
                             THEN l ELSE h[mem[l].next]
               f == [l \in Below(k) |-> body(g, l)]
    <3>5. \A l \in Below(k) : l \in Links /\ rank[l] < k
      OBVIOUS
    <3>6. \A l \in Below(k) : mem[l].next # NULL => mem[l].next \in Below(j)
      BY <1>2, <1>3, <3>2, <3>5
    <3>7. Below(j) \subseteq Below(k)
      BY <1>2, <3>2
    <3> HIDE DEF Below
    <3>8. g = [l \in Below(j) |-> body(g, l)]
      BY <3>4 DEF Walks
    <3>9. \A l \in Below(j) : f[l] = g[l]
      BY <3>7, <3>8
    <3>10. \A l \in Below(k) : body(f, l) = body(g, l)
      <4>1. \A l \in Below(k) : mem[l].next # NULL => f[mem[l].next] = g[mem[l].next]
        BY <3>6, <3>9
      <4> HIDE DEF f
      <4>2. QED
        BY <4>1
    <3>11. f = [l \in Below(k) |-> body(f, l)]
      <4>1. PICK ff : ff = f
        OBVIOUS
      <4>2. ff = [l \in Below(k) |-> body(g, l)] /\ \A l \in Below(k) : body(ff, l) = body(g, l)
        BY <3>10, <4>1
      <4> HIDE DEF body
      <4>3. ff = [l \in Below(k) |-> body(ff, l)]
        BY <4>2
      <4>4. QED
        BY <4>1, <4>3
    <3>12. Walks(f, Below(k), nm)
      BY <3>11 DEF Walks
    <3>13. QED
      BY <2>3, <3>12
  <2>6. QED
    BY <2>4, <2>5
<1>5. Below(b + 1) = Links
  BY <1>2
<1>6. b + 1 \in Nat
  OBVIOUS
<1>7. \E f : Walks(f, Below(b + 1), nm)
  BY <1>4, <1>6
<1>8. QED
  BY <1>5, <1>7

(* Where the walk from a link stops: at a link of the same node, at which  *)
(* it also stops when it starts there.                                     *)
LEMMA BeforeStops ==
  ASSUME Settled, NEW nm
  PROVE  \A l \in Links :
           /\ Before(l, nm) \in Links /\ Stops(Before(l, nm), nm)
           /\ Stops(l, nm) => Before(l, nm) = l
           /\ ~Stops(l, nm) => /\ mem[l].next \in Links
                               /\ Before(l, nm) = Before(mem[l].next, nm)
<1> DEFINE F == CHOOSE f : Walks(f, Links, nm)
<1>1. Walks(F, Links, nm)
  <2>1. \E f : Walks(f, Links, nm)
    BY WalkExists
  <2>2. QED
    BY <2>1
<1>2. \A l : Before(l, nm) = F[l]
  BY DEF Before, Walks
<1>3. PICK f : f = F
  OBVIOUS
<1> HIDE DEF F
<1>4. \A l \in Links : f[l] = IF Stops(l, nm) THEN l ELSE f[mem[l].next]
  BY <1>1, <1>3 DEF Walks, Stops
<1>5. \A l \in Links : mem[l].next = NULL \/ mem[l].next \in Links
  BY RanksOf
<1> DEFINE Good == {l \in Links : f[l] \in Links /\ Stops(f[l], nm)}
<1>6. ASSUME NEW l \in Links, mem[l].next \in Links => mem[l].next \in Good
      PROVE  f[l] \in Links /\ Stops(f[l], nm)
  <2>1. CASE Stops(l, nm)
    BY <1>4, <2>1
  <2>2. CASE ~Stops(l, nm)
    <3>1. mem[l].next \in Good
      BY <1>5, <1>6, <2>2 DEF Stops
    <3>2. f[l] = f[mem[l].next]
      BY <1>4, <2>2
    <3>3. QED
      BY <3>1, <3>2
  <2>3. QED
    BY <2>1, <2>2
<1>7. Links \subseteq Good
  <2>1. \A l \in Links : (mem[l].next \in Links => mem[l].next \in Good) => l \in Good
    BY <1>6
  <2> HIDE DEF Good
  <2>2. QED
    BY <2>1, AlongLists
<1>8. \A l \in Links : ~Stops(l, nm) => mem[l].next \in Links
  BY <1>5 DEF Stops
<1>9. QED
  BY <1>2, <1>3, <1>4, <1>7, <1>8

LEMMA BeforeSameOwner ==
  ASSUME Settled, NEW nm, NEW owner, Owns(owner)
  PROVE  \A l \in Links : owner[Before(l, nm)] = owner[l]
<1> DEFINE Good == {l \in Links : owner[Before(l, nm)] = owner[l]}
<1>1. \A l \in Links : l # NULL
  BY RanksOf
<1>2. ASSUME NEW l \in Links, mem[l].next \in Links => mem[l].next \in Good
      PROVE  owner[Before(l, nm)] = owner[l]
  <2>1. CASE Stops(l, nm)
    BY <2>1, BeforeStops
  <2>2. CASE ~Stops(l, nm)
    <3>1. mem[l].next \in Links /\ Before(l, nm) = Before(mem[l].next, nm)
      BY <2>2, BeforeStops
    <3>2. owner[Before(mem[l].next, nm)] = owner[mem[l].next]
      BY <1>2, <3>1
    <3>3. owner[mem[l].next] = owner[l]
      BY <1>1, <3>1 DEF Owns, Settled, Stays
    <3>4. QED
      BY <3>1, <3>2, <3>3
  <2>3. QED
    BY <2>1, <2>2
<1>3. \A l \in Links : (mem[l].next \in Links => mem[l].next \in Good) => l \in Good
  BY <1>2
<1>4. Links \subseteq Good
  <2> HIDE DEF Good
  <2>1. QED
    BY <1>3, AlongLists
<1>5. QED
  BY <1>4

-----------------------------------------------------------------------------
(* What remove_node does to the lists.                                     *)

(* remove_node on node p, whose list begins with "first", stops at "prev". *)
Unlinked(p, first, prev, nm) ==
  /\ mem[p].links = first
  /\ Before(first, nm) = prev
  /\ \A l \in Links :
       mem'[l].next = IF l = prev /\ mem[prev].next # NULL
                      THEN mem[mem[prev].next].next ELSE mem[l].next
  /\ \A q \in Nodes :
       mem'[q].links = IF q = p /\ first \in Called(nm)
                       THEN mem[first].next ELSE mem[q].links

LEMMA RemoveNodeExactly ==
  ASSUME Settled, NEW path \in Paths, NEW nm \in Names, RemoveNode(path, nm),
         NEW p \in Nodes, p = FindNode(path)
  PROVE  \/ mem[p].links = NULL /\ UNCHANGED mem
         \/ \E first, prev \in Links : Unlinked(p, first, prev, nm)
<1>1. \/ mem[p].links = NULL /\ UNCHANGED mem
      \/ \E first \in Links \cap {mem[p].links} :
         \E prev \in Links \cap {Before(first, nm)} :
           LET next == mem[prev].next
               unlinked == IF ChildName(first) = nm
                           THEN [mem EXCEPT ![p].links = mem[first].next]
                           ELSE mem
           IN mem' = IF next = NULL THEN unlinked
                     ELSE [unlinked EXCEPT ![prev].next = mem[next].next]
  BY DEF RemoveNode
<1>2. ASSUME NEW first \in Links \cap {mem[p].links},
             NEW prev \in Links \cap {Before(first, nm)},
             NEW unlinked,
             unlinked = IF ChildName(first) = nm
                        THEN [mem EXCEPT ![p].links = mem[first].next]
                        ELSE mem,
             mem' = IF mem[prev].next = NULL THEN unlinked
                    ELSE [unlinked EXCEPT ![prev].next = mem[mem[prev].next].next]
      PROVE  Unlinked(p, first, prev, nm)
  <2>1. /\ mem \in [Addr -> Chunks] /\ p \in Addr
        /\ \A l \in Links : l \in Addr /\ mem[l] \in LinkChunks /\ mem[l].next \in Pointer
        /\ \A q \in Nodes : q \in Addr /\ mem[q] \in NodeChunks
        /\ \A q \in Nodes, l \in Links : q # l
    BY ChunkKinds DEF Settled, TypeOK, Nodes, Links, ChunksOf
  <2>2. /\ unlinked = [a \in Addr |-> unlinked[a]]
        /\ \A l \in Links : unlinked[l] = mem[l]
        /\ \A q \in Nodes :
             unlinked[q].links = IF q = p /\ first \in Called(nm)
                                 THEN mem[first].next ELSE mem[q].links
    <3>1. CASE ChildName(first) = nm
      <4>1. PICK old, x : old = mem[p] /\ x = mem[first].next
        OBVIOUS
      <4>2. PICK new : new = [old EXCEPT !.links = x]
        OBVIOUS
      <4>3. new.links = x
        BY <2>1, <4>1, <4>2, Relinked
      <4>4. unlinked = [mem EXCEPT ![p] = new]
        BY <1>2, <3>1, <4>1, <4>2
      <4>5. /\ unlinked[p] = new /\ \A a \in Addr \ {p} : unlinked[a] = mem[a]
            /\ unlinked = [a \in Addr |-> unlinked[a]]
        BY <2>1, <4>4
      <4>6. first \in Called(nm)
        BY <1>2, <3>1 DEF Called
      <4>7. \A l \in Links : unlinked[l] = mem[l]
        BY <2>1, <4>5
      <4>8. \A q \in Nodes : unlinked[q].links = IF q = p THEN mem[first].next
                                                 ELSE mem[q].links
        BY <2>1, <4>1, <4>3, <4>5
      <4>9. QED
        BY <4>5, <4>6, <4>7, <4>8
    <3>2. CASE ChildName(first) # nm
      <4>1. unlinked = mem /\ first \notin Called(nm)
        BY <1>2, <3>2 DEF Called
      <4>2. QED
        BY <2>1, <4>1
    <3>3. QED
      BY <3>1, <3>2
  <2>3. /\ \A l \in Links :
             mem'[l].next = IF l = prev /\ mem[prev].next # NULL
                            THEN mem[mem[prev].next].next ELSE mem[l].next
        /\ \A q \in Nodes : mem'[q].links = unlinked[q].links
    <3>1. CASE mem[prev].next = NULL
      <4>1. mem' = unlinked
        BY <1>2, <3>1
      <4>2. QED
        BY <2>2, <3>1, <4>1
    <3>2. CASE mem[prev].next # NULL
      <4>1. PICK old, x : old = unlinked[prev] /\ x = mem[mem[prev].next].next
        OBVIOUS
      <4>2. old \in LinkChunks /\ prev \in Links
        BY <1>2, <2>1, <2>2, <4>1
      <4>3. mem[prev].next \in Links
        BY <3>2, <4>2, RanksOf
      <4>4. x \in Pointer
        BY <2>1, <4>1, <4>3
      <4>5. PICK new : new = [old EXCEPT !.next = x]
        OBVIOUS
      <4>6. new.next = x
        BY <4>2, <4>4, <4>5, Relinked
      <4>7. mem' = [unlinked EXCEPT ![prev] = new]
        BY <1>2, <3>2, <4>1, <4>5
      <4>8. mem'[prev] = new /\ \A a \in Addr \ {prev} : mem'[a] = unlinked[a]
        BY <2>1, <2>2, <4>2, <4>7
      <4>9. \A l \in Links : mem'[l].next = IF l = prev THEN x ELSE mem[l].next
        BY <2>1, <2>2, <4>2, <4>6, <4>8
      <4>10. \A q \in Nodes : mem'[q] = unlinked[q]
        BY <2>1, <4>2, <4>8
      <4>11. QED
        BY <3>2, <4>1, <4>9, <4>10
    <3>3. QED
      BY <3>1, <3>2
  <2>4. QED
    BY <2>2, <2>3 DEF Unlinked
<1>3. QED
  BY <1>1, <1>2

(* No link changes its name. *)
LEMMA RemoveNodeNames ==
  ASSUME Settled, NEW path \in Paths, NEW nm \in Names, RemoveNode(path, nm)
  PROVE  /\ Nodes' = Nodes /\ Links' = Links
         /\ Called(nm)' = Called(nm)
<1>1. TypeOK /\ PointersInv /\ gc # "sweep"
  BY DEF Settled
<1>2. \A a \in Addr : Unlinking(mem', a)
  BY <1>1, RemoveNodeEffect
<1>3. \A a \in Addr : mem'[a].kind = mem[a].kind
  BY <1>2 DEF Unlinking
<1>4. Nodes' = Nodes /\ Links' = Links
  BY <1>3 DEF Nodes, Links, ChunksOf
<1>5. \A l \in Links : l \in Addr /\ mem'[l].fptr = mem[l].fptr
  BY <1>2 DEF Unlinking, Links, ChunksOf
<1>6. \A q \in Nodes : q \in Addr /\ mem'[q].name = mem[q].name
  BY <1>2 DEF Unlinking, Nodes, ChunksOf
<1>7. \A t \in ChunksOf("name") : mem'[t] = mem[t]
  BY <1>2 DEF Unlinking, ChunksOf
<1>8. \A l \in Links : mem[l].fptr \in Nodes /\ mem[mem[l].fptr].name \in ChunksOf("name")
  BY <1>1, Following
<1>9. \A l \in Links : ChildName(l)' = ChildName(l)
  <2> SUFFICES ASSUME NEW l \in Links PROVE ChildName(l)' = ChildName(l)
    OBVIOUS
  <2>1. mem'[mem'[l].fptr].name = mem[mem[l].fptr].name
    BY <1>5, <1>6, <1>8
  <2>2. mem'[mem[mem[l].fptr].name] = mem[mem[mem[l].fptr].name]
    BY <1>7, <1>8
  <2>3. QED
    BY <2>1, <2>2 DEF ChildName
<1>10. QED
  BY <1>4, <1>9 DEF Called

(* The lists afterwards. *)
ListsAfter(g, S) ==
  /\ g[NULL] = <<>>
  /\ \A l \in Links :
       g[l] = IF l \in S THEN <<l>> \o g[mem'[l].next] ELSE g[mem'[l].next]
  /\ \A l \in Links \cup {NULL} : g[l] \in Seq(Links)

(* A part of the links whose pointers stay, and do not leave that part.    *)
LEMMA ListsStay ==
  ASSUME Settled, NEW S, NEW f, Lists(f, S), NEW g, ListsAfter(g, S),
         NEW T \in SUBSET Links,
         \A l \in T : /\ mem'[l].next = mem[l].next
                      /\ mem[l].next \in Links => mem[l].next \in T
  PROVE  \A l \in T : g[l] = f[l]
<1> DEFINE Good == {l \in Links : l \in T => g[l] = f[l]}
<1>1. \A l \in Links : mem[l].next = NULL \/ mem[l].next \in Links
  BY RanksOf
<1>2. ASSUME NEW l \in Links, mem[l].next \in Links => mem[l].next \in Good, l \in T
      PROVE  g[l] = f[l]
  <2>1. g[mem[l].next] = f[mem[l].next]
    <3>1. CASE mem[l].next = NULL
      BY <3>1 DEF Lists, ListsAfter
    <3>2. CASE mem[l].next \in Links
      BY <1>2, <3>2
    <3>3. QED
      BY <1>1, <3>1, <3>2
  <2>2. mem'[l].next = mem[l].next
    BY <1>2
  <2>3. QED
    BY <2>1, <2>2 DEF Lists, ListsAfter
<1>3. \A l \in Links : (mem[l].next \in Links => mem[l].next \in Good) => l \in Good
  BY <1>2
<1>4. Links \subseteq Good
  <2> HIDE DEF Good
  <2>1. QED
    BY <1>3, AlongLists
<1>5. QED
  BY <1>4

(* A link that is not in S makes no difference to the lists of S.          *)
LEMMA ListsWithout ==
  ASSUME Settled, NEW S, NEW f, Lists(f, S), NEW g, ListsAfter(g, S),
         NEW p, NEW first, NEW prev \in Links, NEW nm, Unlinked(p, first, prev, nm),
         mem[prev].next \notin S \/ mem[prev].next = NULL
  PROVE  \A l \in Links \cup {NULL} : g[l] = f[l]
<1> DEFINE Good == {l \in Links : g[l] = f[l] /\ g[mem[l].next] = f[mem[l].next]}
<1>1. \A l \in Links : mem[l].next = NULL \/ mem[l].next \in Links
  BY RanksOf
<1>2. g[NULL] = f[NULL]
  BY DEF Lists, ListsAfter
<1>3. ASSUME NEW l \in Links, mem[l].next \in Links => mem[l].next \in Good
      PROVE  g[l] = f[l] /\ g[mem[l].next] = f[mem[l].next]
  <2>1. g[mem[l].next] = f[mem[l].next]
    BY <1>1, <1>2, <1>3
  <2>2. g[mem'[l].next] = f[mem[l].next]
    <3>1. CASE l = prev /\ mem[prev].next # NULL
      <4>1. PICK next : next = mem[prev].next
        OBVIOUS
      <4>2. next \in Links /\ next \notin S /\ mem'[l].next = mem[next].next
        BY <1>1, <3>1, <4>1 DEF Unlinked
      <4>3. g[mem[next].next] = f[mem[next].next]
        BY <1>3, <3>1, <4>1, <4>2
      <4>4. f[next] = f[mem[next].next]
        BY <4>2 DEF Lists
      <4>5. QED
        BY <3>1, <4>1, <4>2, <4>3, <4>4
    <3>2. CASE ~(l = prev /\ mem[prev].next # NULL)
      <4>1. mem'[l].next = mem[l].next
        BY <3>2 DEF Unlinked
      <4>2. QED
        BY <2>1, <4>1
    <3>3. QED
      BY <3>1, <3>2
  <2>3. g[l] = f[l]
    BY <2>2 DEF Lists, ListsAfter
  <2>4. QED
    BY <2>1, <2>3
<1>4. \A l \in Links : (mem[l].next \in Links => mem[l].next \in Good) => l \in Good
  BY <1>3
<1>5. Links \subseteq Good
  <2> HIDE DEF Good
  <2>1. QED
    BY <1>4, AlongLists
<1>6. QED
  BY <1>2, <1>5

(* A link with the name disappears from the lists that the search goes     *)
(* through, and from no list behind it.                                    *)
LEMMA ListsShorter ==
  ASSUME Settled, NEW nm, NEW f, Lists(f, Called(nm)), NEW g, ListsAfter(g, Called(nm)),
         NEW p, NEW first, NEW prev \in Links, Unlinked(p, first, prev, nm),
         mem[prev].next # NULL, Stops(prev, nm)
  PROVE  /\ \A l \in Links : Before(l, nm) = prev => Len(f[l]) = Len(g[l]) + 1
         /\ g[mem[prev].next] = f[mem[prev].next]
<1>1. PICK b \in Nat : \E rank \in [Addr -> 0..b] :
         /\ \A l \in Links : l # NULL /\ rank[l] \in 0..b
         /\ \A l \in Links : mem[l].next = NULL
                             \/ (mem[l].next \in Links /\ rank[mem[l].next] < rank[l])
  BY RanksOf
<1>2. PICK rank \in [Addr -> 0..b] :
         /\ \A l \in Links : l # NULL /\ rank[l] \in 0..b
         /\ \A l \in Links : mem[l].next = NULL
                             \/ (mem[l].next \in Links /\ rank[mem[l].next] < rank[l])
  BY <1>1
<1>3. PICK next : next = mem[prev].next
  OBVIOUS
<1>4. next \in Links /\ rank[next] < rank[prev] /\ next \in Called(nm)
  BY <1>2, <1>3 DEF Stops, Called
<1> DEFINE T == {l \in Links : rank[l] < rank[prev]}
<1>5. ASSUME NEW l \in Links, rank[l] < rank[prev]
      PROVE  /\ mem'[l].next = mem[l].next
             /\ mem[l].next \in Links => rank[mem[l].next] < rank[prev]
  <2>1. l # prev
    BY <1>2, <1>5
  <2>2. mem'[l].next = mem[l].next
    BY <2>1 DEF Unlinked
  <2>3. ASSUME mem[l].next \in Links PROVE rank[mem[l].next] < rank[prev]
    <3>1. rank[mem[l].next] < rank[l]
      BY <1>2, <2>3
    <3>2. rank[mem[l].next] \in Int /\ rank[l] \in Int /\ rank[prev] \in Int
      BY <1>2, <2>3
    <3>3. QED
      BY <1>5, <3>1, <3>2
  <2>4. QED
    BY <2>2, <2>3
<1>6. \A l \in Links : rank[l] < rank[prev] => g[l] = f[l]
  <2>1. T \in SUBSET Links
    OBVIOUS
  <2>2. \A l \in T : /\ mem'[l].next = mem[l].next
                     /\ mem[l].next \in Links => mem[l].next \in T
    BY <1>5
  <2>3. \A l \in T : g[l] = f[l]
    <3> HIDE DEF T
    <3>1. QED
      BY <2>1, <2>2, ListsStay
  <2>4. QED
    BY <2>3
<1>7. g[next] = f[next]
  BY <1>4, <1>6
<1>8. PICK behind : behind = mem[next].next
  OBVIOUS
<1>9. g[behind] = f[behind] /\ behind \in Links \cup {NULL}
  <2>1. CASE behind = NULL
    BY <2>1 DEF Lists, ListsAfter
  <2>2. CASE behind # NULL
    <3>1. behind \in Links /\ rank[behind] < rank[next]
      BY <1>2, <1>4, <1>8, <2>2
    <3>2. rank[behind] \in Int /\ rank[next] \in Int /\ rank[prev] \in Int
      BY <1>2, <1>4, <3>1
    <3>3. rank[behind] < rank[prev]
      BY <1>4, <3>1, <3>2
    <3>4. QED
      BY <1>6, <3>1, <3>3
  <2>3. QED
    BY <2>1, <2>2
<1> DEFINE Longer(l) == Len(f[l]) = Len(g[l]) + 1
<1>10. \A l \in Links : f[l] \in Seq(Links) /\ g[l] \in Seq(Links)
  BY DEF Lists, ListsAfter
<1>11. \A s \in Seq(Links), l \in Links : <<l>> \o s \in Seq(Links) /\ Len(<<l>> \o s) = Len(s) + 1
  <2> SUFFICES ASSUME NEW s \in Seq(Links), NEW l \in Links
               PROVE  <<l>> \o s \in Seq(Links) /\ Len(<<l>> \o s) = Len(s) + 1
    OBVIOUS
  <2>1. PICK q : q = <<l>>
    OBVIOUS
  <2>2. q \in Seq(Links) /\ Len(q) = 1
    BY <2>1
  <2>3. q \o s \in Seq(Links) /\ Len(q \o s) = Len(q) + Len(s)
    BY <2>2, ConcatProperties
  <2>4. Len(s) \in Nat
    BY LenProperties
  <2>5. QED
    BY <2>1, <2>2, <2>3, <2>4
<1>12. Longer(prev)
  <2>1. PICK t : t = f[behind]
    OBVIOUS
  <2>2. t \in Seq(Links) /\ g[behind] = t
    BY <1>9, <2>1 DEF Lists
  <2>3. PICK u : u = <<next>> \o t
    OBVIOUS
  <2>4. f[next] = u /\ u \in Seq(Links) /\ Len(u) = Len(t) + 1
    BY <1>4, <1>8, <1>11, <2>1, <2>2, <2>3 DEF Lists
  <2>5. mem'[prev].next = behind
    BY <1>3, <1>8 DEF Unlinked
  <2>6. Len(t) \in Nat
    BY <2>2, LenProperties
  <2>7. CASE prev \in Called(nm)
    <3>1. f[prev] = <<prev>> \o u /\ g[prev] = <<prev>> \o t
      BY <1>3, <2>2, <2>4, <2>5, <2>7 DEF Lists, ListsAfter
    <3>2. Len(f[prev]) = Len(u) + 1 /\ Len(g[prev]) = Len(t) + 1
      BY <1>11, <2>2, <2>4, <3>1
    <3>3. QED
      BY <2>4, <2>6, <3>2
  <2>8. CASE prev \notin Called(nm)
    <3>1. f[prev] = u /\ g[prev] = t
      BY <1>3, <2>2, <2>4, <2>5, <2>8 DEF Lists, ListsAfter
    <3>2. QED
      BY <2>4, <3>1
  <2>9. QED
    BY <2>7, <2>8
<1>13. ASSUME NEW l \in Links, l # prev, mem[l].next \in Links, Longer(mem[l].next)
       PROVE  Longer(l)
  <2>1. PICK s, t : s = f[mem[l].next] /\ t = g[mem[l].next]
    OBVIOUS
  <2>2. /\ s \in Seq(Links) /\ t \in Seq(Links) /\ Len(s) = Len(t) + 1
        /\ mem'[l].next = mem[l].next
    BY <1>10, <1>13, <2>1 DEF Unlinked
  <2>3. Len(s) \in Nat /\ Len(t) \in Nat
    BY <2>2, LenProperties
  <2>4. CASE l \in Called(nm)
    <3>1. f[l] = <<l>> \o s /\ g[l] = <<l>> \o t
      BY <2>1, <2>2, <2>4 DEF Lists, ListsAfter
    <3>2. Len(f[l]) = Len(s) + 1 /\ Len(g[l]) = Len(t) + 1
      BY <1>11, <2>2, <3>1
    <3>3. QED
      BY <2>2, <2>3, <3>2
  <2>5. CASE l \notin Called(nm)
    <3>1. f[l] = s /\ g[l] = t
      BY <2>1, <2>2, <2>5 DEF Lists, ListsAfter
    <3>2. QED
      BY <2>2, <3>1
  <2>6. QED
    BY <2>4, <2>5
<1> HIDE DEF Longer
<1> DEFINE Good == {l \in Links : Before(l, nm) = prev => Longer(l)}
<1>14. ASSUME NEW l \in Links, mem[l].next \in Links => mem[l].next \in Good,
              Before(l, nm) = prev
       PROVE  Longer(l)
  <2>1. CASE Stops(l, nm)
    <3>1. l = prev
      BY <1>14, <2>1, BeforeStops
    <3>2. QED
      BY <1>12, <3>1
  <2>2. CASE ~Stops(l, nm)
    <3>1. l # prev
      BY <2>2
    <3>2. mem[l].next \in Links /\ Before(mem[l].next, nm) = prev
      BY <1>14, <2>2, BeforeStops
    <3>3. Longer(mem[l].next)
      BY <1>14, <3>2
    <3>4. QED
      BY <1>13, <3>1, <3>2, <3>3
  <2>3. QED
    BY <2>1, <2>2
<1>15. \A l \in Links : (mem[l].next \in Links => mem[l].next \in Good) => l \in Good
  BY <1>14
<1>16. Links \subseteq Good
  <2> HIDE DEF Good
  <2>1. QED
    BY <1>15, AlongLists
<1>17. QED
  BY <1>3, <1>7, <1>16 DEF Longer

(* A search that comes to the end of a list has found nothing.             *)
LEMMA NothingFound ==
  ASSUME Settled, NEW nm, NEW f, Lists(f, Called(nm))
  PROVE  \A l \in Links :
           mem[Before(l, nm)].next = NULL /\ l \notin Called(nm) => f[l] = <<>>
<1> DEFINE Good == {l \in Links : mem[Before(l, nm)].next = NULL /\ l \notin Called(nm)
                                    => f[l] = <<>>}
<1>1. ASSUME NEW l \in Links, mem[l].next \in Links => mem[l].next \in Good,
             mem[Before(l, nm)].next = NULL, l \notin Called(nm)
      PROVE  f[l] = <<>>
  <2>1. f[l] = f[mem[l].next]
    BY <1>1 DEF Lists
  <2>2. CASE Stops(l, nm)
    <3>1. mem[l].next = NULL
      BY <1>1, <2>2, BeforeStops
    <3>2. QED
      BY <2>1, <3>1 DEF Lists
  <2>3. CASE ~Stops(l, nm)
    <3>1. mem[l].next \in Links /\ Before(l, nm) = Before(mem[l].next, nm)
      BY <2>3, BeforeStops
    <3>2. mem[l].next \notin Called(nm)
      BY <2>3 DEF Stops, Called
    <3>3. f[mem[l].next] = <<>>
      BY <1>1, <3>1, <3>2
    <3>4. QED
      BY <2>1, <3>3
  <2>4. QED
    BY <2>2, <2>3
<1>2. \A l \in Links : (mem[l].next \in Links => mem[l].next \in Good) => l \in Good
  BY <1>1
<1>3. Links \subseteq Good
  <2> HIDE DEF Good
  <2>1. QED
    BY <1>2, AlongLists
<1>4. QED
  BY <1>3

(* The list of another node has other links, none of which is touched.     *)
LEMMA OthersUntouched ==
  ASSUME Settled, OwnerInv, NEW nm, NEW S, NEW f, Lists(f, S), NEW g, ListsAfter(g, S),
         NEW p \in Nodes, NEW first \in Links, NEW prev \in Links,
         Unlinked(p, first, prev, nm), NEW q \in Nodes \ {p}
  PROVE  g[mem'[q].links] = f[mem[q].links]
<1>1. PICK owner \in [Addr -> Addr] : Owns(owner)
  BY DEF OwnerInv
<1>2. /\ \A l \in Links : l # NULL
      /\ \A l \in Links : mem[l].next = NULL \/ mem[l].next \in Links
  BY RanksOf
<1>3. /\ \A a \in Nodes : mem[a].links # NULL => owner[mem[a].links] = a
      /\ \A l \in Links : mem[l].next # NULL => owner[mem[l].next] = owner[l]
  BY <1>1 DEF Owns, Settled, Stays
<1>4. owner[prev] = p
  <2>1. owner[first] = p
    BY <1>2, <1>3 DEF Unlinked
  <2>2. owner[prev] = owner[first]
    BY <1>1, BeforeSameOwner DEF Unlinked
  <2>3. QED
    BY <2>1, <2>2
<1> DEFINE T == {l \in Links : owner[l] # p}
<1>5. \A l \in T : /\ mem'[l].next = mem[l].next
                   /\ mem[l].next \in Links => mem[l].next \in T
  BY <1>2, <1>3, <1>4 DEF Unlinked
<1>6. \A l \in T : g[l] = f[l]
  <2>1. T \in SUBSET Links
    OBVIOUS
  <2> HIDE DEF T
  <2>2. QED
    BY <1>5, <2>1, ListsStay
<1>7. mem'[q].links = mem[q].links
  BY DEF Unlinked
<1>8. mem[q].links = NULL \/ mem[q].links \in Links
  BY Following DEF Settled, To, Links
<1>9. mem[q].links = NULL \/ mem[q].links \in T
  BY <1>3, <1>8
<1>10. QED
  BY <1>6, <1>7, <1>9 DEF Lists, ListsAfter

LEMMA RemovesLinks ==
  ASSUME Settled, Settled', OwnerInv,
         NEW path \in Paths, NEW nm \in Names, NEW p \in Nodes, p = FindNode(path),
         RemoveNode(path, nm)
  PROVE  /\ Others(p, nm)' = Others(p, nm)
         /\ Named(p, nm) # <<>> =>
              Len(Named(p, nm)) - Len(Named(p, nm)') \in {1, 2}
         /\ \A q \in Nodes \ {p} : LinksOf(q)' = LinksOf(q)
<1>1. Nodes' = Nodes /\ Links' = Links /\ Called(nm)' = Called(nm)
  BY RemoveNodeNames
<1>2. \A q : ListsOf(q, nm) /\ ListsOf(q, nm)'
  BY ListsCollected, ListsCollectedNext
<1>3. /\ \A g : Lists(g, Called(nm))' => ListsAfter(g, Called(nm))
      /\ \A g : Lists(g, Links \ Called(nm))' => ListsAfter(g, Links \ Called(nm))
      /\ \A g : Lists(g, Links)' => ListsAfter(g, Links)
  BY <1>1 DEF Lists, ListsAfter
<1>4. PICK n : Lists(n, Called(nm)) /\ Named(p, nm) = n[mem[p].links]
  BY <1>2 DEF ListsOf
<1>5. PICK n2 : ListsAfter(n2, Called(nm)) /\ Named(p, nm)' = n2[mem'[p].links]
  BY <1>2, <1>3 DEF ListsOf
<1>6. PICK o : Lists(o, Links \ Called(nm)) /\ Others(p, nm) = o[mem[p].links]
  BY <1>2 DEF ListsOf
<1>7. PICK o2 : ListsAfter(o2, Links \ Called(nm)) /\ Others(p, nm)' = o2[mem'[p].links]
  BY <1>2, <1>3 DEF ListsOf
<1>8. ASSUME NEW q \in Nodes \ {p}
      PROVE  \E f, g : /\ Lists(f, Links) /\ LinksOf(q) = f[mem[q].links]
                       /\ ListsAfter(g, Links) /\ LinksOf(q)' = g[mem'[q].links]
  BY <1>2, <1>3 DEF ListsOf
<1>9. CASE mem[p].links = NULL /\ UNCHANGED mem
  <2>1. n[mem[p].links] = <<>> /\ o[mem[p].links] = <<>> /\ o2[mem'[p].links] = <<>>
    BY <1>4, <1>6, <1>7, <1>9 DEF Lists, ListsAfter
  <2>2. ASSUME NEW q \in Nodes \ {p} PROVE LinksOf(q)' = LinksOf(q)
    <3>1. PICK f, g : /\ Lists(f, Links) /\ LinksOf(q) = f[mem[q].links]
                      /\ ListsAfter(g, Links) /\ LinksOf(q)' = g[mem'[q].links]
      BY <1>8
    <3>2. \A l \in Links : g[l] = f[l]
      BY <1>9, <3>1, ListsStay
    <3>3. mem[q].links = NULL \/ mem[q].links \in Links
      BY Following DEF Settled, To, Links
    <3>4. f[mem[q].links] = g[mem[q].links]
      BY <3>1, <3>2, <3>3 DEF Lists, ListsAfter
    <3>5. QED
      BY <1>9, <3>1, <3>4
  <2>3. QED
    BY <1>4, <1>6, <1>7, <2>1, <2>2
<1>10. ASSUME NEW first \in Links, NEW prev \in Links, Unlinked(p, first, prev, nm)
       PROVE  /\ Others(p, nm)' = Others(p, nm)
              /\ Named(p, nm) # <<>> =>
                   Len(Named(p, nm)) - Len(Named(p, nm)') \in {1, 2}
              /\ \A q \in Nodes \ {p} : LinksOf(q)' = LinksOf(q)
  <2>1. /\ mem[p].links = first /\ Before(first, nm) = prev /\ Stops(prev, nm)
        /\ mem'[p].links = IF first \in Called(nm) THEN mem[first].next ELSE first
    BY <1>10, BeforeStops DEF Unlinked
  <2>2. /\ \A l \in Links : l # NULL
        /\ \A l \in Links : mem[l].next = NULL \/ mem[l].next \in Links
    BY RanksOf
  <2>3. ASSUME NEW q \in Nodes \ {p} PROVE LinksOf(q)' = LinksOf(q)
    <3>1. PICK f, g : /\ Lists(f, Links) /\ LinksOf(q) = f[mem[q].links]
                      /\ ListsAfter(g, Links) /\ LinksOf(q)' = g[mem'[q].links]
      BY <1>8
    <3>2. g[mem'[q].links] = f[mem[q].links]
      BY <1>10, <3>1, OthersUntouched
    <3>3. QED
      BY <3>1, <3>2
  <2>4. Others(p, nm)' = Others(p, nm)
    <3>1. mem[prev].next \notin Links \ Called(nm)
      BY <2>1, <2>2 DEF Stops, Called
    <3>2. \A l \in Links \cup {NULL} : o2[l] = o[l]
      BY <1>6, <1>7, <1>10, <3>1, ListsWithout
    <3>3. CASE first \in Called(nm)
      <4>1. o[first] = o[mem[first].next]
        BY <1>6, <3>3 DEF Lists
      <4>2. QED
        BY <1>6, <1>7, <2>1, <2>2, <3>2, <3>3, <4>1
    <3>4. CASE first \notin Called(nm)
      BY <1>6, <1>7, <2>1, <3>2, <3>4
    <3>5. QED
      BY <3>3, <3>4
  <2>5. ASSUME Named(p, nm) # <<>>
        PROVE  Len(Named(p, nm)) - Len(Named(p, nm)') \in {1, 2}
    <3>1. PICK s, t : s = Named(p, nm) /\ t = Named(p, nm)'
      OBVIOUS
    <3>2. s = n[first] /\ t = n2[mem'[p].links]
      BY <1>4, <1>5, <2>1, <3>1
    <3>3. CASE first \notin Called(nm)
      <4>1. mem[prev].next # NULL
        BY <1>4, <2>1, <2>5, <3>1, <3>2, <3>3, NothingFound
      <4>2. Len(n[first]) = Len(n2[first]) + 1
        BY <1>4, <1>5, <1>10, <2>1, <4>1, ListsShorter
      <4>3. t = n2[first]
        BY <2>1, <3>2, <3>3
      <4>4. Len(t) \in Nat
        BY <1>5, <4>3, LenProperties DEF ListsAfter
      <4>5. QED
        BY <3>1, <3>2, <4>2, <4>3, <4>4
    <3>4. CASE first \in Called(nm)
      <4>1. PICK second : second = mem[first].next
        OBVIOUS
      <4>2. second \in Links \cup {NULL} /\ t = n2[second]
        BY <2>1, <2>2, <3>2, <3>4, <4>1
      <4>3. PICK r : r = n[second]
        OBVIOUS
      <4>4. r \in Seq(Links) /\ t \in Seq(Links)
        BY <1>4, <1>5, <4>2, <4>3 DEF Lists, ListsAfter
      <4>5. Len(r) \in Nat /\ Len(t) \in Nat
        BY <4>4, LenProperties
      <4>6. Len(s) = Len(r) + 1
        <5>1. s = <<first>> \o r
          BY <1>4, <3>2, <3>4, <4>1, <4>3 DEF Lists
        <5>2. PICK q : q = <<first>>
          OBVIOUS
        <5>3. q \in Seq(Links) /\ Len(q) = 1
          BY <5>2
        <5>4. Len(q \o r) = Len(q) + Len(r)
          BY <4>4, <5>3, ConcatProperties
        <5>5. QED
          BY <4>5, <5>1, <5>2, <5>3, <5>4
      <4>7. Len(r) = Len(t) \/ Len(r) = Len(t) + 1
        <5>1. CASE mem[prev].next = NULL
          <6>1. \A l \in Links \cup {NULL} : n2[l] = n[l]
            BY <1>4, <1>5, <1>10, <5>1, ListsWithout
          <6>2. QED
            BY <4>2, <4>3, <6>1
        <5>2. CASE mem[prev].next # NULL
          <6>1. /\ \A l \in Links : Before(l, nm) = prev => Len(n[l]) = Len(n2[l]) + 1
                /\ n2[mem[prev].next] = n[mem[prev].next]
            BY <1>4, <1>5, <1>10, <2>1, <5>2, ListsShorter
          <6>2. CASE Stops(first, nm)
            <7>1. prev = first
              BY <2>1, <6>2, BeforeStops
            <7>2. QED
              BY <4>1, <4>2, <4>3, <6>1, <7>1
          <6>3. CASE ~Stops(first, nm)
            <7>1. second \in Links /\ Before(second, nm) = prev
              BY <2>1, <4>1, <6>3, BeforeStops
            <7>2. QED
              BY <4>2, <4>3, <6>1, <7>1
          <6>4. QED
            BY <6>2, <6>3
        <5>3. QED
          BY <5>1, <5>2
      <4>8. Len(s) - Len(t) \in {1, 2}
        BY <4>5, <4>6, <4>7
      <4>9. QED
        BY <3>1, <4>8
    <3>5. QED
      BY <3>3, <3>4
  <2>6. QED
    BY <2>3, <2>4, <2>5
<1>11. QED
  BY <1>9, <1>10, RemoveNodeExactly

(* remove_node takes away one or two links of the name it is given, if     *)
(* there is any, leaves the other links of that node in their order, and   *)
(* touches the list of no other node, whatever hard links share the nodes. *)
THEOREM RemovalIsLocal == Spec => RemoveIsLocal
<1> DEFINE Local ==
      \A path \in Paths, nm \in Names : \A p \in Nodes \cap {FindNode(path)} :
        RemoveNode(path, nm) =>
          /\ Others(p, nm)' = Others(p, nm)
          /\ Named(p, nm) # <<>> =>
               Len(Named(p, nm)) - Len(Named(p, nm)') \in {1, 2}
          /\ \A q \in Nodes \ {p} : LinksOf(q)' = LinksOf(q)
<1>1. Inv /\ RankInv /\ OwnerInv /\ Inv' /\ RankInv' => Local
  <2> SUFFICES ASSUME Inv, RankInv, OwnerInv, Inv', RankInv',
                      NEW path \in Paths, NEW nm \in Names,
                      NEW p \in Nodes \cap {FindNode(path)}, RemoveNode(path, nm)
               PROVE  /\ Others(p, nm)' = Others(p, nm)
                      /\ Named(p, nm) # <<>> =>
                           Len(Named(p, nm)) - Len(Named(p, nm)') \in {1, 2}
                      /\ \A q \in Nodes \ {p} : LinksOf(q)' = LinksOf(q)
    OBVIOUS
  <2>1. gc = "run" /\ gc' = gc
    BY DEF RemoveNode, Transaction
  <2>2. Settled /\ Settled'
    BY <2>1 DEF Settled, Inv
  <2>3. p \in Nodes /\ p = FindNode(path)
    OBVIOUS
  <2>4. QED
    BY <2>2, <2>3, RemovesLinks
<1>2. RemoveIsLocal <=> [][Local]_vars
  BY DEF RemoveIsLocal
<1>3. QED
  BY <1>1, <1>2, Invariance, Ranks, Owners, PTL DEF Spec
=============================================================================
