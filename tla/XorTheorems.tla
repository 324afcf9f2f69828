----------------------------- MODULE XorTheorems -----------------------------
(* What the XOR of blocks obeys: the algebra that lets a parity block be   *)
(* updated in place and a lost block be rebuilt from the others.           *)
EXTENDS RaidWords, FiniteSetTheorems, TLAPS

LEMMA ZeroBlockType == ZeroBlock \in Block
BY DEF ZeroBlock, Block, Word

LEMMA XorBlockType ==
  ASSUME NEW x \in Block, NEW y \in Block
  PROVE  XorBlock(x, y) \in Block
BY DEF XorBlock, Block, Xor, Word

LEMMA XorAllType ==
  ASSUME NEW S, NEW F
  PROVE  XorAll(S, F) \in Block
BY DEF XorAll, Block, Word

(* XORing a block twice changes nothing. *)
LEMMA XorBlockCancels ==
  ASSUME NEW x \in Block, NEW y \in Block
  PROVE  /\ XorBlock(XorBlock(x, y), y) = x
         /\ XorBlock(y, XorBlock(x, y)) = x
         /\ XorBlock(XorBlock(x, y), x) = y
BY DEF XorBlock, Block, Xor, Word

LEMMA XorBlockZero ==
  ASSUME NEW x \in Block
  PROVE  XorBlock(x, ZeroBlock) = x /\ XorBlock(ZeroBlock, x) = x
BY DEF XorBlock, Block, Xor, Word, ZeroBlock

LEMMA XorBlockCommutes ==
  ASSUME NEW x \in Block, NEW y \in Block
  PROVE  XorBlock(x, y) = XorBlock(y, x)
BY DEF XorBlock, Block, Xor, Word

LEMMA XorAssoc ==
  ASSUME NEW u, NEW v, NEW w
  PROVE  Xor(Xor(u, v), w) = Xor(u, Xor(v, w))
BY DEF Xor

LEMMA XorBlockAssoc ==
  ASSUME NEW x \in Block, NEW y \in Block, NEW z \in Block
  PROVE  XorBlock(XorBlock(x, y), z) = XorBlock(x, XorBlock(y, z))
BY XorAssoc DEF XorBlock

-----------------------------------------------------------------------------
(* The XOR of several blocks.                                              *)

(* Only the blocks of S count. *)
LEMMA XorAllAgree ==
  ASSUME NEW S, NEW F, NEW G, \A d \in S : F[d] = G[d]
  PROVE  XorAll(S, F) = XorAll(S, G)
<1>1. ASSUME NEW i \in 1..BlockWords, NEW b \in Bits
      PROVE  {d \in S : b \in F[d][i]} = {d \in S : b \in G[d][i]}
  OBVIOUS
<1>2. QED
  BY <1>1 DEF XorAll

LEMMA XorAllEmpty ==
  ASSUME NEW F
  PROVE  XorAll({}, F) = ZeroBlock
<1>1. ASSUME NEW i \in 1..BlockWords, NEW b \in Bits
      PROVE  Cardinality({d \in {} : b \in F[d][i]}) % 2 # 1
  <2>1. {d \in {} : b \in F[d][i]} = {}
    OBVIOUS
  <2>2. QED
    BY <2>1, FS_EmptySet
<1>2. QED
  BY <1>1 DEF XorAll, ZeroBlock

(* One more block is one more XOR. *)
LEMMA XorAllInsert ==
  ASSUME NEW S, IsFiniteSet(S), NEW d, d \notin S, NEW F, F[d] \in Block
  PROVE  XorAll(S \cup {d}, F) = XorBlock(XorAll(S, F), F[d])
<1> DEFINE On(T, i, b) == {e \in T : b \in F[e][i]}
<1>1. ASSUME NEW i \in 1..BlockWords, NEW b \in Bits
      PROVE  (Cardinality(On(S \cup {d}, i, b)) % 2 = 1)
               <=> ((Cardinality(On(S, i, b)) % 2 = 1) # (b \in F[d][i]))
  <2>1. On(S, i, b) \in SUBSET S
    OBVIOUS
  <2>2. IsFiniteSet(On(S, i, b)) /\ d \notin On(S, i, b)
    BY <2>1, FS_Subset
  <2>3. Cardinality(On(S, i, b)) \in Nat
    BY <2>2, FS_CardinalityType
  <2>4. CASE b \in F[d][i]
    <3>1. On(S \cup {d}, i, b) = On(S, i, b) \cup {d}
      BY <2>4
    <3>2. Cardinality(On(S \cup {d}, i, b)) = Cardinality(On(S, i, b)) + 1
      BY <3>1, <2>2, FS_AddElement
    <3> HIDE DEF On
    <3>3. QED
      BY <3>2, <2>3, <2>4
  <2>5. CASE b \notin F[d][i]
    <3>1. On(S \cup {d}, i, b) = On(S, i, b)
      BY <2>5
    <3> HIDE DEF On
    <3>2. QED
      BY <3>1, <2>3, <2>5
  <2>6. QED
    BY <2>4, <2>5
<1>2. ASSUME NEW i \in 1..BlockWords
      PROVE  {b \in Bits : Cardinality(On(S \cup {d}, i, b)) % 2 = 1}
               = Xor({b \in Bits : Cardinality(On(S, i, b)) % 2 = 1}, F[d][i])
  <2>1. F[d][i] \subseteq Bits
    BY DEF Block, Word
  <2> HIDE DEF On
  <2>2. QED
    BY <1>1, <2>1 DEF Xor
<1>3. QED
  BY <1>2 DEF XorAll, XorBlock

(* A change of one block changes the XOR by the old and the new block.     *)
LEMMA XorAllUpdate ==
  ASSUME NEW S, IsFiniteSet(S), NEW d \in S, NEW F, NEW G,
         \A e \in S \ {d} : G[e] = F[e],
         F[d] \in Block, G[d] \in Block
  PROVE  XorAll(S, G) = XorBlock(XorBlock(XorAll(S, F), F[d]), G[d])
<1> DEFINE R == S \ {d}
<1>1. IsFiniteSet(R) /\ d \notin R /\ S = R \cup {d}
  BY FS_RemoveElement
<1>2. XorAll(R, G) = XorAll(R, F)
  BY XorAllAgree
<1>3. /\ XorAll(S, F) = XorBlock(XorAll(R, F), F[d])
      /\ XorAll(S, G) = XorBlock(XorAll(R, F), G[d])
  <2> HIDE DEF R
  <2>1. QED
    BY <1>1, <1>2, XorAllInsert
<1>4. XorBlock(XorAll(S, F), F[d]) = XorAll(R, F)
  BY <1>3, XorAllType, XorBlockCancels
<1>5. QED
  BY <1>3, <1>4

(* A missing block is the XOR of the others and of the parity.             *)
LEMMA XorAllMissing ==
  ASSUME NEW S, IsFiniteSet(S), NEW d \in S, NEW F, F[d] \in Block
  PROVE  XorBlock(XorAll(S, F), XorAll(S \ {d}, F)) = F[d]
<1> DEFINE R == S \ {d}
<1>1. IsFiniteSet(R) /\ d \notin R /\ S = R \cup {d}
  BY FS_RemoveElement
<1>2. XorAll(S, F) = XorBlock(XorAll(R, F), F[d])
  <2> HIDE DEF R
  <2>1. QED
    BY <1>1, XorAllInsert
<1>3. QED
  BY <1>2, XorAllType, XorBlockCancels
=============================================================================
