----------------------------- MODULE LineProofs -----------------------------
(***************************************************************************)
(* Proofs about the buffered line server: whatever pieces the stream comes *)
(* in, it prints the lines of what it has read and keeps the rest.         *)
(***************************************************************************)
EXTENDS LineServer, FiniteSetTheorems, SequenceTheorems, WellFoundedInduction, TLAPS

USE LineAssumption

-----------------------------------------------------------------------------
(* Sets of numbers.                                                        *)

LEMMA LeastNat ==
  ASSUME NEW S, S \subseteq Nat, S # {}
  PROVE  \E m \in S : \A n \in S : m <= n
<1> DEFINE R == {ss \in Nat \X Nat : ss[1] < ss[2]}
<1>1. IsWellFoundedOn(R, Nat)
  BY NatLessThanWellFounded DEF OpToRel
<1> HIDE DEF R
<1>2. PICK m \in S : \A n \in S : ~ (<<n, m>> \in R)
  BY <1>1, WFMin
<1>3. ASSUME NEW n \in S PROVE m <= n
  <2>1. ~ (<<n, m>> \in R)
    BY <1>2
  <2>2. <<n, m>> \in Nat \X Nat
    OBVIOUS
  <2>3. ~ (n < m)
    BY <2>1, <2>2 DEF R
  <2>4. QED
    BY <2>3
<1>4. QED
  BY <1>3

(* Of the numbers below e there is a largest. *)
LEMMA LargestBelow ==
  ASSUME NEW S, S \subseteq Nat, NEW e \in Nat, \E x \in S : x < e
  PROVE  \E b \in S : b < e /\ \A x \in S : x < e => x <= b
<1> DEFINE D == {n \in Nat : \E x \in S : x < e /\ n = e - x}
<1>1. D \subseteq Nat /\ D # {}
  <2>1. PICK x \in S : x < e
    OBVIOUS
  <2>2. e - x \in Nat
    BY <2>1
  <2>3. e - x \in D
    BY <2>1, <2>2
  <2>4. QED
    BY <2>3
<1>2. PICK m \in D : \A n \in D : m <= n
  <2> HIDE DEF D
  <2> QED
    BY <1>1, LeastNat
<1>3. PICK b \in S : b < e /\ m = e - b
  BY <1>2
<1>4. ASSUME NEW x \in S, x < e PROVE x <= b
  <2>1. e - x \in D
    BY <1>4
  <2>2. m <= e - x
    BY <1>2, <2>1
  <2>3. QED
    BY <1>3, <2>2
<1>5. QED
  BY <1>3, <1>4

Below(S, e) == {x \in S : x < e}

(* For every place in the order of S there is an element. *)
Ranked(S) ==
  \A k \in 1..Cardinality(S) : \E e \in S : Cardinality(Below(S, e)) = k - 1

(* The number m is larger than all in S. *)
ComesLast(S, m) ==
  /\ IsFiniteSet(S) /\ S \subseteq Nat /\ m \in Nat
  /\ \A x \in S : x < m

(* A number that is larger than those of S comes last, and does not change *)
(* the order of the others.                                                *)
LEMMA RankLast ==
  ASSUME NEW S, NEW m, ComesLast(S, m)
  PROVE  /\ Cardinality(S) \in Nat
         /\ Cardinality(S \cup {m}) = Cardinality(S) + 1
         /\ Below(S \cup {m}, m) = S
         /\ \A e \in S : Below(S \cup {m}, e) = Below(S, e)
<1> USE DEF ComesLast
<1>1. m \notin S
  OBVIOUS
<1>2. Cardinality(S) \in Nat
  BY FS_CardinalityType
<1>3. Cardinality(S \cup {m}) = Cardinality(S) + 1
  BY <1>1, FS_AddElement
<1>4. Below(S \cup {m}, m) = S
  <2>0. ~(m < m)
    OBVIOUS
  <2>1. ASSUME NEW x PROVE x \in {y \in S \cup {m} : y < m} <=> x \in S
    BY <2>0, Zenon
  <2>2. {y \in S \cup {m} : y < m} = S
    BY <2>1
  <2>3. QED
    BY <2>2 DEF Below
<1>5. \A e \in S : Below(S \cup {m}, e) = Below(S, e)
  BY DEF Below
<1>6. QED
  BY <1>2, <1>3, <1>4, <1>5

LEMMA RankedLast ==
  ASSUME NEW S, NEW m, ComesLast(S, m), Ranked(S)
  PROVE  Ranked(S \cup {m})
<1>1. SUFFICES ASSUME NEW k \in 1..Cardinality(S \cup {m})
               PROVE  \E e \in S \cup {m} : Cardinality(Below(S \cup {m}, e)) = k - 1
  BY DEF Ranked
<1>2. Cardinality(S) \in Nat /\ Cardinality(S \cup {m}) = Cardinality(S) + 1
  BY RankLast
<1>3. CASE k = Cardinality(S) + 1
  <2>1. Below(S \cup {m}, m) = S
    BY RankLast
  <2>3. Cardinality(Below(S \cup {m}, m)) = k - 1
    BY <1>2, <1>3, <2>1
  <2>2. QED
    BY <2>3
<1>4. CASE k \in 1..Cardinality(S)
  <2>1. PICK e \in S : Cardinality(Below(S, e)) = k - 1
    BY <1>4 DEF Ranked
  <2>2. \A d \in S : Below(S \cup {m}, d) = Below(S, d)
    BY RankLast
  <2>3. Below(S \cup {m}, e) = Below(S, e)
    BY <2>2
  <2>4. QED
    BY <2>1, <2>3
<1>5. QED
  BY <1>2, <1>3, <1>4

(* The last of S \cup {m} is m, and the others are where they were in S. *)
LEMMA NthEndLast ==
  ASSUME NEW S, NEW m, ComesLast(S, m), Ranked(S)
  PROVE  /\ NthEnd(S \cup {m}, Cardinality(S) + 1) = m
         /\ \A k \in 1..Cardinality(S) :
              NthEnd(S, k) \in S /\ NthEnd(S \cup {m}, k) = NthEnd(S, k)
<1>2. Cardinality(S) \in Nat
  BY RankLast
<1> SUFFICES ASSUME NEW k \in 1..(Cardinality(S) + 1)
             PROVE  /\ k = Cardinality(S) + 1 => NthEnd(S \cup {m}, k) = m
                    /\ k \in 1..Cardinality(S) =>
                         NthEnd(S, k) \in S /\ NthEnd(S \cup {m}, k) = NthEnd(S, k)
  BY <1>2
<1> DEFINE InT(e) == e \in S \cup {m} /\ Cardinality({x \in S \cup {m} : x < e}) = k - 1
           InS(e) == e \in S /\ Cardinality({x \in S : x < e}) = k - 1
<1>1. NthEnd(S \cup {m}, k) = (CHOOSE e : InT(e)) /\ NthEnd(S, k) = (CHOOSE e : InS(e))
  BY DEF NthEnd
<1>3. InT(m) <=> Cardinality(S) = k - 1
  BY RankLast DEF Below
<1>4. ASSUME NEW e, e # m PROVE InT(e) <=> InS(e)
  <2>1. CASE e \in S
    <3>1. \A d \in S : Below(S \cup {m}, d) = Below(S, d)
      BY RankLast
    <3>2. Below(S \cup {m}, e) = Below(S, e)
      BY <2>1, <3>1
    <3>3. {x \in S \cup {m} : x < e} = {x \in S : x < e}
      BY <3>2 DEF Below
    <3>4. QED
      BY <2>1, <3>3
  <2>2. QED
    BY <1>4, <2>1
<1>5. k \in 1..Cardinality(S) => \E e : InS(e)
  BY DEF Ranked, Below
<1>6. ~InS(m)
  BY DEF ComesLast
<1>7. ASSUME k = Cardinality(S) + 1 PROVE \A e : InS(e) => FALSE
  <2> SUFFICES ASSUME NEW e, InS(e) PROVE FALSE
    OBVIOUS
  <2>1. {x \in S : x < e} \in SUBSET S /\ e \notin {x \in S : x < e} /\ e \in S
    BY DEF ComesLast
  <2>2. Cardinality({x \in S : x < e}) = Cardinality(S)
    BY <1>2, <1>7
  <2>3. {x \in S : x < e} = S
    BY <2>1, <2>2, FS_Subset DEF ComesLast
  <2>4. QED
    BY <2>1, <2>3
<1> HIDE DEF InT, InS
<1>8. k = Cardinality(S) + 1 => (\A e : InT(e) <=> e = m)
  BY <1>2, <1>3, <1>4, <1>7
<1>9. k = Cardinality(S) + 1 => (CHOOSE e : InT(e)) = m
  BY <1>8
<1>10. k \in 1..Cardinality(S) => (\A e : InT(e) <=> InS(e))
  BY <1>2, <1>3, <1>4, <1>6
<1>11. k \in 1..Cardinality(S) => (CHOOSE e : InT(e)) = (CHOOSE e : InS(e))
  BY <1>10, Zenon
<1>12. k \in 1..Cardinality(S) => InS(CHOOSE e : InS(e))
  BY <1>5, Zenon
<1>13. k \in 1..Cardinality(S) => (CHOOSE e : InS(e)) \in S
  BY <1>12 DEF InS
<1>14. QED
  BY <1>1, <1>9, <1>11, <1>13

-----------------------------------------------------------------------------
(* Lines of a stream.                                                      *)

EndsOK(s) == IsFiniteSet(Ends(s)) /\ Ends(s) \subseteq Nat /\ 0 \in Ends(s)

LEMMA EndsType ==
  ASSUME NEW s, Len(s) \in Nat
  PROVE  EndsOK(s)
<1>1. Ends(s) \subseteq 0..Len(s)
  BY DEF Ends
<1>2. IsFiniteSet(0..Len(s))
  BY FS_Interval
<1>3. IsFiniteSet(Ends(s))
  BY <1>1, <1>2, FS_Subset
<1>4. QED
  BY <1>1, <1>3 DEF EndsOK, Ends

(* Where a line starts: behind the end before it. *)
LEMMA StartOfIs ==
  ASSUME NEW s, EndsOK(s), NEW e \in Nat,
         NEW b \in Ends(s), b < e, \A x \in Ends(s) : x < e => x <= b
  PROVE  StartOf(s, e) = b + 1
<1> DEFINE Last(a) == a < e /\ \A x \in Ends(s) : x < e => x <= a
<1>1. \A a \in Ends(s) : Last(a) => a = b
  BY DEF EndsOK
<1>2. Last(b)
  OBVIOUS
<1> HIDE DEF Last
<1>3. (CHOOSE a \in Ends(s) : Last(a)) = b
  BY <1>1, <1>2
<1>4. StartOf(s, e) = 1 + b
  BY <1>3 DEF StartOf, Last
<1>5. QED
  BY <1>4 DEF EndsOK

(* The lines are known from where they end. *)
LEMMA SameLines ==
  ASSUME NEW s, NEW t, Ends(s) = Ends(t)
  PROVE  Lines(s) = Lines(t)
<1>1. \A e : StartOf(s, e) = StartOf(t, e)
  BY DEF StartOf
<1>2. \A e : LineTo(s, e) = LineTo(t, e)
  BY <1>1 DEF LineTo
<1>3. QED
  BY <1>2 DEF Lines

BytesFrom(b, n) == [i \in 1..n |-> b + i]

(* A line starts where it did if what comes after it is not counted. *)
LEMMA LineBefore ==
  ASSUME NEW s, EndsOK(s), NEW t, EndsOK(t),
         NEW m \in Nat, Ends(t) = Ends(s) \cup {m},
         NEW e \in Ends(s) \ {0}, e < m
  PROVE  LineTo(t, e) = LineTo(s, e)
<1>1. e \in Nat /\ 0 < e
  BY DEF EndsOK
<1>2. PICK b \in Ends(s) : b < e /\ \A x \in Ends(s) : x < e => x <= b
  BY <1>1, LargestBelow DEF EndsOK
<1>3. StartOf(s, e) = b + 1
  BY <1>1, <1>2, StartOfIs
<1>4. b \in Ends(t) /\ \A x \in Ends(t) : x < e => x <= b
  BY <1>1, <1>2
<1>5. StartOf(t, e) = b + 1
  BY <1>1, <1>2, <1>4, StartOfIs
<1>6. QED
  BY <1>3, <1>5 DEF LineTo

(* One more end, behind all others, is one more line. *)
OneEndMore(s, t, base, m) ==
  /\ EndsOK(s) /\ EndsOK(t)
  /\ base \in Ends(s) /\ \A x \in Ends(s) : x <= base
  /\ m \in Nat /\ base < m /\ Ends(t) = Ends(s) \cup {m}

LEMMA OneMoreLine ==
  ASSUME NEW s, NEW t, NEW base, NEW m, OneEndMore(s, t, base, m),
         Ranked(Ends(s) \ {0}),
         Lines(s) \in Seq(Seq(Nat)), NEW line \in Seq(Nat),
         line = BytesFrom(base, m - base - 2)
  PROVE  /\ Lines(t) = Append(Lines(s), line)
         /\ Ranked(Ends(t) \ {0})
<1> USE DEF OneEndMore
<1> DEFINE S == Ends(s) \ {0}
           n == Cardinality(S)
<1>1. ComesLast(S, m) /\ base \in Nat /\ m # 0
  <2>1. IsFiniteSet(S)
    BY FS_Subset DEF EndsOK
  <2>2. QED
    BY <2>1 DEF EndsOK, ComesLast
<1>2. Ends(t) \ {0} = S \cup {m}
  BY <1>1
<1>3. n \in Nat /\ Cardinality(S \cup {m}) = n + 1
  BY <1>1, RankLast
<1>5. Lines(s) = [k \in 1..n |-> LineTo(s, NthEnd(S, k))]
  BY DEF Lines
<1>6. Lines(t) = [k \in 1..(n + 1) |-> LineTo(t, NthEnd(S \cup {m}, k))]
  BY <1>2, <1>3 DEF Lines
<1>7. Ranked(S)
  OBVIOUS
<1> HIDE DEF S, n
<1>4. Ranked(Ends(t) \ {0})
  <2>1. Ranked(S \cup {m})
    BY <1>1, <1>7, RankedLast
  <2>2. QED
    BY <1>2, <2>1
<1>14. /\ NthEnd(S \cup {m}, n + 1) = m
       /\ \A k \in 1..n : NthEnd(S, k) \in S /\ NthEnd(S \cup {m}, k) = NthEnd(S, k)
  BY <1>1, <1>7, NthEndLast DEF n
<1>8. ASSUME NEW k \in 1..n PROVE LineTo(t, NthEnd(S \cup {m}, k)) = Lines(s)[k]
  <2>1. NthEnd(S, k) \in S /\ NthEnd(S \cup {m}, k) = NthEnd(S, k)
    BY <1>8, <1>14
  <2>2. PICK e \in S : e = NthEnd(S, k)
    BY <2>1
  <2>3. e \in Ends(s) \ {0} /\ e < m
    BY <1>1, <2>2 DEF S, ComesLast
  <2>4. LineTo(t, e) = LineTo(s, e)
    BY <2>3, LineBefore
  <2>5. QED
    BY <1>5, <1>8, <2>1, <2>2, <2>4
<1>9. LineTo(t, NthEnd(S \cup {m}, n + 1)) = line
  <2>1. NthEnd(S \cup {m}, n + 1) = m
    BY <1>14
  <2>2. base \in Ends(t) /\ \A x \in Ends(t) : x < m => x <= base
    OBVIOUS
  <2>3. StartOf(t, m) = base + 1
    BY <2>2, StartOfIs
  <2>4. m - StartOf(t, m) - 1 = m - base - 2 /\ \A i : StartOf(t, m) + i - 1 = (base + 1) + i - 1
    BY <1>1, <2>3
  <2>5. LineTo(t, m) = BytesFrom(base, m - base - 2)
    BY <1>1, <2>3, <2>4 DEF LineTo, BytesFrom
  <2>6. QED
    BY <2>1, <2>5
<1>10. Len(Lines(s)) = n
  BY <1>3, <1>5
<1>11. /\ DOMAIN Append(Lines(s), line) = 1..(n + 1)
       /\ Append(Lines(s), line)[n + 1] = line
       /\ \A k \in 1..n : Append(Lines(s), line)[k] = Lines(s)[k]
       /\ Append(Lines(s), line) \in Seq(Seq(Nat))
  BY <1>3, <1>10, AppendProperties, LenProperties
<1>12. Lines(t) = Append(Lines(s), line)
  <2>1. PICK a : a = Append(Lines(s), line)
    OBVIOUS
  <2>2. a = [k \in 1..(n + 1) |-> a[k]]
    <3>1. a \in Seq(Seq(Nat)) /\ DOMAIN a = 1..(n + 1)
      BY <1>11, <2>1
    <3>2. QED
      BY <3>1, LenProperties
  <2>3. ASSUME NEW k \in 1..(n + 1) PROVE a[k] = LineTo(t, NthEnd(S \cup {m}, k))
    <3>1. CASE k = n + 1
      BY <1>9, <1>11, <2>1, <3>1
    <3>2. CASE k \in 1..n
      BY <1>8, <1>11, <2>1, <3>2
    <3>3. QED
      BY <1>3, <3>1, <3>2
  <2>4. QED
    BY <1>6, <2>1, <2>2, <2>3
<1>13. QED
  BY <1>4, <1>12

-----------------------------------------------------------------------------
(* Types, and the client.                                                  *)

TypeOK ==
  /\ message \in Seq(Kinds)
  /\ current_byte \in Nat
  /\ written \in Seq(Kinds)
  /\ client \in {"writing", "closed", "lost"}
  /\ nread \in Nat
  /\ buf \in Seq(Nat)
  /\ printed \in Seq(Seq(Nat))
  /\ pc \in {"accept", "read", "lines"}

(* The client has written the first current_byte bytes of what it has to.  *)
ClientInv ==
  /\ current_byte <= TotalBytes
  /\ Len(written) = current_byte
  /\ \A i \in 1..current_byte : written[i] = MessageByte(i - 1)
  /\ client = "closed" => current_byte = TotalBytes

LEMMA TotalBytesType == TypeOK => TotalBytes \in Nat
<1> SUFFICES ASSUME TypeOK PROVE TotalBytes \in Nat
  OBVIOUS
<1>1. Len(message) \in Nat
  BY DEF TypeOK
<1>2. \A a, b \in Nat : a * b \in Nat
  OBVIOUS
<1>3. QED
  BY <1>1, <1>2 DEF TotalBytes

LEMMA MessageByteType ==
  ASSUME TypeOK, NEW i \in Nat, i < TotalBytes
  PROVE  MessageByte(i) \in Kinds
<1>1. Len(message) \in Nat
  BY DEF TypeOK
<1>2. Len(message) # 0
  <2>1. TIMES * 0 = 0
    OBVIOUS
  <2>2. QED
    BY <2>1 DEF TotalBytes
<1>3. \A a \in Nat, b \in Nat \ {0} : a % b \in 0..(b - 1)
  OBVIOUS
<1>4. i % Len(message) \in 0..(Len(message) - 1)
  BY <1>1, <1>2, <1>3
<1>5. PICK k : k = (i % Len(message)) + 1
  OBVIOUS
<1>6. k \in 1..Len(message)
  BY <1>1, <1>4, <1>5
<1>7. message[k] \in Kinds
  BY <1>6, ElementOfSeq DEF TypeOK
<1>8. QED
  BY <1>5, <1>7 DEF MessageByte

(* A piece goes behind what was written before. *)
LEMMA PieceWritten ==
  ASSUME TypeOK, ClientInv, WritePiece
  PROVE  /\ written' \in Seq(Kinds) /\ current_byte' \in Nat
         /\ Len(written) <= Len(written')
         /\ \A i \in 1..Len(written) : written'[i] = written[i]
         /\ ClientInv'
<1>1. PICK size : /\ size \in Nat
                  /\ current_byte + size <= TotalBytes
                  /\ written' = written \o Piece(size)
                  /\ current_byte' = current_byte + size
  <2>1. TotalBytes \in Nat /\ current_byte < TotalBytes /\ current_byte \in Nat
    BY TotalBytesType DEF WritePiece, TypeOK
  <2>2. PICK random \in MINCHARS..MAXCHARS :
          LET sz == Smaller(random, TotalBytes - current_byte) IN
          /\ written' = written \o Piece(sz)
          /\ current_byte' = current_byte + sz
    BY DEF WritePiece
  <2>3. PICK size : size = Smaller(random, TotalBytes - current_byte)
    OBVIOUS
  <2>4. size \in Nat /\ size <= TotalBytes - current_byte
    BY <2>1, <2>3 DEF Smaller
  <2>5. current_byte + size <= TotalBytes
    BY <2>1, <2>4
  <2>6. QED
    BY <2>2, <2>3, <2>4, <2>5
<1>2. UNCHANGED <<message, client>> /\ client = "writing"
  BY DEF WritePiece
<1>3. current_byte \in Nat /\ TotalBytes \in Nat /\ written \in Seq(Kinds)
  BY TotalBytesType DEF TypeOK
<1>4. Piece(size) \in Seq(Kinds) /\ Len(Piece(size)) = size
  <2>1. \A i \in 1..size : MessageByte(current_byte + i - 1) \in Kinds
    BY <1>1, <1>3, MessageByteType
  <2>2. Piece(size) \in [1..size -> Kinds]
    BY <2>1 DEF Piece
  <2>3. QED
    BY <1>1, <2>2
<1>5. /\ written' \in Seq(Kinds) /\ Len(written') = Len(written) + size
      /\ \A i \in 1..(Len(written) + size) :
           written'[i] = IF i <= Len(written) THEN written[i] ELSE Piece(size)[i - Len(written)]
  BY <1>1, <1>3, <1>4, ConcatProperties
<1>6. Len(written) = current_byte /\ Len(written) \in Nat
  BY DEF ClientInv, TypeOK
<1>7. \A i \in 1..size : Piece(size)[i] = MessageByte(current_byte + i - 1)
  BY DEF Piece
<1>8. TotalBytes' = TotalBytes /\ \A i : MessageByte(i)' = MessageByte(i)
  BY <1>2 DEF TotalBytes, MessageByte
<1>9. ASSUME NEW i \in 1..(current_byte + size) PROVE written'[i] = MessageByte(i - 1)
  <2>1. CASE i <= current_byte
    BY <1>3, <1>5, <1>6, <1>9, <2>1 DEF ClientInv
  <2>2. CASE i > current_byte
    <3>1. PICK j : j = i - current_byte
      OBVIOUS
    <3>2. j \in 1..size /\ current_byte + j - 1 = i - 1
      BY <1>1, <1>3, <1>9, <2>2, <3>1
    <3>3. written'[i] = Piece(size)[j]
      BY <1>3, <1>5, <1>6, <1>9, <2>2, <3>1
    <3>4. QED
      BY <1>7, <3>2, <3>3
  <2>3. QED
    BY <1>3, <1>9, <2>1, <2>2
<1>10. ClientInv'
  BY <1>1, <1>2, <1>3, <1>5, <1>6, <1>8, <1>9 DEF ClientInv
<1>11. QED
  BY <1>1, <1>3, <1>5, <1>6, <1>10

-----------------------------------------------------------------------------
(* The buffer, and what has been printed.                                  *)

(* All up to here has been printed. *)
Base == nread - Len(buf)

Prefix(n) == SubSeq(written, 1, n)

(* The line feeds that end a line within the first n bytes. *)
Breaks(n) == {i \in 2..n : written[i - 1] = CR /\ written[i] = LF}

BufferInv ==
  /\ nread <= Len(written)
  /\ Len(buf) <= nread /\ Len(buf) <= BUFSIZE
  /\ \A i \in 1..Len(buf) : buf[i] = Base + i
  /\ Base = 0 \/ Base \in Breaks(nread)
  /\ pc = "read" => \A e \in Breaks(nread) : e <= Base

PrintedInv ==
  /\ printed = Lines(Prefix(Base))
  /\ Ranked(Breaks(Base))

LEMMA BaseType ==
  TypeOK /\ BufferInv =>
    /\ Len(buf) \in Nat /\ Len(written) \in Nat /\ nread \in Nat
    /\ Base \in 0..nread /\ nread = Base + Len(buf)
BY DEF TypeOK, BufferInv, Base

LEMMA PrefixEnds ==
  ASSUME TypeOK, NEW n \in 0..Len(written)
  PROVE  /\ Len(Prefix(n)) = n
         /\ Ends(Prefix(n)) = {0} \cup Breaks(n)
         /\ Ends(Prefix(n)) \ {0} = Breaks(n)
         /\ EndsOK(Prefix(n))
<1>1. Len(written) \in Nat /\ n \in Nat /\ \A i \in 1..n : written[i] \in Kinds
  BY ElementOfSeq DEF TypeOK
<1>2. /\ Len(Prefix(n)) = n
      /\ \A i \in 1..n : Prefix(n)[i] = written[i]
  <2>1. /\ Len(SubSeq(written, 1, n)) = (IF 1 <= n THEN n - 1 + 1 ELSE 0)
        /\ \A i \in 1..(n - 1 + 1) : SubSeq(written, 1, n)[i] = written[1 + i - 1]
    BY <1>1, SubSeqProperties
  <2>2. \A i \in 1..n : i \in 1..(n - 1 + 1) /\ 1 + i - 1 = i
    BY <1>1
  <2>3. QED
    BY <1>1, <2>1, <2>2 DEF Prefix
<1>3. PICK s : s = Prefix(n)
  OBVIOUS
<1>4. Ends(s) = {0} \cup {i \in 2..n : s[i - 1] = CR /\ s[i] = LF}
  BY <1>2, <1>3 DEF Ends
<1>5. \A i \in 2..n : s[i] = written[i] /\ s[i - 1] = written[i - 1]
  BY <1>1, <1>2, <1>3
<1>6. Ends(s) = {0} \cup Breaks(n)
  BY <1>4, <1>5 DEF Breaks
<1>7. 0 \notin Breaks(n)
  BY DEF Breaks
<1>8. EndsOK(s)
  BY <1>1, <1>2, <1>3, EndsType
<1>9. QED
  BY <1>2, <1>3, <1>6, <1>7, <1>8

LEMMA BreaksUpTo ==
  ASSUME TypeOK, NEW n \in 0..Len(written), NEW m \in 0..n
  PROVE  /\ Breaks(m) = {e \in Breaks(n) : e <= m}
         /\ \A e \in Breaks(n) : e \in Nat /\ 2 <= e
BY DEF Breaks, TypeOK

(* What comes after n bytes plays no part in their lines. *)
LEMMA PrefixKept ==
  ASSUME TypeOK, TypeOK', Len(written) <= Len(written'),
         \A i \in 1..Len(written) : written'[i] = written[i],
         NEW n \in 0..Len(written)
  PROVE  Breaks(n)' = Breaks(n) /\ Lines(Prefix(n)') = Lines(Prefix(n))
<1>1. Len(written) \in Nat /\ Len(written') \in Nat /\ n \in 0..Len(written')
  BY DEF TypeOK
<1>2. Breaks(n)' = Breaks(n)
  <2>1. \A i \in 2..n : written'[i] = written[i] /\ written'[i - 1] = written[i - 1]
    BY <1>1
  <2>2. QED
    BY <2>1 DEF Breaks
<1>3. Ends(Prefix(n)) = {0} \cup Breaks(n)
  BY PrefixEnds
<1>4. Ends(Prefix(n)') = {0} \cup Breaks(n)'
  <2>1. TypeOK /\ n \in 0..Len(written) => Ends(Prefix(n)) = {0} \cup Breaks(n)
    BY PrefixEnds
  <2>2. (TypeOK /\ n \in 0..Len(written) => Ends(Prefix(n)) = {0} \cup Breaks(n))'
    BY PrefixEnds, PTL
  <2>3. QED
    BY <1>1, <2>2 DEF Ends
<1>5. Lines(Prefix(n)') = Lines(Prefix(n))
  BY <1>2, <1>3, <1>4, SameLines
<1>6. QED
  BY <1>2, <1>5

(* Lines is a function of the stream alone.                                *)
LEMMA LinesNext == Lines(Prefix(Base))' = Lines(Prefix(Base)')
BY DEF Lines, LineTo, StartOf, NthEnd, Ends

(* How the buffer is kept by a step that does not touch it.                *)
LEMMA Kept ==
  ASSUME TypeOK, TypeOK', BufferInv, PrintedInv,
         Len(written) <= Len(written'),
         \A i \in 1..Len(written) : written'[i] = written[i],
         UNCHANGED <<nread, buf, printed>>,
         pc' = "read" => \A e \in Breaks(nread) : e <= Base
  PROVE  BufferInv' /\ PrintedInv'
<1>1. /\ Len(buf) \in Nat /\ Len(written) \in Nat /\ nread \in Nat
      /\ Base \in 0..nread
  BY BaseType
<1>2. PICK b, n : b = Base /\ n = nread
  OBVIOUS
<1>3. b \in 0..Len(written) /\ n \in 0..Len(written)
  BY <1>1, <1>2 DEF BufferInv
<1>4. Base' = b /\ nread' = n
  BY <1>2 DEF Base
<1>5. Breaks(n)' = Breaks(n) /\ Breaks(b)' = Breaks(b) /\ Lines(Prefix(b)') = Lines(Prefix(b))
  BY <1>3, PrefixKept
<1>6. Breaks(nread)' = Breaks(n) /\ Breaks(Base)' = Breaks(b)
  BY <1>4, <1>5 DEF Breaks
<1>7. BufferInv'
  <2>1. b = 0 \/ b \in Breaks(n)
    BY <1>2 DEF BufferInv
  <2>2. pc' = "read" => \A e \in Breaks(n) : e <= b
    BY <1>2
  <2>3. \A i \in 1..Len(buf) : buf[i] = b + i
    BY <1>2 DEF BufferInv
  <2>4. Len(written') \in Nat /\ n <= Len(written')
    BY <1>1, <1>3 DEF TypeOK
  <2>5. Len(buf) <= n /\ Len(buf) <= BUFSIZE
    BY <1>2 DEF BufferInv
  <2>6. QED
    BY <1>4, <1>6, <2>1, <2>2, <2>3, <2>4, <2>5 DEF BufferInv
<1>8. PrintedInv'
  <2>1. printed = Lines(Prefix(b)) /\ Ranked(Breaks(b))
    BY <1>2 DEF PrintedInv
  <2>2. Lines(Prefix(Base))' = Lines(Prefix(b))
    <3>1. Prefix(Base)' = Prefix(b)'
      BY <1>4 DEF Prefix
    <3>2. QED
      BY <1>5, <3>1, LinesNext
  <2>3. Ranked(Breaks(Base))'
    BY <1>6, <2>1 DEF Ranked, Below
  <2>4. QED
    BY <2>1, <2>2, <2>3 DEF PrintedInv
<1>9. QED
  BY <1>7, <1>8

(* An end of a line behind what was printed lies, with the byte before it, *)
(* in the buffer.                                                          *)
LEMMA BreakInBuffer ==
  ASSUME TypeOK, BufferInv
  PROVE  /\ \A e \in Breaks(nread) : e > Base =>
              e - 1 - Base \in NewlinesIn(buf)
         /\ \A i \in NewlinesIn(buf) :
              /\ i \in 1..(Len(buf) - 1)
              /\ Base + i + 1 \in Breaks(nread)
<1>1. /\ Len(buf) \in Nat /\ Len(written) \in Nat /\ nread \in Nat
      /\ Base \in 0..nread /\ nread = Base + Len(buf)
  BY BaseType
<1>2. \A i \in 1..Len(buf) : buf[i] = Base + i
  BY DEF BufferInv
<1>3. ASSUME NEW e \in Breaks(nread), e > Base PROVE e - 1 - Base \in NewlinesIn(buf)
  <2>1. e \in 2..nread /\ written[e - 1] = CR /\ written[e] = LF
    BY <1>3 DEF Breaks
  <2>2. e - 1 # Base
    <3>1. SUFFICES ASSUME e - 1 = Base PROVE FALSE
      OBVIOUS
    <3>2. Base # 0
      BY <2>1, <3>1
    <3>3. written[Base] = LF
      BY <3>2 DEF BufferInv, Breaks
    <3>4. CR # LF
      BY DEF CR, LF
    <3>5. QED
      BY <2>1, <3>1, <3>3, <3>4
  <2>3. PICK i : i = e - 1 - Base
    OBVIOUS
  <2>4. i \in 1..(Len(buf) - 1) /\ Base + i = e - 1 /\ Base + (i + 1) = e
    BY <1>1, <1>3, <2>1, <2>2, <2>3
  <2>5. buf[i] = e - 1 /\ buf[i + 1] = e
    BY <1>1, <1>2, <2>4
  <2>6. i \in NewlinesIn(buf)
    BY <2>1, <2>4, <2>5 DEF NewlinesIn
  <2>7. QED
    BY <2>3, <2>6
<1>4. ASSUME NEW i \in NewlinesIn(buf)
      PROVE  i \in 1..(Len(buf) - 1) /\ Base + i + 1 \in Breaks(nread)
  <2>1. i \in 1..(Len(buf) - 1) /\ written[buf[i]] = CR /\ written[buf[i + 1]] = LF
    BY <1>4 DEF NewlinesIn
  <2>2. buf[i] = Base + i /\ buf[i + 1] = Base + i + 1
    BY <1>1, <1>2, <2>1
  <2>3. PICK e : e = Base + i + 1
    OBVIOUS
  <2>4. e \in 2..nread /\ e - 1 = Base + i
    BY <1>1, <2>1, <2>3
  <2>5. QED
    BY <2>1, <2>2, <2>3, <2>4 DEF Breaks
<1>5. QED
  BY <1>3, <1>4

(* find_network_newline finds the first end of a line in the buffer.       *)
LEMMA Found ==
  ASSUME TypeOK, NewlinesIn(buf) # {}
  PROVE  /\ FindNetworkNewline(buf) - 1 \in NewlinesIn(buf)
         /\ \A j \in NewlinesIn(buf) : FindNetworkNewline(buf) - 1 <= j
<1>1. NewlinesIn(buf) \subseteq Nat
  BY DEF NewlinesIn
<1>2. \E i \in NewlinesIn(buf) : \A j \in NewlinesIn(buf) : i <= j
  BY <1>1, LeastNat
<1>3. PICK i : i = (CHOOSE a \in NewlinesIn(buf) : \A j \in NewlinesIn(buf) : a <= j)
  OBVIOUS
<1>4. i \in NewlinesIn(buf) /\ \A j \in NewlinesIn(buf) : i <= j
  BY <1>2, <1>3
<1>5. FindNetworkNewline(buf) = i + 1
  BY <1>3 DEF FindNetworkNewline
<1>6. QED
  BY <1>1, <1>4, <1>5

-----------------------------------------------------------------------------
(* Reading.                                                                *)

LEMMA ReadKeeps ==
  ASSUME TypeOK, BufferInv, PrintedInv, Read
  PROVE  TypeOK' /\ BufferInv' /\ PrintedInv'
<1>1. /\ Len(buf) \in Nat /\ Len(written) \in Nat /\ nread \in Nat
      /\ Base \in 0..nread /\ nread = Base + Len(buf)
  BY BaseType
<1>2. PICK n : /\ n \in Nat /\ n <= BUFSIZE - Len(buf) /\ n <= Len(written) - nread
               /\ buf' = buf \o [i \in 1..n |-> nread + i]
               /\ nread' = nread + n
  <2>1. PICK n \in 1..Smaller(Room, Len(written) - nread) :
          /\ buf' = buf \o [i \in 1..n |-> nread + i]
          /\ nread' = nread + n
    BY DEF Read
  <2>2. n \in Nat /\ n <= Smaller(Room, Len(written) - nread)
    BY <1>1 DEF Smaller, Room
  <2>3. n <= BUFSIZE - Len(buf) /\ n <= Len(written) - nread
    BY <1>1, <2>2 DEF Smaller, Room
  <2>4. QED
    BY <2>1, <2>2, <2>3
<1>3. UNCHANGED <<message, current_byte, written, client, printed>> /\ pc' = "lines"
  BY DEF Read
<1>4. PICK more : more = [i \in 1..n |-> nread + i]
  OBVIOUS
<1>5. more \in Seq(Nat) /\ Len(more) = n
  <2>1. more \in [1..n -> Nat]
    BY <1>1, <1>2, <1>4
  <2>2. QED
    BY <1>2, <1>4, <2>1
<1>6. /\ buf' \in Seq(Nat) /\ Len(buf') = Len(buf) + n
      /\ \A i \in 1..(Len(buf) + n) :
           buf'[i] = IF i <= Len(buf) THEN buf[i] ELSE more[i - Len(buf)]
  BY <1>2, <1>4, <1>5, ConcatProperties DEF TypeOK
<1>7. TypeOK'
  BY <1>1, <1>2, <1>3, <1>6 DEF TypeOK
<1>8. Base' = Base
  BY <1>1, <1>2, <1>6 DEF Base
<1>9. ASSUME NEW i \in 1..Len(buf') PROVE buf'[i] = Base + i
  <2>1. CASE i <= Len(buf)
    <3>1. i \in 1..Len(buf) /\ i \in 1..(Len(buf) + n)
      BY <1>1, <1>2, <1>6, <1>9, <2>1
    <3>2. buf'[i] = buf[i]
      BY <1>6, <2>1, <3>1
    <3>3. QED
      BY <3>1, <3>2 DEF BufferInv
  <2>2. CASE i > Len(buf)
    <3>1. PICK j : j = i - Len(buf)
      OBVIOUS
    <3>2. j \in 1..n /\ nread + j = Base + i
      BY <1>1, <1>2, <1>6, <1>9, <2>2, <3>1
    <3>3. buf'[i] = more[j]
      BY <1>1, <1>6, <1>9, <2>2, <3>1
    <3>4. QED
      BY <1>4, <3>2, <3>3
  <2>3. QED
    BY <1>1, <1>6, <1>9, <2>1, <2>2
<1>10. BufferInv'
  <2>1. \A e \in Breaks(nread) : e \in Breaks(nread)'
    BY <1>1, <1>2, <1>3 DEF Breaks
  <2>2. Base' = 0 \/ Base' \in Breaks(nread)'
    BY <1>8, <2>1 DEF BufferInv
  <2>3. nread' <= Len(written') /\ Len(buf') <= nread' /\ Len(buf') <= BUFSIZE
    BY <1>1, <1>2, <1>3, <1>6
  <2>4. \A i \in 1..Len(buf') : buf'[i] = Base' + i
    BY <1>8, <1>9
  <2>5. pc' # "read"
    BY <1>3
  <2>6. QED
    BY <2>2, <2>3, <2>4, <2>5 DEF BufferInv
<1>11. PrintedInv'
  <2>1. Prefix(Base)' = Prefix(Base)
    BY <1>3, <1>8 DEF Prefix
  <2>2. Lines(Prefix(Base))' = Lines(Prefix(Base))
    BY <2>1, LinesNext
  <2>3. Breaks(Base)' = Breaks(Base)
    BY <1>3, <1>8 DEF Breaks
  <2>4. Ranked(Breaks(Base))'
    BY <2>3 DEF PrintedInv, Ranked, Below
  <2>5. QED
    BY <1>3, <2>2, <2>4 DEF PrintedInv
<1>12. QED
  BY <1>7, <1>10, <1>11

-----------------------------------------------------------------------------
(* Printing.                                                               *)

LEMMA PrintKeeps ==
  ASSUME TypeOK, BufferInv, PrintedInv, PrintLine
  PROVE  TypeOK' /\ BufferInv' /\ PrintedInv'
<1>1. /\ Len(buf) \in Nat /\ Len(written) \in Nat /\ nread \in Nat
      /\ Base \in 0..nread /\ nread = Base + Len(buf) /\ nread <= Len(written)
  BY BaseType DEF BufferInv
<1>2. PICK where : where = FindNetworkNewline(buf)
  OBVIOUS
<1>3. /\ printed' = Append(printed, SubSeq(buf, 1, where - 2))
      /\ buf' = SubSeq(buf, where + 1, Len(buf))
      /\ UNCHANGED <<message, current_byte, written, client, nread, pc>>
      /\ pc = "lines"
      /\ where > 0
  BY <1>2 DEF PrintLine, AfterLine
<1>4. NewlinesIn(buf) # {}
  <2>1. NewlinesIn(buf) = {} => where = -1
    BY <1>2 DEF FindNetworkNewline
  <2>2. QED
    BY <1>3, <2>1
<1>5. where - 1 \in NewlinesIn(buf) /\ \A j \in NewlinesIn(buf) : where - 1 <= j
  BY <1>2, <1>4, Found
<1>6. where \in Nat /\ 2 <= where /\ where <= Len(buf)
  <2>1. where - 1 \in 1..(Len(buf) - 1)
    BY <1>5, BreakInBuffer
  <2>2. \A i \in NewlinesIn(buf) : i \in Nat
    BY DEF NewlinesIn
  <2>3. where \in Int
    BY <1>2, <1>4, <2>2, LeastNat DEF FindNetworkNewline
  <2>4. QED
    BY <1>1, <2>1, <2>3
<1>7. PICK m, b : m = Base + where /\ b = Base
  OBVIOUS
<1>8. m \in Nat /\ b \in Nat /\ b < m /\ m \in 0..nread /\ m - b - 2 = where - 2
  BY <1>1, <1>6, <1>7
<1>9. m \in Breaks(nread)
  <2>1. Base + (where - 1) + 1 \in Breaks(nread)
    BY <1>5, BreakInBuffer
  <2>2. QED
    BY <1>1, <1>6, <1>7, <2>1
<1>10. Breaks(m) = Breaks(b) \cup {m}
  <2>1. /\ Breaks(m) = {e \in Breaks(nread) : e <= m}
        /\ Breaks(b) = {e \in Breaks(nread) : e <= b}
        /\ \A e \in Breaks(nread) : e \in Nat
    BY <1>1, <1>7, <1>8, BreaksUpTo
  <2>2. ASSUME NEW e \in Breaks(nread), e > b PROVE m <= e
    <3>1. e - 1 - Base \in NewlinesIn(buf)
      BY <1>7, <2>2, BreakInBuffer
    <3>2. where - 1 <= e - 1 - Base
      BY <1>5, <3>1
    <3>3. QED
      BY <1>1, <1>6, <1>7, <2>1, <3>2
  <2>3. QED
    <3>1. Breaks(m) \subseteq Breaks(b) \cup {m}
      <4>1. ASSUME NEW e \in Breaks(nread), e <= m, ~(e <= b) PROVE e = m
        BY <1>8, <2>1, <2>2, <4>1
      <4>2. QED
        BY <2>1, <4>1
    <3>2. Breaks(b) \subseteq Breaks(m)
      <4>1. ASSUME NEW e \in Breaks(nread), e <= b PROVE e <= m
        BY <1>8, <2>1, <4>1
      <4>2. QED
        BY <2>1, <4>1
    <3>3. m \in Breaks(m)
      BY <1>8, <1>9, <2>1
    <3>4. QED
      BY <3>1, <3>2, <3>3
<1>11. PICK line : line = SubSeq(buf, 1, where - 2)
  OBVIOUS
<1>12. line \in Seq(Nat) /\ line = BytesFrom(b, m - b - 2)
  <2>1. \A i \in 1..(where - 2) : i \in 1..Len(buf) /\ buf[i] \in Nat /\ buf[i] = b + i
    BY <1>1, <1>6, <1>7 DEF BufferInv
  <2>2. /\ SubSeq(buf, 1, where - 2) \in Seq(Nat)
        /\ Len(SubSeq(buf, 1, where - 2)) = (IF 1 <= where - 2 THEN (where - 2) - 1 + 1 ELSE 0)
        /\ \A i \in 1..((where - 2) - 1 + 1) :
             SubSeq(buf, 1, where - 2)[i] = buf[1 + i - 1]
    BY <1>6, <2>1, SubSeqProperties
  <2>3. Len(line) = where - 2
    BY <1>6, <1>11, <2>2
  <2>4. ASSUME NEW i \in 1..(where - 2) PROVE line[i] = b + i
    <3>1. i \in 1..((where - 2) - 1 + 1) /\ 1 + i - 1 = i
      BY <1>6, <2>4
    <3>2. QED
      BY <1>11, <2>1, <2>2, <2>4, <3>1
  <2>5. line = [i \in 1..(where - 2) |-> line[i]]
    BY <1>11, <2>2, <2>3, LenProperties
  <2>6. QED
    BY <1>8, <1>11, <2>2, <2>4, <2>5 DEF BytesFrom
<1>13. /\ buf' \in Seq(Nat) /\ Len(buf') = Len(buf) - where
       /\ \A i \in 1..Len(buf') : buf'[i] = m + i
  <2>1. \A i \in (where + 1)..Len(buf) : i \in 1..Len(buf) /\ buf[i] \in Nat /\ buf[i] = b + i
    <3>1. \A i \in (where + 1)..Len(buf) : i \in 1..Len(buf)
      BY <1>1, <1>6
    <3>2. \A i \in 1..Len(buf) : buf[i] = b + i /\ b + i \in Nat
      BY <1>1, <1>7, <1>8 DEF BufferInv
    <3>3. QED
      BY <3>1, <3>2
  <2>2. /\ buf' \in Seq(Nat)
        /\ Len(buf') = (IF where + 1 <= Len(buf) THEN Len(buf) - (where + 1) + 1 ELSE 0)
        /\ \A i \in 1..(Len(buf) - (where + 1) + 1) : buf'[i] = buf[(where + 1) + i - 1]
    BY <1>1, <1>3, <1>6, <2>1, SubSeqProperties
  <2>3. Len(buf') = Len(buf) - where
    BY <1>1, <1>6, <2>2
  <2>4. ASSUME NEW i \in 1..Len(buf') PROVE buf'[i] = m + i
    <3>1. PICK j : j = (where + 1) + i - 1
      OBVIOUS
    <3>2. j \in (where + 1)..Len(buf) /\ b + j = m + i /\ i \in 1..(Len(buf) - (where + 1) + 1)
      BY <1>1, <1>6, <1>7, <2>3, <2>4, <3>1
    <3>3. QED
      BY <2>1, <2>2, <3>1, <3>2
  <2>5. QED
    BY <2>2, <2>3, <2>4
<1>14. Base' = m
  <2>1. Base' = nread - (Len(buf) - where)
    BY <1>3, <1>13 DEF Base
  <2>2. QED
    BY <1>1, <1>6, <1>7, <2>1
<1>15. TypeOK'
  BY <1>3, <1>11, <1>12, <1>13, AppendProperties DEF TypeOK
<1>16. BufferInv'
  <2>1. Breaks(nread)' = Breaks(nread)
    BY <1>3 DEF Breaks
  <2>2. nread' <= Len(written') /\ Len(buf') <= nread' /\ Len(buf') <= BUFSIZE
    BY <1>1, <1>3, <1>6, <1>13 DEF BufferInv
  <2>3. QED
    BY <1>3, <1>9, <1>13, <1>14, <2>1, <2>2 DEF BufferInv
<1>17. PICK s, t : s = Prefix(b) /\ t = Prefix(m)
  OBVIOUS
<1>18. /\ Ends(s) = {0} \cup Breaks(b) /\ Ends(s) \ {0} = Breaks(b) /\ EndsOK(s)
       /\ Ends(t) = {0} \cup Breaks(m) /\ Ends(t) \ {0} = Breaks(m) /\ EndsOK(t)
  <2>1. b \in 0..Len(written) /\ m \in 0..Len(written)
    BY <1>1, <1>8
  <2>2. QED
    BY <1>17, <2>1, PrefixEnds
<1>19. /\ b \in Ends(s) /\ \A x \in Ends(s) : x <= b
       /\ Ends(t) = Ends(s) \cup {m}
  <2>1. Breaks(b) = {e \in Breaks(nread) : e <= b}
    BY <1>1, <1>7, BreaksUpTo
  <2>2. b = 0 \/ b \in Breaks(nread)
    BY <1>7 DEF BufferInv
  <2>3. QED
    BY <1>8, <1>10, <1>18, <2>1, <2>2
<1>20. /\ Lines(s) = printed /\ Lines(s) \in Seq(Seq(Nat))
       /\ Ranked(Ends(s) \ {0})
  BY <1>7, <1>17, <1>18 DEF PrintedInv, TypeOK
<1>21. Lines(t) = Append(Lines(s), line) /\ Ranked(Ends(t) \ {0})
  <2>1. OneEndMore(s, t, b, m)
    BY <1>8, <1>18, <1>19 DEF OneEndMore
  <2>2. QED
    BY <1>12, <1>20, <2>1, OneMoreLine
<1>22. PrintedInv'
  <2>1. Prefix(Base)' = t
    BY <1>3, <1>14, <1>17 DEF Prefix
  <2>2. Lines(Prefix(Base))' = printed'
    BY <1>3, <1>11, <1>20, <1>21, <2>1, LinesNext
  <2>3. Breaks(Base)' = Breaks(m)
    BY <1>3, <1>14 DEF Breaks
  <2>4. Ranked(Breaks(Base))'
    BY <1>18, <1>21, <2>3 DEF Ranked, Below
  <2>5. QED
    BY <2>2, <2>4 DEF PrintedInv
<1>23. QED
  BY <1>15, <1>16, <1>22

-----------------------------------------------------------------------------
(* The invariant.                                                          *)

Inv == TypeOK /\ ClientInv /\ BufferInv /\ PrintedInv

LEMMA NoLines ==
  ASSUME NEW s, Ends(s) \ {0} = {}
  PROVE  Lines(s) = <<>>
<1>1. Cardinality({}) = 0 /\ 1..0 = {}
  BY FS_EmptySet
<1>2. Lines(s) = [k \in 1..Cardinality({}) |-> LineTo(s, NthEnd({}, k))]
  BY DEF Lines
<1>3. Lines(s) = [k \in {} |-> LineTo(s, NthEnd({}, k))]
  BY <1>1, <1>2
<1>4. QED
  BY <1>3

(* At the start of a connection nothing is there and nothing printed.      *)
LEMMA NothingYet ==
  ASSUME written = <<>>, buf = <<>>, nread = 0, printed = <<>>
  PROVE  BufferInv /\ PrintedInv
<1>1. Len(<<>>) = 0
  OBVIOUS
<1>2. Base = 0 /\ Breaks(0) = {}
  <2>1. 2..0 = {}
    OBVIOUS
  <2>2. Breaks(0) = {}
    BY <2>1 DEF Breaks
  <2>3. Base = 0
    <3>1. nread = 0 /\ Len(buf) = 0
      BY <1>1
    <3>2. 0 - 0 = 0
      OBVIOUS
    <3>3. QED
      BY <3>1, <3>2, Zenon DEF Base
  <2>4. QED
    BY <2>2, <2>3
<1>3. BufferInv
  BY <1>1, <1>2 DEF BufferInv
<1>4. Cardinality({}) = 0
  BY FS_EmptySet
<1>5. Ends(Prefix(0)) \ {0} = {}
  BY SubSeqEmpty, <1>1 DEF Ends, Prefix
<1>6. Lines(Prefix(0)) = <<>>
  BY <1>5, NoLines
<1>7. Ranked({})
  BY <1>4 DEF Ranked
<1>8. QED
  BY <1>2, <1>3, <1>6, <1>7 DEF PrintedInv

LEMMA InitInv == Init => Inv
<1> SUFFICES ASSUME Init PROVE Inv
  OBVIOUS
<1>1. TypeOK
  BY DEF Init, TypeOK
<1>2. TIMES * 0 = 0 /\ Len(<<>>) = 0
  OBVIOUS
<1>3. ClientInv
  BY <1>2 DEF Init, ClientInv, TotalBytes
<1>4. QED
  BY <1>1, <1>3, NothingYet DEF Init, Inv

LEMMA MessageType ==
  ASSUME NEW msg \in Messages
  PROVE  msg \in Seq(Kinds) /\ Len(msg) \in Nat
<1>1. PICK n \in 1..MaxMessage : msg \in [1..n -> Kinds]
  BY DEF Messages
<1>2. QED
  BY <1>1

LEMMA AcceptKeeps == Accept => Inv'
<1> SUFFICES ASSUME Accept PROVE Inv'
  OBVIOUS
<1>1. /\ message' \in Seq(Kinds) /\ Len(message') \in Nat
      /\ current_byte' = 0 /\ written' = <<>> /\ client' = "writing"
      /\ nread' = 0 /\ buf' = <<>> /\ printed' = <<>> /\ pc' = "read"
  BY MessageType DEF Accept
<1>2. TypeOK'
  BY <1>1 DEF TypeOK
<1>3. TotalBytes' \in Nat
  <2>1. (TypeOK => TotalBytes \in Nat)'
    BY TotalBytesType, PTL
  <2>2. QED
    BY <1>2, <2>1
<1>4. ClientInv'
  BY <1>1, <1>3 DEF ClientInv
<1>5. (written = <<>> /\ buf = <<>> /\ nread = 0 /\ printed = <<>>)'
      => BufferInv' /\ PrintedInv'
  <2>1. written = <<>> /\ buf = <<>> /\ nread = 0 /\ printed = <<>>
        => BufferInv /\ PrintedInv
    BY NothingYet
  <2>2. QED
    BY NothingYet, PTL
<1>6. QED
  BY <1>1, <1>2, <1>4, <1>5 DEF Inv

(* Once find_network_newline finds nothing, no end of a line is left.      *)
LEMMA NoneLeft ==
  ASSUME TypeOK, BufferInv, ~(FindNetworkNewline(buf) > 0)
  PROVE  \A e \in Breaks(nread) : e <= Base
<1>1. NewlinesIn(buf) = {}
  <2>1. SUFFICES ASSUME NewlinesIn(buf) # {} PROVE FALSE
    OBVIOUS
  <2>2. PICK i \in NewlinesIn(buf) : \A j \in NewlinesIn(buf) : i <= j
    <3>1. NewlinesIn(buf) \subseteq Nat
      BY DEF NewlinesIn
    <3>2. QED
      BY <2>1, <3>1, LeastNat
  <2>3. PICK k : k = (CHOOSE a \in NewlinesIn(buf) : \A j \in NewlinesIn(buf) : a <= j)
    OBVIOUS
  <2>4. k \in NewlinesIn(buf)
    BY <2>2, <2>3
  <2>5. k \in Nat
    BY <2>4 DEF NewlinesIn
  <2>6. FindNetworkNewline(buf) = k + 1
    BY <2>1, <2>3 DEF FindNetworkNewline
  <2>7. QED
    BY <2>5, <2>6
<1>2. Base \in Nat
  BY BaseType
<1>3. \A e \in Breaks(nread) : e \in Nat
  BY DEF Breaks
<1>4. QED
  BY <1>1, <1>2, <1>3, BreakInBuffer

LEMMA StepInv == Inv /\ [Next]_vars => Inv'
<1> SUFFICES ASSUME Inv, [Next]_vars PROVE Inv'
  OBVIOUS
<1>1. TypeOK /\ ClientInv /\ BufferInv /\ PrintedInv
  BY DEF Inv
<1>2. CASE Accept
  BY <1>2, AcceptKeeps
<1>3. CASE WritePiece
  <2>1. /\ written' \in Seq(Kinds) /\ current_byte' \in Nat
        /\ Len(written) <= Len(written')
        /\ \A i \in 1..Len(written) : written'[i] = written[i]
        /\ ClientInv'
    BY <1>1, <1>3, PieceWritten
  <2>2. UNCHANGED <<message, client, nread, buf, printed, pc>>
    BY <1>3 DEF WritePiece
  <2>3. TypeOK'
    BY <1>1, <2>1, <2>2 DEF TypeOK
  <2>4. pc' = "read" => \A e \in Breaks(nread) : e <= Base
    BY <1>1, <2>2 DEF BufferInv
  <2>5. BufferInv' /\ PrintedInv'
    BY <1>1, <2>1, <2>2, <2>3, <2>4, Kept
  <2>6. QED
    BY <2>1, <2>3, <2>5 DEF Inv
<1>4. ASSUME UNCHANGED <<message, current_byte, written, nread, buf, printed>>,
             client' \in {"writing", "closed", "lost"},
             client' = "closed" => client = "closed" \/ current_byte = TotalBytes,
             pc' \in {"accept", "read", "lines"},
             pc' = "read" => \A e \in Breaks(nread) : e <= Base
      PROVE  Inv'
  <2>1. TypeOK'
    BY <1>1, <1>4 DEF TypeOK
  <2>2. Len(written) \in Nat
    BY <1>1 DEF TypeOK
  <2>3. Len(written) <= Len(written') /\ \A i \in 1..Len(written) : written'[i] = written[i]
    BY <1>4, <2>2
  <2>4. BufferInv' /\ PrintedInv'
    BY <1>1, <1>4, <2>1, <2>3, Kept
  <2>5. TotalBytes' = TotalBytes /\ \A i : MessageByte(i)' = MessageByte(i)
    BY <1>4 DEF TotalBytes, MessageByte
  <2>6. ClientInv'
    BY <1>1, <1>4, <2>5 DEF ClientInv
  <2>7. QED
    BY <2>1, <2>4, <2>6 DEF Inv
<1>5. CASE CloseSocket \/ ConnectionBreaks
  BY <1>1, <1>4, <1>5 DEF CloseSocket, ConnectionBreaks, BufferInv, TypeOK
<1>6. CASE NoMoreToRead
  BY <1>1, <1>4, <1>6 DEF NoMoreToRead, AfterRead, TypeOK
<1>7. CASE NoMoreLines
  <2>1. \A e \in Breaks(nread) : e <= Base
    BY <1>1, <1>7, NoneLeft DEF NoMoreLines
  <2>2. QED
    BY <1>1, <1>4, <1>7, <2>1 DEF NoMoreLines, TypeOK
<1>8. CASE Read
  <2>1. TypeOK' /\ BufferInv' /\ PrintedInv'
    BY <1>1, <1>8, ReadKeeps
  <2>2. UNCHANGED <<message, current_byte, written, client>>
    BY <1>8 DEF Read
  <2>3. ClientInv'
    BY <1>1, <2>2 DEF ClientInv, TotalBytes, MessageByte
  <2>4. QED
    BY <2>1, <2>3 DEF Inv
<1>9. CASE PrintLine
  <2>1. TypeOK' /\ BufferInv' /\ PrintedInv'
    BY <1>1, <1>9, PrintKeeps
  <2>2. UNCHANGED <<message, current_byte, written, client>>
    BY <1>9 DEF PrintLine
  <2>3. ClientInv'
    BY <1>1, <2>2 DEF ClientInv, TotalBytes, MessageByte
  <2>4. QED
    BY <2>1, <2>3 DEF Inv
<1>10. CASE UNCHANGED vars
  BY <1>1, <1>4, <1>10 DEF vars, BufferInv, TypeOK
<1>11. QED
  BY <1>2, <1>3, <1>5, <1>6, <1>7, <1>8, <1>9, <1>10 DEF Next, Serve

LEMMA Invariance == Spec => []Inv
BY InitInv, StepInv, PTL DEF Spec

(* However the client cuts its messages into pieces, and however much each *)
(* read of bufserver brings, between two reads the lines it has printed    *)
(* are those of what it has read, and the buffer holds what follows the    *)
(* last of them.                                                           *)
THEOREM Buffering == Spec => []LinesOfRead
<1>1. Inv => LinesOfRead
  <2> SUFFICES ASSUME Inv, pc = "read"
               PROVE  LET s == SubSeq(written, 1, nread)
                          end == CHOOSE e \in Ends(s) : \A x \in Ends(s) : x <= e
                      IN /\ printed = Lines(s)
                         /\ buf = [i \in 1..(nread - end) |-> end + i]
    BY DEF LinesOfRead
  <2>1. TypeOK /\ BufferInv /\ PrintedInv
    BY DEF Inv
  <2>2. /\ Len(buf) \in Nat /\ Len(written) \in Nat /\ nread \in Nat
        /\ Base \in 0..nread /\ nread = Base + Len(buf) /\ nread <= Len(written)
    BY <2>1, BaseType DEF BufferInv
  <2>3. PICK s, t, b : s = Prefix(nread) /\ t = Prefix(Base) /\ b = Base
    OBVIOUS
  <2>4. Ends(s) = {0} \cup Breaks(nread) /\ Ends(t) = {0} \cup Breaks(b) /\ EndsOK(s)
    BY <2>1, <2>2, <2>3, PrefixEnds
  <2>5. Breaks(b) = Breaks(nread) /\ \A e \in Breaks(nread) : e <= b
    <3>1. \A e \in Breaks(nread) : e <= b
      BY <2>1, <2>3 DEF BufferInv
    <3>2. nread \in 0..Len(written) /\ b \in 0..nread
      BY <2>2, <2>3
    <3>3. Breaks(b) = {e \in Breaks(nread) : e <= b}
      BY <2>1, <3>2, BreaksUpTo
    <3>4. QED
      BY <3>1, <3>3
  <2>6. printed = Lines(s)
    BY <2>1, <2>3, <2>4, <2>5, SameLines DEF PrintedInv
  <2>7. b \in Ends(s) /\ \A x \in Ends(s) : x <= b
    BY <2>1, <2>2, <2>3, <2>4, <2>5 DEF BufferInv
  <2>8. \A e \in Ends(s) : (\A x \in Ends(s) : x <= e) => e = b
    BY <2>4, <2>7 DEF EndsOK
  <2>9. (CHOOSE e \in Ends(s) : \A x \in Ends(s) : x <= e) = b
    BY <2>7, <2>8
  <2>10. buf = [i \in 1..(nread - b) |-> b + i]
    <3>1. buf = [i \in 1..Len(buf) |-> buf[i]]
      BY <2>1, LenProperties DEF TypeOK
    <3>2. nread - b = Len(buf) /\ \A i \in 1..Len(buf) : buf[i] = b + i
      BY <2>1, <2>2, <2>3 DEF BufferInv
    <3>3. QED
      BY <3>1, <3>2
  <2>11. QED
    BY <2>3, <2>6, <2>9, <2>10 DEF Prefix
<1>2. QED
  BY <1>1, Invariance, PTL

-----------------------------------------------------------------------------
(* What is lost.                                                           *)

(* Stream and what has been written agree as far as the latter goes.       *)
LEMMA StreamEnds ==
  ASSUME Inv
  PROVE  /\ EndsOK(Stream)
         /\ \A e \in Ends(Stream) : e <= TotalBytes
         /\ \A n \in 0..current_byte :
              {e \in Ends(Stream) : e <= n} = {0} \cup Breaks(n)
<1>1. /\ TotalBytes \in Nat /\ current_byte \in Nat /\ current_byte <= TotalBytes
      /\ Len(written) = current_byte
      /\ \A i \in 1..current_byte : written[i] = MessageByte(i - 1)
  BY TotalBytesType DEF Inv, TypeOK, ClientInv
<1>2. PICK s : s = Stream
  OBVIOUS
<1>3. Len(s) = TotalBytes /\ \A i \in 1..TotalBytes : s[i] = MessageByte(i - 1)
  BY <1>1, <1>2 DEF Stream
<1>4. Ends(s) = {0} \cup {i \in 2..TotalBytes : s[i - 1] = CR /\ s[i] = LF}
  BY <1>3 DEF Ends
<1>5. EndsOK(s)
  BY <1>1, <1>3, EndsType
<1>6. ASSUME NEW n \in 0..current_byte
      PROVE  {e \in Ends(s) : e <= n} = {0} \cup Breaks(n)
  <2>1. \A i \in 2..n : /\ s[i] = written[i] /\ s[i - 1] = written[i - 1]
                        /\ i \in 2..TotalBytes
    <3>1. \A i \in 1..current_byte : s[i] = written[i]
      BY <1>1, <1>3
    <3>2. \A i \in 2..n : i \in 1..current_byte /\ i - 1 \in 1..current_byte /\ i \in 2..TotalBytes
      BY <1>1
    <3>3. QED
      BY <3>1, <3>2
  <2>2. ASSUME NEW e \in Breaks(n) PROVE e \in Ends(s) /\ e <= n
    BY <1>1, <1>4, <2>1, <2>2 DEF Breaks
  <2>3. ASSUME NEW e \in Ends(s), e <= n, e # 0 PROVE e \in Breaks(n)
    BY <1>1, <1>4, <2>1, <2>3 DEF Breaks
  <2>4. 0 \in Ends(s) /\ 0 <= n
    BY <1>1, <1>4
  <2>5. QED
    BY <2>2, <2>3, <2>4
<1>7. \A e \in Ends(s) : e <= TotalBytes
  BY <1>1, <1>4
<1>8. QED
  BY <1>2, <1>5, <1>6, <1>7

(* A line of the client's messages that has not been printed when the      *)
(* buffer is full does not fit it.                                         *)
LEMMA FullOrPrinted ==
  ASSUME Inv, pc = "read", Room = 0 \/ (client = "closed" /\ nread = Len(written))
  PROVE  \/ printed = Lines(Stream)
         \/ \E e \in Ends(Stream) \ {0} : ~Fits(Stream, e)
<1>1. /\ Len(buf) \in Nat /\ Len(written) \in Nat /\ nread \in Nat
      /\ Base \in 0..nread /\ nread = Base + Len(buf) /\ nread <= Len(written)
      /\ TypeOK /\ BufferInv
  BY BaseType DEF Inv, BufferInv
<1>2. PICK s, b, n : s = Stream /\ b = Base /\ n = nread
  OBVIOUS
<1>3. Len(written) = current_byte
  BY DEF Inv, ClientInv
<1>4. /\ EndsOK(s) /\ \A e \in Ends(s) : e <= TotalBytes
      /\ {e \in Ends(s) : e <= n} = {0} \cup Breaks(n)
      /\ {e \in Ends(s) : e <= b} = {0} \cup Breaks(b)
  <2>1. b \in 0..current_byte /\ n \in 0..current_byte
    BY <1>1, <1>2, <1>3
  <2>2. QED
    BY <1>2, <2>1, StreamEnds
<1>5. Ends(s) \subseteq Nat
  BY <1>4 DEF EndsOK
<1>6. \A e \in Ends(s) : e <= n => e <= b
  <2>1. \A e \in Breaks(n) : e <= b
    BY <1>1, <1>2 DEF BufferInv
  <2>2. 0 <= b
    BY <1>1, <1>2
  <2>3. QED
    BY <1>4, <2>1, <2>2
<1>7. b \in Ends(s)
  <2>1. b = 0 \/ b \in Breaks(n)
    BY <1>1, <1>2 DEF BufferInv
  <2>2. QED
    BY <1>4, <2>1
<1>8. CASE \A e \in Ends(s) : e <= b
  <2>1. Ends(s) = {0} \cup Breaks(b)
    BY <1>4, <1>8
  <2>2. Ends(Prefix(b)) = {0} \cup Breaks(b)
    BY <1>1, <1>2, PrefixEnds
  <2>3. printed = Lines(Prefix(b))
    BY <1>2 DEF Inv, PrintedInv
  <2>4. QED
    BY <1>2, <2>1, <2>2, <2>3, SameLines
<1>9. CASE \E e \in Ends(s) : ~(e <= b)
  <2> DEFINE Later == {e \in Ends(s) : ~(e <= b)}
  <2>1. Later \subseteq Nat /\ Later # {}
    BY <1>5, <1>9
  <2>2. PICK e \in Later : \A x \in Later : e <= x
    <3> HIDE DEF Later
    <3> QED
      BY <2>1, LeastNat
  <2>3. /\ e \in Ends(s) /\ e \in Nat /\ b \in Nat /\ b < e /\ n < e
        /\ \A x \in Ends(s) : x < e => x <= b
    <3>1. e \in Ends(s) /\ e \in Nat /\ b \in Nat /\ n \in Nat /\ ~(e <= b)
      BY <1>1, <1>2, <1>5, <2>2
    <3>2. ~(e <= n)
      BY <1>6, <3>1
    <3>3. ASSUME NEW x \in Ends(s), x < e PROVE x <= b
      <4>1. x \in Nat
        BY <1>5
      <4>2. x \notin Later
        BY <2>2, <3>1, <3>3, <4>1
      <4>3. QED
        BY <4>2
    <3>4. QED
      BY <3>1, <3>2, <3>3
  <2>4. StartOf(s, e) = b + 1
    BY <1>4, <1>7, <2>3, StartOfIs
  <2>5. Room = 0
    <3>1. client = "closed" /\ nread = Len(written) => n = TotalBytes
      BY <1>2, <1>3 DEF Inv, ClientInv
    <3>2. ~(n = TotalBytes)
      <4>1. e <= TotalBytes /\ n < e /\ e \in Nat /\ n \in Nat
        BY <1>1, <1>2, <1>4, <2>3
      <4>2. QED
        BY <4>1
    <3>3. QED
      BY <3>1, <3>2
  <2>6. n = b + BUFSIZE
    BY <1>1, <1>2, <2>5 DEF Room
  <2>7. e - StartOf(s, e) + 1 = e - b
    BY <2>3, <2>4
  <2>8. ~Fits(s, e)
    BY <2>3, <2>6, <2>7 DEF Fits
  <2>9. e # 0
    BY <2>3
  <2>10. QED
    BY <1>2, <2>3, <2>8, <2>9
<1>10. QED
  BY <1>8, <1>9

LEMMA InitLost == Init => OnlyLongLinesLost
<1> SUFFICES ASSUME Init PROVE printed = Lines(Stream)
  BY DEF OnlyLongLinesLost
<1>1. TIMES * 0 = 0 /\ Len(<<>>) = 0
  OBVIOUS
<1>2. TotalBytes = 0
  BY <1>1 DEF Init, TotalBytes
<1>3. \A e \in Ends(Stream) : e <= 0 /\ e \in Nat
  BY <1>2, InitInv, StreamEnds DEF EndsOK
<1>4. Ends(Stream) \ {0} = {}
  BY <1>3
<1>5. QED
  BY <1>4, NoLines DEF Init

LEMMA LostStep == Inv /\ Inv' /\ OnlyLongLinesLost /\ [Next]_vars => OnlyLongLinesLost'
<1> SUFFICES ASSUME Inv, OnlyLongLinesLost, [Next]_vars, pc' = "accept", client' # "lost"
             PROVE  (\/ printed = Lines(Stream)
                     \/ \E e \in Ends(Stream) \ {0} : ~Fits(Stream, e))'
  BY DEF OnlyLongLinesLost
<1>1. UNCHANGED <<message, printed>> /\ (client = "lost" => client' = "lost")
  <2>1. ~Accept
    BY DEF Accept
  <2>2. CASE WritePiece \/ CloseSocket \/ ConnectionBreaks \/ UNCHANGED vars
    BY <2>2 DEF WritePiece, CloseSocket, ConnectionBreaks, vars
  <2>3. CASE NoMoreToRead
    BY <2>3 DEF NoMoreToRead
  <2>4. ~Read /\ ~PrintLine /\ ~NoMoreLines
    BY DEF Read, PrintLine, NoMoreLines
  <2>5. QED
    BY <2>1, <2>2, <2>3, <2>4 DEF Next, Serve
<1>2. \/ printed = Lines(Stream)
      \/ \E e \in Ends(Stream) \ {0} : ~Fits(Stream, e)
  <2>1. CASE pc = "accept"
    BY <1>1, <2>1 DEF OnlyLongLinesLost
  <2>2. CASE pc # "accept"
    <3>1. NoMoreToRead
      BY <2>2 DEF Next, Serve, Accept, Read, PrintLine, NoMoreLines, WritePiece,
         CloseSocket, ConnectionBreaks, vars
    <3>2. pc = "read" /\ (Room = 0 \/ (client = "closed" /\ nread = Len(written)))
      BY <1>1, <3>1 DEF NoMoreToRead
    <3>3. QED
      BY <3>2, FullOrPrinted
  <2>3. QED
    BY <2>1, <2>2
<1>3. Stream' = Stream
  BY <1>1 DEF Stream, TotalBytes, MessageByte
<1>4. QED
  <2>1. Lines(Stream)' = Lines(Stream')
    BY DEF Lines, LineTo, StartOf, NthEnd, Ends
  <2>2. Ends(Stream)' = Ends(Stream')
    BY DEF Ends
  <2>3. ASSUME NEW e PROVE Fits(Stream, e)' <=> Fits(Stream', e)
    BY DEF Fits, StartOf, Ends
  <2>4. QED
    BY <1>1, <1>2, <1>3, <2>1, <2>2, <2>3

(* A connection that did not break is over only when every line of the     *)
(* client's messages has been printed, or after a line that with its end   *)
(* is longer than the buffer: then read is asked for no bytes and returns  *)
(* 0, which bufserver takes for the end.                                   *)
THEOREM Losses == Spec => []OnlyLongLinesLost
BY InitLost, LostStep, Invariance, PTL DEF Spec
=============================================================================
