----------------------------- MODULE DataProofs -----------------------------
(* What the disks of the RAID simulator hold, whatever is in their pipes:  *)
(* theorems about the parity, the user's data, the checkpoint files, what  *)
(* a disk is rebuilt from, and when restore_disk_process gives up.  The    *)
(* last part shows that while nothing fails the simulator implements the   *)
(* array of blocks of BlockStore.                                          *)
EXTENDS RaidStore, RaidProofs

USE WordAssumption, DiskAssumption, ControllerAssumption, ShellAssumption

-----------------------------------------------------------------------------
(* The contents of a disk and the request in its pipe.                     *)

(* Words that do not begin with a write. *)
NoWrite(q) == q = <<>> \/ q[1] # CMD_WRITE

(* Words that hold a whole write of block b to stripe s. *)
WriteIn(q, s, b) ==
  /\ Len(q) >= BlockWords + 2
  /\ q[1] = CMD_WRITE /\ q[2] = IntWord(s)
  /\ SubSeq(q, 3, BlockWords + 2) = b

(* A disk holds what a whole write in front of it says, and its blocks.    *)
LEMMA ContentsWritten ==
  ASSUME NEW d \in Disks, NEW s \in Stripes, NEW b, WriteIn(Request(d), s, b),
         NEW r \in Stripes
  PROVE  Contents(d)[r] = IF r = s THEN b ELSE blocks[d][r]
<1>1. Request(d)[2] = IntWord(r) <=> r = s
  BY Numbers DEF WriteIn
<1>2. QED
  BY <1>1 DEF Contents, WriteIn

LEMMA ContentsPlain ==
  ASSUME NEW d \in Disks, NEW q \in Seq(Word), q = Request(d),
         NoWrite(q) \/ Len(q) < BlockWords + 2
  PROVE  Contents(d) = blocks[d]
<1>1. ~(Len(q) >= BlockWords + 2 /\ q[1] = CMD_WRITE)
  BY DEF NoWrite
<1>2. QED
  BY <1>1 DEF Contents

LEMMA RequestType ==
  ASSUME DiskTypeOK, NEW d \in Disks
  PROVE  Request(d) \in Seq(Word)
<1>1. toDisk[d] \in Seq(Word) /\ dnum[d] \in Word /\ CMD_WRITE \in Word
  BY Commands DEF DiskTypeOK
<1>2. <<CMD_WRITE>> \o toDisk[d] \in Seq(Word)
  BY <1>1
<1>3. <<CMD_WRITE, dnum[d]>> \o toDisk[d] \in Seq(Word)
  BY <1>1
<1>4. QED
  BY <1>1, <1>2, <1>3 DEF Request

LEMMA SameContents ==
  ASSUME NEW d \in Disks, Request(d)' = Request(d), blocks'[d] = blocks[d]
  PROVE  Contents(d)' = Contents(d)
BY DEF Contents

LEMMA UntouchedContents ==
  ASSUME NEW d \in Disks, dpc'[d] = dpc[d], dnum'[d] = dnum[d],
         toDisk'[d] = toDisk[d], blocks'[d] = blocks[d]
  PROVE  Contents(d)' = Contents(d)
<1>1. Request(d)' = Request(d)
  BY DEF Request, At
<1>2. QED
  BY <1>1, SameContents

(* Where a disk stands does not show in its request: what it has read of   *)
(* it still counts.                                                        *)
LEMMA RequestAt ==
  ASSUME NEW d \in Disks
  PROVE  /\ At(d, "cmd") => Request(d) = toDisk[d]
         /\ At(d, "wnum") => Request(d) = InFront(CMD_WRITE, toDisk[d])
         /\ At(d, "wdata") => Request(d) = Two(CMD_WRITE, dnum[d]) \o toDisk[d]
         /\ dpc[d] \notin {"cmd", "wnum", "wdata"} => Request(d) = <<>>
BY DEF Request, At, InFront, Two

LEMMA PutBack ==
  ASSUME NEW q \in Seq(Word), Len(q) >= 1
  PROVE  InFront(q[1], Rest(q, 1)) = q
<1>1. Len(q) \in 1..Len(q) /\ 1 \in 1..Len(q)
  OBVIOUS
<1>2. SubSeq(q, 1, Len(q)) = <<q[1]>> \o SubSeq(q, 1 + 1, Len(q))
  BY <1>1, SubSeqRecursiveFirst
<1>3. SubSeq(q, 1, Len(q)) = q
  BY SubSeqFull
<1>4. QED
  BY <1>2, <1>3 DEF InFront, Rest

LEMMA TwoInFront ==
  ASSUME NEW v \in Word, NEW w \in Word, NEW q \in Seq(Word)
  PROVE  Two(v, w) \o q = InFront(v, InFront(w, q))
<1>1. One(v) \in Seq(Word) /\ One(w) \in Seq(Word)
  BY OneWord
<1>2. (One(v) \o One(w)) \o q = One(v) \o (One(w) \o q)
  BY <1>1, ConcatAssociative
<1>3. One(v) \o One(w) = Two(v, w)
  BY TwoWords
<1>4. One(v) \o (One(w) \o q) = InFront(v, InFront(w, q))
  BY DEF InFront, One
<1>5. QED
  BY <1>2, <1>3, <1>4

LEMMA InFrontAt ==
  ASSUME NEW w \in Word, NEW q \in Seq(Word), NEW i \in 1..Len(q)
  PROVE  InFront(w, q)[i + 1] = q[i]
BY DEF InFront

LEMMA WriteThenIn ==
  ASSUME NEW s \in Stripes, NEW b \in Block, NEW t \in Seq(Word)
  PROVE  WriteIn(WriteThen(s, b, t), s, b)
<1> DEFINE q == WriteThen(s, b, t)
           n == InFront(IntWord(s), b \o t)
<1>1. /\ b \o t \in Seq(Word) /\ Len(b \o t) = Len(t) + BlockWords
      /\ First(b \o t, BlockWords) = b
  BY BlockInFront
<1>2. n \in Seq(Word) /\ Len(n) = Len(b \o t) + 1 /\ n[1] = IntWord(s)
  BY <1>1, NumberInFront
<1>3. \A i \in 1..Len(b \o t) : n[i + 1] = (b \o t)[i]
  <2>1. IntWord(s) \in Word
    BY IntWordType
  <2>2. QED
    BY <1>1, <2>1, InFrontAt
<1>4. q = InFront(CMD_WRITE, n)
  BY DEF WriteThen
<1>5. q \in Seq(Word) /\ Len(q) = Len(n) + 1 /\ q[1] = CMD_WRITE
        /\ \A i \in 1..Len(n) : q[i + 1] = n[i]
  <2>1. CMD_WRITE \in Word
    BY Commands
  <2> HIDE DEF q, n
  <2>2. q \in Seq(Word) /\ Len(q) = Len(n) + 1 /\ q[1] = CMD_WRITE
    BY <1>2, <1>4, <2>1, WordInFront
  <2>3. \A i \in 1..Len(n) : q[i + 1] = n[i]
    BY <1>2, <1>4, <2>1, InFrontAt
  <2>4. QED
    BY <2>2, <2>3
<1> HIDE DEF q, n
<1>6. Len(n) = Len(t) + BlockWords + 1 /\ Len(t) \in Nat
  BY <1>1, <1>2
<1>7. Len(q) >= BlockWords + 2 /\ q[2] = IntWord(s)
  <2>1. q[1 + 1] = n[1]
    BY <1>5, <1>6
  <2>2. QED
    BY <1>2, <1>5, <1>6, <2>1
<1>8. SubSeq(q, 3, BlockWords + 2) = b
  <2>1. /\ SubSeq(q, 3, BlockWords + 2) \in Seq(Word)
        /\ Len(SubSeq(q, 3, BlockWords + 2)) = BlockWords
    BY <1>5, <1>7
  <2>2. ASSUME NEW i \in 1..BlockWords
        PROVE  SubSeq(q, 3, BlockWords + 2)[i] = b[i]
    <3>1. SubSeq(q, 3, BlockWords + 2)[i] = q[(i + 1) + 1]
      BY <1>5, <1>7
    <3>2. q[(i + 1) + 1] = n[i + 1]
      BY <1>5, <1>6
    <3>3. n[i + 1] = (b \o t)[i]
      BY <1>1, <1>3
    <3>4. (b \o t)[i] = b[i]
      BY BlockIsSeq
    <3>5. QED
      BY <3>1, <3>2, <3>3, <3>4
  <2>3. QED
    BY <2>1, <2>2, BlockIsSeq, SeqEqual
<1>9. QED
  BY <1>5, <1>7, <1>8 DEF WriteIn, q

(* An incomplete or whole write request as a disk that has read some of it *)
(* has it.                                                                 *)
LEMMA WholeRequest ==
  ASSUME NEW d \in Disks, NEW s \in Stripes, NEW b \in Block, NEW t \in Seq(Word),
         \/ At(d, "cmd") /\ toDisk[d] = WriteThen(s, b, t)
         \/ At(d, "wnum") /\ toDisk[d] = InFront(IntWord(s), b \o t)
         \/ At(d, "wdata") /\ dnum[d] = IntWord(s) /\ toDisk[d] = b \o t
  PROVE  Request(d) = WriteThen(s, b, t)
<1>1. b \o t \in Seq(Word) /\ IntWord(s) \in Word /\ CMD_WRITE \in Word
  BY BlockInFront, IntWordType, Commands
<1>2. Two(CMD_WRITE, IntWord(s)) \o (b \o t) = WriteThen(s, b, t)
  BY <1>1, TwoInFront DEF WriteThen
<1>3. QED
  BY <1>2, RequestAt DEF WriteThen

LEMMA SplitBlock ==
  ASSUME NEW q \in Seq(Word), Len(q) >= BlockWords
  PROVE  /\ First(q, BlockWords) \in Block /\ Rest(q, BlockWords) \in Seq(Word)
         /\ First(q, BlockWords) \o Rest(q, BlockWords) = q
<1>1. First(q, BlockWords) \in Block /\ Rest(q, BlockWords) \in Seq(Word)
  BY FirstOfPipe, RestOfPipe
<1>2. SubSeq(q, 1, BlockWords) \o SubSeq(q, BlockWords + 1, Len(q)) = SubSeq(q, 1, Len(q))
  <2>1. /\ 1 \in 1..Len(q) + 1 /\ BlockWords \in (1 - 1)..Len(q)
        /\ Len(q) \in BlockWords..Len(q)
    OBVIOUS
  <2>2. QED
    BY <2>1, ConcatAdjacentSubSeq
<1>3. First(q, BlockWords) \o Rest(q, BlockWords) = q
  BY <1>2, SubSeqFull DEF First, Rest
<1>4. QED
  BY <1>1, <1>3

LEMMA ContentsType ==
  ASSUME DiskTypeOK, NEW d \in Disks
  PROVE  Contents(d) \in [Stripes -> Block]
<1>1. Request(d) \in Seq(Word) /\ blocks[d] \in [Stripes -> Block]
  BY RequestType DEF DiskTypeOK
<1>2. Len(Request(d)) >= BlockWords + 2 => SubSeq(Request(d), 3, BlockWords + 2) \in Block
  <2>1. ASSUME NEW q \in Seq(Word), Len(q) >= BlockWords + 2
        PROVE  SubSeq(q, 3, BlockWords + 2) \in Block
    <3>1. SubSeq(q, 3, BlockWords + 2) \in Seq(Word)
      BY <2>1
    <3>2. Len(SubSeq(q, 3, BlockWords + 2)) = BlockWords
      BY <2>1
    <3>3. QED
      BY <3>1, <3>2, SeqIsBlock
  <2>2. QED
    BY <1>1, <2>1
<1>3. QED
  BY <1>1, <1>2 DEF Contents

-----------------------------------------------------------------------------
(* A disk by itself does not change what it holds.                         *)

(* What is behind a write, or a read that is not answered, is no write. *)
AtEase(d) ==
  /\ At(d, "reply") => toDisk[d] = <<>>
  /\ At(d, "wdata") => NoWrite(Rest(toDisk[d], BlockWords))

LEMMA WholeAtEase ==
  ASSUME NEW d \in Disks, NEW t \in Seq(Word), Whole(d, t), NoWrite(t)
  PROVE  AtEase(d)
<1>1. ~At(d, "reply")
  BY DEF Whole, At
<1>2. ASSUME At(d, "wdata") PROVE NoWrite(Rest(toDisk[d], BlockWords))
  <2>1. PICK s \in Stripes, b \in Block : toDisk[d] = b \o t
    BY <1>2 DEF Whole, At
  <2>2. Rest(toDisk[d], BlockWords) = t
    BY <2>1, BlockInFront
  <2>3. QED
    BY <2>2
<1>3. QED
  BY <1>1, <1>2 DEF AtEase

LEMMA TalkingAtEase ==
  ASSUME NEW d \in Disks, NEW s \in Stripes, Talking(d, s)
  PROVE  AtEase(d)
<1>1. /\ <<>> \in Seq(Word) /\ NoWrite(<<>>)
      /\ One(CMD_READ) \in Seq(Word) /\ NoWrite(One(CMD_READ))
      /\ One(CMD_EXIT) \in Seq(Word) /\ NoWrite(One(CMD_EXIT))
      /\ Two(CMD_READ, IntWord(s)) \in Seq(Word) /\ NoWrite(Two(CMD_READ, IntWord(s)))
  <2>1. IntWord(s) \in Word
    BY IntWordType
  <2>2. QED
    BY <2>1, OneWord, TwoWords, Commands DEF NoWrite
<1>2. CASE Idle(d)
  BY <1>1, <1>2, WholeAtEase DEF Idle
<1>3. CASE Quiet(d)
  BY <1>3 DEF Quiet, At, AtEase
<1>4. CASE ReadBegun(d)
  <2>1. CASE Whole(d, One(CMD_READ))
    BY <1>1, <2>1, WholeAtEase
  <2>2. QED
    BY <1>4, <2>1 DEF ReadBegun, At, AtEase
<1>5. CASE ReadSent(d, s)
  <2>1. CASE Whole(d, Two(CMD_READ, IntWord(s)))
    BY <1>1, <2>1, WholeAtEase
  <2>2. QED
    BY <1>5, <2>1 DEF ReadSent, At, AtEase
<1>6. CASE WriteBegun(d)
  BY <1>6 DEF WriteBegun, At, AtEase
<1>7. CASE WriteNumbered(d, s)
  <2>1. Rest(<<>>, BlockWords) = <<>>
    BY SubSeqEmpty DEF Rest
  <2>2. QED
    BY <1>1, <1>7, <2>1 DEF WriteNumbered, At, AtEase
<1>8. CASE ExitSent(d)
  <2>1. CASE Whole(d, One(CMD_EXIT))
    BY <1>1, <2>1, WholeAtEase
  <2>2. QED
    BY <1>8, <2>1 DEF ExitSent, At, AtEase
<1>9. QED
  BY <1>2, <1>3, <1>4, <1>5, <1>6, <1>7, <1>8 DEF Talking

(* A read of a word only moves it from the pipe to the disk. *)
LEMMA ReadCmdContents ==
  ASSUME DiskTypeOK, NEW d \in Disks, ReadCmd(d), Follows(d)
  PROVE  Contents(d)' = Contents(d)
<1> DEFINE q == toDisk[d]
<1> USE DEF DiskTypeOK, Goto
<1>1. /\ At(d, "cmd") /\ q \in Seq(Word) /\ Len(q) >= 1
      /\ toDisk'[d] = Rest(q, 1) /\ blocks' = blocks /\ Request(d) = q
  BY RequestAt DEF ReadCmd
<1>2. CASE q[1] = CMD_WRITE
  <2>1. dpc'[d] = "wnum"
    BY <1>2, Commands DEF ReadCmd
  <2>2. Request(d)' = InFront(CMD_WRITE, toDisk'[d])
    BY <2>1 DEF Request, At, InFront
  <2>3. Request(d)' = Request(d)
    BY <1>1, <1>2, <2>2, PutBack
  <2>4. QED
    BY <1>1, <2>3, SameContents
<1>3. CASE q[1] # CMD_WRITE
  <2>1. Contents(d) = blocks[d]
    BY <1>1, <1>3, ContentsPlain DEF NoWrite
  <2>2. dpc'[d] \in {"rnum", "ckpt"}
    BY <1>1, <1>3 DEF ReadCmd, Follows
  <2>3. Request(d)' = <<>>
    BY <2>2 DEF Request, At
  <2>4. Contents(d)' = blocks'[d]
    BY <2>3 DEF Contents
  <2>5. QED
    BY <1>1, <2>1, <2>4
<1>4. QED
  BY <1>2, <1>3

LEMMA ReadNumContents ==
  ASSUME DiskTypeOK, NEW d \in Disks, ReadNum(d)
  PROVE  Contents(d)' = Contents(d)
<1> DEFINE q == toDisk[d]
<1> USE DEF DiskTypeOK, Goto
<1>1. /\ q \in Seq(Word) /\ Len(q) >= 1
      /\ toDisk'[d] = Rest(q, 1) /\ dnum'[d] = q[1] /\ blocks' = blocks
  BY DEF ReadNum
<1>2. CASE At(d, "rnum")
  <2>1. dpc[d] = "rnum" /\ dpc'[d] = "reply"
    BY <1>2 DEF ReadNum, At
  <2>2. Request(d) = <<>> /\ Request(d)' = <<>>
    BY <2>1 DEF Request, At
  <2>3. QED
    BY <1>1, <2>2, SameContents
<1>3. CASE At(d, "wnum")
  <2>1. dpc'[d] = "wdata"
    BY <1>3 DEF ReadNum, At
  <2>2. Request(d)' = Two(CMD_WRITE, q[1]) \o Rest(q, 1)
    BY <1>1, <2>1 DEF Request, At, Two
  <2>3. q[1] \in Word /\ Rest(q, 1) \in Seq(Word) /\ CMD_WRITE \in Word
    BY <1>1, RestOfPipe, Commands
  <2>4. Two(CMD_WRITE, q[1]) \o Rest(q, 1) = InFront(CMD_WRITE, InFront(q[1], Rest(q, 1)))
    BY <2>3, TwoInFront
  <2>5. InFront(q[1], Rest(q, 1)) = q
    BY <1>1, PutBack
  <2>6. Request(d)' = Request(d)
    BY <1>3, <2>2, <2>4, <2>5, RequestAt
  <2>7. QED
    BY <1>1, <2>6, SameContents
<1>4. QED
  BY <1>2, <1>3 DEF ReadNum

(* And a block that is stored is the one that was counted before. *)
LEMMA StoreBlockContents ==
  ASSUME DiskTypeOK, NEW d \in Disks, StoreBlock(d), Follows(d), AtEase(d)
  PROVE  Contents(d)' = Contents(d)
<1> DEFINE q == toDisk[d]
           b == First(q, BlockWords)
           t == Rest(q, BlockWords)
<1> USE DEF DiskTypeOK, Goto
<1>1. /\ At(d, "wdata") /\ q \in Seq(Word) /\ Len(q) >= BlockWords
      /\ toDisk'[d] = t /\ dpc'[d] = "cmd" /\ NoWrite(t)
  BY DEF StoreBlock, AtEase
<1>2. b \in Block /\ t \in Seq(Word) /\ q = b \o t
  BY <1>1, SplitBlock
<1>3. PICK s \in Stripes : dnum[d] = IntWord(s) /\ blocks' = [blocks EXCEPT ![d][s] = b]
  <2>1. ~OutOfArray(d)
    BY <1>1 DEF Follows, At
  <2>2. QED
    BY <2>1 DEF StoreBlock, InArray
<1>4. Request(d) = WriteThen(s, b, t)
  <2> HIDE DEF q, b, t
  <2>1. /\ At(d, "wdata") /\ dnum[d] = IntWord(s) /\ toDisk[d] = b \o t
        /\ b \in Block /\ t \in Seq(Word)
    BY <1>1, <1>2, <1>3 DEF q
  <2>2. QED
    BY <2>1, WholeRequest
<1>5. \A r \in Stripes : Contents(d)[r] = IF r = s THEN b ELSE blocks[d][r]
  <2> HIDE DEF q, b, t
  <2>1. WriteIn(Request(d), s, b)
    BY <1>2, <1>4, WriteThenIn
  <2>2. QED
    BY <2>1, ContentsWritten
<1>6. Contents(d)' = blocks'[d]
  <2>1. Request(d)' = t
    BY <1>1 DEF Request, At
  <2>2. ~(Len(t) >= BlockWords + 2 /\ t[1] = CMD_WRITE)
    BY <1>1, <1>2 DEF NoWrite
  <2> HIDE DEF q, b, t
  <2>3. QED
    BY <2>1, <2>2 DEF Contents
<1>7. blocks'[d] \in [Stripes -> Block]
         /\ \A r \in Stripes : blocks'[d][r] = IF r = s THEN b ELSE blocks[d][r]
  <2> HIDE DEF q, b, t
  <2>1. QED
    BY <1>2, <1>3
<1>8. Contents(d) \in [Stripes -> Block]
  BY ContentsType
<1>9. QED
  <2> HIDE DEF q, b, t
  <2>1. \A r \in Stripes : Contents(d)[r] = blocks'[d][r]
    BY <1>5, <1>7
  <2>2. Contents(d) = blocks'[d]
    BY <1>7, <1>8, <2>1
  <2>3. QED
    BY <1>6, <2>2

LEMMA DiskKeepsContents ==
  ASSUME DiskTypeOK, NEW d \in Disks, NEW s \in Stripes, Talking(d, s),
         DiskStep(d), Alive(d)'
  PROVE  Contents(d)' = Contents(d)
<1> USE DEF DiskTypeOK, Goto
<1>1. Follows(d) /\ AtEase(d)
  BY TalkingFollows, TalkingAtEase
<1>2. CASE ReadCmd(d)
  BY <1>1, <1>2, ReadCmdContents
<1>3. CASE ReadNum(d)
  BY <1>3, ReadNumContents
<1>4. CASE StoreBlock(d)
  BY <1>1, <1>4, StoreBlockContents
<1>5. CASE Reply(d)
  <2>1. /\ dpc[d] = "reply" /\ dpc'[d] = "cmd" /\ toDisk[d] = <<>>
        /\ toDisk' = toDisk /\ blocks' = blocks
    BY <1>1, <1>5 DEF Reply, AtEase, At
  <2>2. Request(d) = <<>> /\ Request(d)' = <<>>
    BY <2>1 DEF Request, At
  <2>3. QED
    BY <2>1, <2>2, SameContents
<1>6. CASE At(d, "ckpt") /\ OpenCheckpoint(d)
  <2>1. dpc[d] = "ckpt" /\ dpc'[d] = "save" /\ blocks' = blocks
    BY <1>6 DEF OpenCheckpoint, At
  <2>2. Request(d) = <<>> /\ Request(d)' = <<>>
    BY <2>1 DEF Request, At
  <2>3. QED
    BY <2>1, <2>2, SameContents
<1>7. QED
  BY <1>2, <1>3, <1>4, <1>5, <1>6, DiskGoesOn

-----------------------------------------------------------------------------
(* The controller changes what a disk holds only with the last part of a   *)
(* write.                                                                  *)

LEMMA SentRequest ==
  ASSUME DiskTypeOK, NEW d \in Disks, NEW u \in Seq(Word), Send(d, u)
  PROVE  /\ dpc[d] \in {"cmd", "wnum", "wdata"} => Request(d)' = Request(d) \o u
         /\ dpc[d] \notin {"cmd", "wnum", "wdata"} =>
              Request(d) = <<>> /\ Request(d)' = <<>>
         /\ blocks'[d] = blocks[d]
<1> DEFINE q == toDisk[d]
<1>1. /\ q \in Seq(Word) /\ toDisk'[d] = q \o u /\ dpc'[d] = dpc[d]
      /\ dnum'[d] = dnum[d] /\ blocks'[d] = blocks[d] /\ dnum[d] \in Word
  BY SendAppends DEF DiskTypeOK
<1>2. CMD_WRITE \in Word
  BY Commands
<1>3. CASE At(d, "cmd")
  BY <1>1, <1>3 DEF Request, At
<1>4. CASE At(d, "wnum")
  <2>1. Request(d) = InFront(CMD_WRITE, q) /\ Request(d)' = InFront(CMD_WRITE, q \o u)
    BY <1>1, <1>4 DEF Request, At, InFront
  <2>2. InFront(CMD_WRITE, q) \o u = InFront(CMD_WRITE, q \o u)
    BY <1>1, <1>2, BehindWord
  <2>3. QED
    BY <1>1, <1>4, <2>1, <2>2 DEF At
<1>5. CASE At(d, "wdata")
  <2> DEFINE h == Two(CMD_WRITE, dnum[d])
  <2>1. Request(d) = h \o q /\ Request(d)' = h \o (q \o u)
    BY <1>1, <1>5 DEF Request, At, Two
  <2>2. h \in Seq(Word)
    BY <1>1, <1>2, TwoWords
  <2> HIDE DEF h, q
  <2>3. (h \o q) \o u = h \o (q \o u)
    BY <1>1, <2>2, ConcatAssociative
  <2>4. QED
    BY <1>1, <1>5, <2>1, <2>3 DEF At
<1>6. CASE dpc[d] \notin {"cmd", "wnum", "wdata"}
  BY <1>1, <1>6 DEF Request, At
<1>7. QED
  BY <1>3, <1>4, <1>5, <1>6 DEF At

(* What goes behind a whole write does not show, nor does what completes   *)
(* none.                                                                   *)
LEMMA BehindWholeWrite ==
  ASSUME NEW q \in Seq(Word), NEW u \in Seq(Word), Len(q) >= BlockWords + 2
  PROVE  /\ Len(q \o u) >= BlockWords + 2
         /\ (q \o u)[1] = q[1] /\ (q \o u)[2] = q[2]
         /\ SubSeq(q \o u, 3, BlockWords + 2) = SubSeq(q, 3, BlockWords + 2)
<1>1. 3 \in 1..Len(q) /\ BlockWords + 2 \in 1..Len(q)
  OBVIOUS
<1>2. SubSeq(q \o u, 3, BlockWords + 2) = SubSeq(q, 3, BlockWords + 2)
  BY <1>1, SubSeqOfConcat1
<1>3. Len(q \o u) = Len(q) + Len(u) /\ (q \o u)[1] = q[1] /\ (q \o u)[2] = q[2]
  BY <1>1
<1>4. QED
  BY <1>2, <1>3

LEMMA SendKeepsContents ==
  ASSUME DiskTypeOK, NEW d \in Disks, NEW u \in Seq(Word), Send(d, u),
         \/ Len(Request(d)) >= BlockWords + 2
         \/ dpc[d] \notin {"cmd", "wnum", "wdata"}
         \/ NoWrite(Request(d)) /\ NoWrite(Request(d) \o u)
         \/ Len(Request(d)) + Len(u) < BlockWords + 2
  PROVE  Contents(d)' = Contents(d)
<1> DEFINE q == Request(d)
<1>1. q \in Seq(Word) /\ blocks'[d] = blocks[d]
  BY RequestType, SentRequest
<1>2. CASE dpc[d] \notin {"cmd", "wnum", "wdata"}
  BY <1>2, SentRequest, SameContents
<1>3. ASSUME Request(d)' = q \o u, Len(q) >= BlockWords + 2
      PROVE  Contents(d)' = Contents(d)
  <2> HIDE DEF q
  <2>1. /\ Len(q \o u) >= BlockWords + 2
        /\ (q \o u)[1] = q[1] /\ (q \o u)[2] = q[2]
        /\ SubSeq(q \o u, 3, BlockWords + 2) = SubSeq(q, 3, BlockWords + 2)
    BY <1>1, <1>3, BehindWholeWrite
  <2>2. QED
    BY <1>1, <1>3, <2>1 DEF Contents, q
<1>4. ASSUME Request(d)' = q \o u,
             \/ NoWrite(q) /\ NoWrite(q \o u)
             \/ Len(q) + Len(u) < BlockWords + 2
      PROVE  Contents(d)' = Contents(d)
  <2> HIDE DEF q
  <2>1. q \o u \in Seq(Word) /\ Len(q \o u) = Len(q) + Len(u) /\ Len(u) \in Nat
    BY <1>1
  <2>2. /\ ~(Len(q) >= BlockWords + 2 /\ q[1] = CMD_WRITE)
        /\ ~(Len(q \o u) >= BlockWords + 2 /\ (q \o u)[1] = CMD_WRITE)
    BY <1>1, <1>4, <2>1 DEF NoWrite
  <2>3. QED
    BY <1>1, <1>4, <2>2 DEF Contents, q
<1>5. QED
  BY <1>2, <1>3, <1>4, SentRequest

LEMMA WholeRequests ==
  ASSUME DiskTypeOK, NEW d \in Disks, NEW t \in Seq(Word), Whole(d, t)
  PROVE  Request(d) = t \/ Len(Request(d)) >= BlockWords + 2
<1>1. ASSUME NEW s \in Stripes, NEW b \in Block,
             \/ At(d, "cmd") /\ toDisk[d] = WriteThen(s, b, t)
             \/ At(d, "wnum") /\ toDisk[d] = InFront(IntWord(s), b \o t)
             \/ At(d, "wdata") /\ dnum[d] = IntWord(s) /\ toDisk[d] = b \o t
      PROVE  Len(Request(d)) >= BlockWords + 2
  <2>1. Request(d) = WriteThen(s, b, t)
    BY <1>1, WholeRequest
  <2>2. Len(WriteThen(s, b, t)) >= BlockWords + 2
    BY WriteThenIn DEF WriteIn
  <2>3. QED
    BY <2>1, <2>2
<1>2. At(d, "cmd") /\ toDisk[d] = t => Request(d) = t
  BY RequestAt
<1>3. QED
  BY <1>1, <1>2 DEF Whole

(* A command to an idle disk. *)
LEMMA CommandKeepsContents ==
  ASSUME DiskTypeOK, NEW d \in Disks,
         \/ Idle(d) /\ (Send(d, One(CMD_READ)) \/ Send(d, One(CMD_EXIT)))
         \/ Quiet(d) /\ Send(d, One(CMD_WRITE))
  PROVE  Contents(d)' = Contents(d)
<1>1. /\ One(CMD_READ) \in Seq(Word) /\ NoWrite(One(CMD_READ))
      /\ One(CMD_EXIT) \in Seq(Word) /\ NoWrite(One(CMD_EXIT))
      /\ One(CMD_WRITE) \in Seq(Word) /\ Len(One(CMD_WRITE)) = 1
  BY OneWord, Commands DEF NoWrite
<1>2. <<>> \in Seq(Word) /\ NoWrite(<<>>) /\ Len(<<>>) = 0
        /\ \A u \in Seq(Word) : <<>> \o u = u
  BY BehindNothing DEF NoWrite
<1>3. ASSUME NEW u \in Seq(Word), Idle(d), Send(d, u), NoWrite(u)
      PROVE  Contents(d)' = Contents(d)
  <2>1. Request(d) = <<>> \/ Len(Request(d)) >= BlockWords + 2
    BY <1>2, <1>3, WholeRequests DEF Idle
  <2>2. Request(d) = <<>> => NoWrite(Request(d)) /\ NoWrite(Request(d) \o u)
    BY <1>2, <1>3
  <2>3. QED
    BY <1>3, <2>1, <2>2, SendKeepsContents
<1>4. ASSUME Quiet(d), Send(d, One(CMD_WRITE))
      PROVE  Contents(d)' = Contents(d)
  <2>1. Request(d) = <<>>
    BY <1>4, RequestAt DEF Quiet
  <2>2. Len(Request(d)) + Len(One(CMD_WRITE)) < BlockWords + 2
    BY <1>1, <1>2, <2>1
  <2>3. QED
    BY <1>1, <1>4, <2>2, SendKeepsContents
<1>5. QED
  BY <1>1, <1>3, <1>4

(* And the number behind it. *)
LEMMA NumberKeepsContents ==
  ASSUME DiskTypeOK, NEW d \in Disks, NEW s \in Stripes,
         ReadBegun(d) \/ WriteBegun(d), Send(d, One(IntWord(s)))
  PROVE  Contents(d)' = Contents(d)
<1> DEFINE u == One(IntWord(s))
<1>1. /\ u \in Seq(Word) /\ Len(u) = 1 /\ IntWord(s) \in Word
      /\ CMD_READ \in Word /\ CMD_WRITE \in Word /\ CMD_READ # CMD_WRITE
  BY OneWord, IntWordType, Commands
<1>2. /\ One(CMD_READ) \in Seq(Word) /\ NoWrite(One(CMD_READ))
      /\ NoWrite(One(CMD_READ) \o u)
  <2>1. One(CMD_READ) \o u = Two(CMD_READ, IntWord(s))
    BY <1>1, TwoWords
  <2>2. QED
    BY <1>1, <2>1, OneWord, TwoWords DEF NoWrite
<1> HIDE DEF u
<1>3. CASE Whole(d, One(CMD_READ))
  BY <1>1, <1>2, <1>3, WholeRequests, SendKeepsContents DEF u
<1>4. CASE At(d, "rnum")
  BY <1>1, <1>4, SendKeepsContents DEF u, At
<1>5. CASE WriteBegun(d)
  <2>1. Len(Request(d)) = 1
    <3>1. InFront(CMD_WRITE, <<>>) = One(CMD_WRITE) /\ Len(One(CMD_WRITE)) = 1
      BY DEF InFront, One
    <3>2. QED
      BY <1>5, <3>1, RequestAt DEF WriteBegun
  <2>2. Len(Request(d)) + Len(u) < BlockWords + 2
    BY <1>1, <2>1
  <2>3. u \in Seq(Word) /\ Send(d, u)
    BY <1>1 DEF u
  <2>4. QED
    BY <2>2, <2>3, SendKeepsContents
<1>6. QED
  BY <1>3, <1>4, <1>5 DEF ReadBegun

(* A block sent behind the two is from then on what the disk holds. *)
LEMMA BlockChangesContents ==
  ASSUME DiskTypeOK, NEW d \in Disks, NEW s \in Stripes, NEW b \in Block,
         WriteNumbered(d, s), Send(d, b)
  PROVE  /\ Contents(d) = blocks[d]
         /\ \A r \in Stripes : Contents(d)'[r] = IF r = s THEN b ELSE Contents(d)[r]
<1> DEFINE w == IntWord(s)
<1>1. /\ b \in Seq(Word) /\ b \o <<>> = b /\ w \in Word /\ CMD_WRITE \in Word
      /\ Two(CMD_WRITE, w) \in Seq(Word) /\ Len(Two(CMD_WRITE, w)) = 2
  BY BlockIsSeq, BehindNothing, IntWordType, Commands, TwoWords
<1>2. Request(d) = Two(CMD_WRITE, w)
  <2>1. InFront(CMD_WRITE, One(w)) = Two(CMD_WRITE, w)
    BY <1>1, TwoWords DEF InFront, One
  <2>2. Two(CMD_WRITE, w) \o <<>> = Two(CMD_WRITE, w)
    BY <1>1, BehindNothing
  <2>3. QED
    BY <2>1, <2>2, RequestAt DEF WriteNumbered
<1>3. dpc[d] \in {"cmd", "wnum", "wdata"}
  BY DEF WriteNumbered, At
<1>4. Request(d)' = WriteThen(s, b, <<>>) /\ blocks'[d] = blocks[d]
  <2>1. Request(d)' = Two(CMD_WRITE, w) \o b /\ blocks'[d] = blocks[d]
    BY <1>1, <1>2, <1>3, SentRequest
  <2>2. Two(CMD_WRITE, w) \o b = InFront(CMD_WRITE, InFront(w, b))
    BY <1>1, TwoInFront
  <2>3. QED
    BY <1>1, <2>1, <2>2 DEF WriteThen
<1>5. Contents(d) = blocks[d]
  <2>1. Request(d) \in Seq(Word) /\ Len(Request(d)) = 2
    BY <1>1, <1>2, Zenon
  <2>2. 2 < BlockWords + 2
    OBVIOUS
  <2>3. QED
    BY <2>1, <2>2, ContentsPlain
<1>6. WriteIn(Request(d)', s, b)
  <2>1. <<>> \in Seq(Word)
    OBVIOUS
  <2>2. WriteIn(WriteThen(s, b, <<>>), s, b)
    BY <2>1, WriteThenIn
  <2>3. QED
    BY <1>4, <2>2, Zenon
<1>7. \A r \in Stripes : Contents(d)'[r] = IF r = s THEN b ELSE blocks'[d][r]
  BY <1>6, Numbers DEF Contents, WriteIn
<1>8. QED
  BY <1>4, <1>5, <1>7

-----------------------------------------------------------------------------
(* Checkpoint files.                                                       *)

(* A disk that was never restarted saves itself only at the end, saves     *)
(* what it holds, and is gone then.                                        *)
SavedOK ==
  \A d \in Disks : gen[d] = 0 /\ fileState[d] = "saved" =>
    /\ At(d, "dead") /\ image[d] = blocks[d]
    /\ pc \in {"exit", "wait", "gone"}

(* Disk d was never restarted, and has not failed yet: it may have been    *)
(* told to.                                                                *)
Fresh(d) == gen[d] = 0 /\ (Alive(d) \/ fileState[d] = "saved")

(* No file is written by the controller, which at the end only sends       *)
(* CMD_EXIT and waits.                                                     *)
LEMMA ControllerKeepsFiles ==
  ASSUME ControllerStep \/ Command \/ Exit
  PROVE  UNCHANGED <<fileState, image>>
<1>1. CASE Command \/ Exit
  BY <1>1 DEF Command, Exit, ReadBlock, WriteBlock, SimulateFailure,
     CheckpointAndWait, diskVars, fileVars
<1>2. CASE InitDisk \/ InitFails \/ RestartDisk \/ RestartFails
  BY <1>2 DEF InitDisk, InitFails, RestartDisk, RestartFails, NewIncarnation, Spawn,
     fileVars
<1>3. CASE \/ SendCmd \/ SendNum \/ SendParity \/ SendData \/ SendRebuilt \/ SendExit
  BY <1>3 DEF SendCmd, SendNum, SendParity, SendData, SendRebuilt, SendExit, Send,
     diskVars, fileVars
<1>4. CASE FindDead \/ SendFails \/ RecvFails \/ Wait
  BY <1>4 DEF FindDead, SendFails, RecvFails, Wait, diskVars, fileVars
<1>5. CASE \/ RecvRead \/ RecvOldData \/ ParityAllocFails \/ RecvOldParity
           \/ RecvSource
  BY <1>5 DEF RecvRead, RecvOldData, ParityAllocFails, RecvOldParity, RecvSource,
     TakeBlock, fileVars
<1>6. QED
  BY <1>1, <1>2, <1>3, <1>4, <1>5 DEF ControllerStep

LEMMA AtTheEnd ==
  ASSUME ControllerStep \/ Command \/ Exit, pc \in {"exit", "wait", "gone"}
  PROVE  SendExit \/ Wait
<1>1. ~Command /\ ~Exit
  BY DEF Command, Exit, ReadBlock, WriteBlock, SimulateFailure, CheckpointAndWait
<1>2. ~InitDisk /\ ~InitFails /\ ~RestartDisk /\ ~RestartFails
  BY DEF InitDisk, InitFails, RestartDisk, RestartFails
<1>3. ~SendCmd /\ ~SendNum /\ ~SendParity /\ ~SendData /\ ~SendRebuilt
        /\ ~FindDead /\ ~SendFails
  BY DEF SendCmd, SendNum, SendParity, SendData, SendRebuilt, FindDead, SendFails
<1>4. ~RecvFails /\ ~RecvRead /\ ~RecvOldData /\ ~ParityAllocFails
        /\ ~RecvOldParity /\ ~RecvSource
  BY DEF RecvFails, RecvRead, RecvOldData, ParityAllocFails, RecvOldParity,
     RecvSource, TakeBlock
<1>5. QED
  BY <1>1, <1>2, <1>3, <1>4 DEF ControllerStep

(* A restart only counts up. *)
LEMMA GenerationStep ==
  ASSUME Typed, [Next]_vars, NEW d \in Disks
  PROVE  gen'[d] = gen[d] \/ gen'[d] # 0
<1>0. gen \in [Disks -> Nat]
  BY DEF Typed, TypeOK, ControllerTypeOK
<1>1. CASE Command \/ Exit
  BY <1>1 DEF Command, Exit, ReadBlock, WriteBlock, SimulateFailure,
     CheckpointAndWait, restoreVars
<1>2. CASE RestartDisk \/ RestartFails
  BY <1>0, <1>2 DEF RestartDisk, RestartFails, NewIncarnation
<1>3. CASE InitDisk \/ InitFails
  BY <1>3 DEF InitDisk, InitFails, restoreVars
<1>4. CASE \/ SendCmd \/ SendNum \/ SendParity \/ SendData \/ SendRebuilt \/ SendExit
  BY <1>4 DEF SendCmd, SendNum, SendParity, SendData, SendRebuilt, SendExit, Return,
     restoreVars
<1>5. CASE FindDead \/ SendFails \/ RecvFails \/ Wait
  BY <1>5 DEF FindDead, SendFails, RecvFails, Wait, GiveUp, Return, restoreVars
<1>6. CASE \/ RecvRead \/ RecvOldData \/ ParityAllocFails \/ RecvOldParity
           \/ RecvSource
  BY <1>6 DEF RecvRead, RecvOldData, ParityAllocFails, RecvOldParity, RecvSource,
     Return, restoreVars
<1>7. CASE (\E e \in Disks : Disk(e)) \/ UNCHANGED vars
  BY <1>7 DEF Disk, vars, ctlVars, restoreVars
<1>8. QED
  BY <1>1, <1>2, <1>3, <1>4, <1>5, <1>6, <1>7
     DEF Next, Controlled, ControllerStep, Terminated

(* What the step of another disk leaves alone. *)
LEMMA OtherDisk ==
  ASSUME DiskTypeOK, NEW d \in Disks, NEW e \in Disks, DiskStep(e), e # d
  PROVE  /\ Untouched(d)
         /\ fileState'[d] = fileState[d] /\ image'[d] = image[d]
BY DEF Untouched, DiskTypeOK, DiskStep, ReadCmd, ReadNum, Reply, StoreBlock,
   OpenCheckpoint, Segfault, FailDisk, SaveCheckpoint, FailCheckpoint, Killed,
   Terminate, Goto, pipeVars, fileVars

LEMMA DiskStepAlive ==
  ASSUME NEW d \in Disks, DiskStep(d)
  PROVE  Alive(d)
BY DEF DiskStep, ReadCmd, ReadNum, Reply, StoreBlock, OpenCheckpoint, Segfault,
   FailDisk, SaveCheckpoint, FailCheckpoint, Killed, At, Alive

(* Saving is the only way to a saved file. *)
LEMMA OnlySaveSaves ==
  ASSUME DiskTypeOK, NEW d \in Disks, DiskStep(d),
         fileState[d] # "saved", fileState'[d] = "saved"
  PROVE  SaveCheckpoint(d)
BY DEF DiskTypeOK, DiskStep, ReadCmd, ReadNum, Reply, StoreBlock, OpenCheckpoint,
   Segfault, FailDisk, FailCheckpoint, Killed, fileVars

LEMMA SavingStage ==
  ASSUME Typed, FramingInv, NEW d \in Disks, gen[d] = 0, At(d, "save")
  PROVE  pc \in {"exit", "wait", "gone"}
<1>1. Framed(d)
  BY DEF FramingInv, Original, Alive, At
<1>2. /\ ~Idle(d) /\ ~Quiet(d) /\ ~ReadBegun(d) /\ ~WriteBegun(d)
      /\ \A s \in Stripes : ~ReadSent(d, s) /\ ~WriteNumbered(d, s)
  BY DEF Idle, Quiet, ReadBegun, WriteBegun, ReadSent, WriteNumbered, Whole, At
<1>3. pc \in PC /\ Stripe \in Stripes
  BY StripeType DEF Typed, TypeOK, ControllerTypeOK
<1>4. QED
  BY <1>1, <1>2, <1>3 DEF Framed, Waiting, PC

LEMMA SavedStep ==
  ASSUME Typed, FramingInv, SavedOK, [Next]_vars
  PROVE  SavedOK'
<1> SUFFICES ASSUME NEW d \in Disks, gen'[d] = 0, fileState'[d] = "saved"
             PROVE  /\ At(d, "dead")' /\ image'[d] = blocks'[d]
                    /\ pc' \in {"exit", "wait", "gone"}
  BY DEF SavedOK
<1>1. gen[d] = 0 /\ DiskTypeOK
  BY GenerationStep DEF Typed, TypeOK
<1>2. CASE Command \/ Exit \/ Controlled
  <2>1. ControllerStep \/ Command \/ Exit
    BY <1>2 DEF Controlled
  <2>2. fileState[d] = "saved" /\ image'[d] = image[d]
    BY <2>1, ControllerKeepsFiles
  <2>3. /\ At(d, "dead") /\ image[d] = blocks[d]
        /\ pc \in {"exit", "wait", "gone"}
    BY <1>1, <2>2 DEF SavedOK
  <2>4. SendExit \/ Wait
    BY <2>1, <2>3, AtTheEnd
  <2>5. dpc' = dpc /\ blocks' = blocks /\ pc' \in {"exit", "wait", "gone"}
    BY <2>4 DEF SendExit, Wait, Send, ParentExits, diskVars
  <2>6. QED
    BY <2>2, <2>3, <2>5 DEF At
<1>3. ASSUME NEW e \in Disks, Disk(e)
      PROVE  /\ At(d, "dead")' /\ image'[d] = blocks'[d]
             /\ pc' \in {"exit", "wait", "gone"}
  <2>1. DiskStep(e) /\ pc' = pc
    BY <1>3 DEF Disk, ctlVars
  <2>2. CASE e # d
    BY <1>1, <2>1, <2>2, OtherDisk DEF SavedOK, Untouched, At
  <2>3. CASE e = d
    <3>1. fileState[d] # "saved"
      BY <1>1, <2>1, <2>3, DiskStepAlive DEF SavedOK, At, Alive
    <3>2. SaveCheckpoint(d)
      BY <1>1, <2>1, <2>3, <3>1, OnlySaveSaves
    <3>3. pc \in {"exit", "wait", "gone"}
      BY <1>1, <3>2, SavingStage DEF SaveCheckpoint
    <3>4. QED
      BY <1>1, <2>1, <3>2, <3>3 DEF SaveCheckpoint, Terminate, Goto, DiskTypeOK, At
  <2>4. QED
    BY <2>2, <2>3
<1>4. CASE UNCHANGED vars
  BY <1>1, <1>4 DEF vars, diskVars, ctlVars, SavedOK, At
<1>5. QED
  BY <1>2, <1>3, <1>4 DEF Next, Terminated

-----------------------------------------------------------------------------
(* What a step does to what a disk holds.                                  *)

(* A step in which disk d neither does nor gets anything. *)
Alone(d) ==
  /\ dpc'[d] = dpc[d] /\ dnum'[d] = dnum[d]
  /\ toDisk'[d] = toDisk[d] /\ blocks'[d] = blocks[d]
  /\ gen'[d] = gen[d] /\ fileState'[d] = fileState[d]

LEMMA AloneKeeps ==
  ASSUME NEW d \in Disks, Alone(d)
  PROVE  Contents(d)' = Contents(d) /\ (Fresh(d)' <=> Fresh(d))
BY UntouchedContents DEF Alone, Fresh, Alive

(* The disk now holds block b in the stripe of the request. *)
Updated(d, b) ==
  \A s \in Stripes : Contents(d)'[s] = IF s = Stripe THEN b ELSE Contents(d)[s]

ContentsChange(d) ==
  \/ Contents(d)' = Contents(d)
  \/ SendParity /\ d = Target /\ Updated(d, pblock)
  \/ SendData /\ d = Target /\ Updated(d, data)

(* Where the controller stands with the target it writes to. *)
LEMMA TargetOfSend ==
  ASSUME Typed, FramingInv, NEW d \in Disks, d = Target, Original(d)
  PROVE  /\ pc = "cmd" => IF phase \in ReadPhases THEN Idle(d) ELSE Quiet(d)
         /\ pc = "num" => ReadBegun(d) \/ WriteBegun(d)
         /\ pc = "data" => WriteNumbered(d, Stripe) /\ phase # "RW"
         /\ pc = "recv" => ReadSent(d, Stripe)
<1>1. PhaseOK /\ Framed(d)
  BY DEF FramingInv
<1>2. phase \notin ReadPhases => phase # "RW"
  BY <1>1, RestoredIsNotOriginal
<1>3. phase \notin ReadPhases => ToBeWritten(d)
  <2>1. phase \notin ReadPhases => phase \in {"W1", "W2"}
    BY <1>2 DEF Typed, TypeOK, ControllerTypeOK, CommandPhases, RestorePhases,
       ReadPhases
  <2>2. QED
    BY <2>1 DEF ToBeWritten, CommandPhase, Target, Home, RestorePhases
<1>4. pc = "cmd" => Idle(d) /\ (phase \notin ReadPhases => Quiet(d))
  BY <1>1, <1>3, WaitingIsIdle DEF Framed, Waiting
<1>5. pc = "data" => phase # "RW"
  BY <1>1, <1>2 DEF PhaseOK
<1>6. QED
  BY <1>1, <1>4, <1>5 DEF Framed

(* A send to a disk whose contents it keeps. *)
LEMMA SendAlone ==
  ASSUME DiskTypeOK, NEW e \in Disks, NEW words \in Seq(Word), Send(e, words),
         gen' = gen, NEW d \in Disks
  PROVE  /\ d # e => Alone(d)
         /\ d = e /\ gen[d] = 0 => Original(d)
         /\ Fresh(d)' <=> Fresh(d)
<1>1. /\ \A c \in Disks : c # e => toDisk'[c] = toDisk[c]
      /\ UNCHANGED <<dpc, dnum, blocks, fileState>>
  BY SendAppends
<1>2. Alive(e)
  BY DEF Send
<1>3. QED
  BY <1>1, <1>2 DEF Alone, Original, Fresh, Alive

LEMMA BlockContents ==
  ASSUME Typed, FramingInv, NEW d \in Disks, gen[d] = 0,
         NEW b \in Block, pc = "data", Send(Target, b), gen' = gen
  PROVE  /\ d # Target => Contents(d)' = Contents(d)
         /\ d = Target => Updated(d, b) /\ phase # "RW"
         /\ Fresh(d)' <=> Fresh(d)
<1>0. DiskTypeOK /\ Target \in Disks /\ Stripe \in Stripes
  BY TargetType, StripeType DEF Typed, TypeOK
<1>1. b \in Seq(Word)
  BY BlockIsSeq
<1>2. CASE d # Target
  BY <1>0, <1>1, <1>2, SendAlone, AloneKeeps
<1>3. CASE d = Target
  <2>1. Original(d) /\ (Fresh(d)' <=> Fresh(d))
    BY <1>0, <1>1, <1>3, SendAlone
  <2>2. WriteNumbered(d, Stripe) /\ phase # "RW"
    BY <1>3, <2>1, TargetOfSend
  <2>3. PICK s \in Stripes : s = Stripe
    BY <1>0
  <2>4. WriteNumbered(d, s) /\ Send(d, b)
    BY <1>3, <2>2, <2>3
  <2>5. \A r \in Stripes : Contents(d)'[r] = IF r = s THEN b ELSE Contents(d)[r]
    BY <1>0, <2>4, BlockChangesContents
  <2>6. Updated(d, b)
    BY <2>3, <2>5 DEF Updated
  <2>7. QED
    BY <1>3, <2>1, <2>2, <2>6
<1>4. QED
  BY <1>2, <1>3

LEMMA SendContents ==
  ASSUME Typed, FramingInv, NEW d \in Disks, gen[d] = 0,
         \/ SendCmd \/ SendNum \/ SendParity \/ SendData \/ SendRebuilt
  PROVE  ContentsChange(d) /\ (Fresh(d)' <=> Fresh(d))
<1>0. DiskTypeOK /\ Target \in Disks /\ Stripe \in Stripes
  BY TargetType, StripeType DEF Typed, TypeOK
<1>1. CASE SendCmd
  <2> DEFINE word == IF phase \in ReadPhases THEN CMD_READ ELSE CMD_WRITE
  <2>1. /\ Send(Target, One(word)) /\ One(word) \in Seq(Word) /\ gen' = gen
        /\ pc = "cmd"
    BY <1>1, OneWord, Commands DEF SendCmd, One, restoreVars
  <2>2. CASE d # Target
    BY <1>0, <2>1, <2>2, SendAlone, AloneKeeps DEF ContentsChange
  <2>3. CASE d = Target
    <3>1. Original(d) /\ (Fresh(d)' <=> Fresh(d))
      BY <1>0, <2>1, <2>3, SendAlone
    <3>2. IF phase \in ReadPhases THEN Idle(d) ELSE Quiet(d)
      BY <2>1, <2>3, <3>1, TargetOfSend
    <3>3. Contents(d)' = Contents(d)
      BY <1>0, <2>1, <2>3, <3>2, CommandKeepsContents
    <3>4. QED
      BY <3>1, <3>3 DEF ContentsChange
  <2>4. QED
    BY <2>2, <2>3
<1>2. CASE SendNum
  <2>1. /\ Send(Target, One(IntWord(Stripe))) /\ One(IntWord(Stripe)) \in Seq(Word)
        /\ gen' = gen /\ pc = "num"
    BY <1>2, OneWord, IntWordType DEF SendNum, One, restoreVars
  <2>2. CASE d # Target
    BY <1>0, <2>1, <2>2, SendAlone, AloneKeeps DEF ContentsChange
  <2>3. CASE d = Target
    <3>1. Original(d) /\ (Fresh(d)' <=> Fresh(d))
      BY <1>0, <2>1, <2>3, SendAlone
    <3>2. ReadBegun(d) \/ WriteBegun(d)
      BY <2>1, <2>3, <3>1, TargetOfSend
    <3>3. Contents(d)' = Contents(d)
      BY <1>0, <2>1, <2>3, <3>2, NumberKeepsContents
    <3>4. QED
      BY <3>1, <3>3 DEF ContentsChange
  <2>4. QED
    BY <2>2, <2>3
<1>3. CASE SendParity
  <2>1. pblock \in Block /\ pc = "data" /\ Send(Target, pblock) /\ gen' = gen
    BY <1>3 DEF SendParity, Typed, TypeOK, ControllerTypeOK, restoreVars
  <2>2. QED
    BY <1>3, <2>1, BlockContents DEF ContentsChange
<1>4. CASE SendData
  <2>1. data \in Block /\ pc = "data" /\ Send(Target, data) /\ gen' = gen
    BY <1>4 DEF SendData, Return, Typed, TypeOK, ControllerTypeOK, restoreVars
  <2>2. QED
    BY <1>4, <2>1, BlockContents DEF ContentsChange
<1>5. CASE SendRebuilt
  <2>1. /\ rebuilt[idx] \in Block /\ pc = "data" /\ phase = "RW" /\ gen' = gen
        /\ Send(Target, rebuilt[idx])
    BY <1>5 DEF SendRebuilt, Typed, TypeOK, ControllerTypeOK, LoopOK, Target,
       RestorePhases
  <2>2. QED
    BY <2>1, BlockContents DEF ContentsChange
<1>6. QED
  BY <1>1, <1>2, <1>3, <1>4, <1>5

LEMMA ControllerContents ==
  ASSUME Typed, FramingInv, ControllerStep, NEW d \in Disks,
         gen[d] = 0, gen'[d] = 0, pc # "init"
  PROVE  ContentsChange(d) /\ (Fresh(d)' <=> Fresh(d))
<1>0. DiskTypeOK /\ gen \in [Disks -> Nat] /\ rdisk \in Disks
  BY DEF Typed, TypeOK, ControllerTypeOK
<1>1. CASE \/ SendCmd \/ SendNum \/ SendParity \/ SendData \/ SendRebuilt
  BY <1>1, SendContents
<1>2. ASSUME Alone(d)
      PROVE  ContentsChange(d) /\ (Fresh(d)' <=> Fresh(d))
  BY <1>2, AloneKeeps DEF ContentsChange
<1>3. ASSUME NewIncarnation, UNCHANGED <<parentUp>> \/ ParentExits
      PROVE  Alone(d)
  <2>1. d # rdisk
    BY <1>0, <1>3 DEF NewIncarnation
  <2>2. QED
    BY <1>0, <1>3, <2>1 DEF NewIncarnation, Spawn, DiskTypeOK, Alone, fileVars
<1>4. CASE RestartDisk
  BY <1>2, <1>3, <1>4 DEF RestartDisk
<1>5. CASE RestartFails
  BY <1>2, <1>3, <1>5 DEF RestartFails, Alone, pipeVars, fileVars
<1>6. CASE FindDead \/ SendFails \/ RecvFails \/ Wait
  BY <1>2, <1>6 DEF FindDead, SendFails, RecvFails, Wait, GiveUp, Return,
     ParentExits, diskVars, pipeVars, fileVars, restoreVars, Alone
<1>7. CASE \/ RecvRead \/ RecvOldData \/ ParityAllocFails \/ RecvOldParity
           \/ RecvSource
  BY <1>2, <1>7 DEF RecvRead, RecvOldData, ParityAllocFails, RecvOldParity,
     RecvSource, TakeBlock, Return, fileVars, restoreVars, Alone
<1>8. CASE SendExit
  <2>1. CASE UNCHANGED diskVars
    BY <1>2, <1>8, <2>1 DEF SendExit, diskVars, restoreVars, Alone
  <2>2. CASE Send(idx, One(CMD_EXIT))
    <3>1. One(CMD_EXIT) \in Seq(Word) /\ gen' = gen /\ idx \in Disks /\ pc = "exit"
      BY <1>8, OneWord, Commands DEF SendExit, Typed, LoopOK, restoreVars
    <3>2. (d # idx => Alone(d)) /\ (d = idx => Original(d)) /\ (Fresh(d)' <=> Fresh(d))
      BY <1>0, <2>2, <3>1, SendAlone
    <3>3. d = idx => Idle(d)
      BY <3>1, <3>2 DEF FramingInv, Framed, Disks
    <3>4. d = idx => Contents(d)' = Contents(d)
      BY <1>0, <2>2, <3>3, CommandKeepsContents
    <3>5. QED
      BY <1>2, <3>2, <3>4 DEF ContentsChange
  <2>3. QED
    BY <1>8, <2>1, <2>2 DEF SendExit, One
<1>9. CASE InitDisk \/ InitFails
  BY <1>9 DEF InitDisk, InitFails
<1>10. QED
  BY <1>1, <1>4, <1>5, <1>6, <1>7, <1>8, <1>9 DEF ControllerStep

(* Whoever takes the step: what a disk that has not failed holds changes   *)
(* only by the last part of a write.                                       *)
LEMMA ContentsStep ==
  ASSUME Typed, FramingInv, SavedOK, [Next]_vars, pc # "init",
         NEW d \in Disks, Fresh(d)'
  PROVE  ContentsChange(d) /\ Fresh(d)
<1>1. gen'[d] = 0 /\ gen[d] = 0 /\ DiskTypeOK
  BY GenerationStep DEF Fresh, Typed, TypeOK
<1>2. CASE Controlled
  BY <1>1, <1>2, ControllerContents DEF Controlled
<1>3. CASE Command \/ Exit \/ UNCHANGED vars
  <2>1. Alone(d)
    BY <1>3 DEF Command, Exit, ReadBlock, WriteBlock, SimulateFailure,
       CheckpointAndWait, diskVars, pipeVars, fileVars, restoreVars, vars, ctlVars,
       Alone
  <2>2. QED
    BY <2>1, AloneKeeps DEF ContentsChange
<1>4. ASSUME NEW e \in Disks, Disk(e)
      PROVE  ContentsChange(d) /\ Fresh(d)
  <2>1. DiskStep(e) /\ gen' = gen
    BY <1>4 DEF Disk, ctlVars, restoreVars
  <2>2. CASE e # d
    <3>1. Alone(d)
      BY <1>1, <2>1, <2>2, OtherDisk DEF Untouched, Alone
    <3>2. QED
      BY <3>1, AloneKeeps DEF ContentsChange
  <2>3. CASE e = d
    <3>1. Alive(d) /\ Fresh(d)
      BY <1>1, <2>1, <2>3, DiskStepAlive DEF Fresh
    <3>2. Contents(d)' = Contents(d)
      <4>1. CASE Alive(d)'
        <5>1. PICK s \in Stripes : s = Stripe
          BY StripeType
        <5>2. Framed(d)
          BY <1>1, <3>1 DEF FramingInv, Original
        <5>3. Talking(d, s)
          BY <5>1, <5>2, FramedTalks
        <5>4. QED
          BY <1>1, <2>1, <2>3, <4>1, <5>3, DiskKeepsContents
      <4>2. CASE ~Alive(d)'
        <5>1. fileState'[d] = "saved" /\ fileState[d] # "saved"
          BY <1>1, <3>1, <4>2 DEF Fresh, SavedOK, At, Alive
        <5>2. SaveCheckpoint(d)
          BY <1>1, <2>1, <2>3, <5>1, OnlySaveSaves
        <5>3. dpc[d] = "save" /\ dpc'[d] = "dead" /\ blocks' = blocks
          BY <1>1, <5>2 DEF SaveCheckpoint, Terminate, Goto, At, DiskTypeOK
        <5>4. Request(d) = <<>> /\ Request(d)' = <<>>
          BY <5>3 DEF Request, At
        <5>5. QED
          BY <5>3, <5>4, SameContents
      <4>3. QED
        BY <4>1, <4>2
    <3>3. QED
      BY <3>1, <3>2 DEF ContentsChange
  <2>4. QED
    BY <2>2, <2>3
<1>5. QED
  BY <1>2, <1>3, <1>4 DEF Next, Terminated

-----------------------------------------------------------------------------
(* The parity, and what write_block has read, while no disk has failed.    *)

AllFresh == \A d \in Disks : Fresh(d)

(* The parity of each stripe, counting the data that is due; the old data, *)
(* and the new parity that write_block has computed, are still right.      *)
Held ==
  /\ \A s \in Stripes : Contents(ParityDisk)[s] = XorAll(DataDisks, Due(s))
  /\ phase \in {"R2", "W1"} => kblock = Contents(Home)[Stripe]
  /\ phase = "W1" => pblock = NewParity(Contents(ParityDisk)[Stripe])

DataInv ==
  /\ pc = "init" => \A d \in Disks : blocks[d] = ZeroDisk /\ gen[d] = 0
  /\ pc # "init" /\ AllFresh => Held /\ (pc = "gone" => phase = "rb")

AllKept == \A d \in Disks : Contents(d)' = Contents(d)

(* The parity of what the data disks hold now. *)
ParityHolds ==
  \A s \in Stripes :
    Contents(ParityDisk)[s] = XorAll(DataDisks, [d \in DataDisks |-> Contents(d)[s]])

LEMMA DueNow ==
  ASSUME phase # "W2"
  PROVE  (\A s \in Stripes : Contents(ParityDisk)[s] = XorAll(DataDisks, Due(s)))
           <=> ParityHolds
<1>1. ASSUME NEW s \in Stripes
      PROVE  Due(s) = [d \in DataDisks |-> Contents(d)[s]]
  BY DEF Due
<1>2. QED
  BY <1>1 DEF ParityHolds

LEMMA HeldNow == phase \in {"rb", "R1"} => (Held <=> ParityHolds)
BY DueNow DEF Held

LEMMA HeldNext == (phase \in {"rb", "R1"} => (Held <=> ParityHolds))'
BY HeldNow, PTL

LEMMA ParityKept ==
  ASSUME ParityHolds, AllKept
  PROVE  ParityHolds'
<1>1. ASSUME NEW s \in Stripes
      PROVE  [d \in DataDisks |-> Contents(d)[s]]' = [d \in DataDisks |-> Contents(d)[s]]
  BY DEF AllKept, DataDisks, Disks
<1>2. Contents(ParityDisk)' = Contents(ParityDisk)
  BY DEF AllKept, ParityDisk, Disks
<1>3. QED
  BY <1>1, <1>2 DEF ParityHolds

LEMMA HeldKept ==
  ASSUME ControllerTypeOK, Held, AllKept,
         UNCHANGED <<phase, blk, data, kblock, pblock, idx>>
  PROVE  Held'
<1>1. Home' = Home /\ Stripe' = Stripe /\ Home \in Disks
  BY TargetType DEF Home, Stripe, DataDisks, Disks
<1>2. ASSUME NEW s \in Stripes
      PROVE  Due(s)' = Due(s)
  BY <1>1 DEF Due, AllKept, DataDisks, Disks
<1>3. /\ Contents(ParityDisk)' = Contents(ParityDisk)
      /\ Contents(Home)' = Contents(Home)
  BY <1>1 DEF AllKept, ParityDisk, Disks
<1>4. QED
  BY <1>1, <1>2, <1>3 DEF Held, NewParity

(* The XOR of blocks that are all zero. *)
LEMMA XorAllZero ==
  ASSUME NEW S, NEW F, \A d \in S : F[d] = ZeroBlock
  PROVE  XorAll(S, F) = ZeroBlock
<1>1. ASSUME NEW i \in 1..BlockWords, NEW b \in Bits
      PROVE  Cardinality({d \in S : b \in F[d][i]}) % 2 # 1
  <2>1. {d \in S : b \in F[d][i]} = {}
    BY DEF ZeroBlock
  <2>2. Cardinality({d \in S : b \in F[d][i]}) = 0
    BY <2>1, FS_EmptySet
  <2>3. QED
    BY <2>2
<1>2. QED
  BY <1>1 DEF XorAll, ZeroBlock

(* Nothing is in the pipes while the disks are being started. *)
LEMMA QuietContents ==
  ASSUME NEW d \in Disks, Quiet(d)
  PROVE  Contents(d) = blocks[d]
<1>1. Request(d) = <<>>
  BY RequestAt DEF Quiet
<1>2. QED
  BY <1>1 DEF Contents

LEMMA ZeroHolds ==
  ASSUME \A d \in Disks : Contents(d) = ZeroDisk
  PROVE  ParityHolds
<1>1. ASSUME NEW s \in Stripes
      PROVE  XorAll(DataDisks, [d \in DataDisks |-> Contents(d)[s]]) = ZeroBlock
  BY XorAllZero DEF DataDisks, Disks, ZeroDisk
<1>2. \A s \in Stripes : Contents(ParityDisk)[s] = ZeroBlock
  BY DEF ParityDisk, Disks, ZeroDisk
<1>3. QED
  BY <1>1, <1>2 DEF ParityHolds

LEMMA StartContents ==
  ASSUME Typed, FramingInv, SavedOK, DataInv, InitDisk \/ InitFails,
         NEW d \in Disks, Fresh(d)'
  PROVE  Contents(d)' = ZeroDisk
<1>1. /\ pc = "init" /\ gen' = gen /\ fileState' = fileState /\ DiskTypeOK
      /\ blocks[d] = ZeroDisk
  BY DEF InitDisk, InitFails, restoreVars, Spawn, fileVars, DataInv, Typed, TypeOK
<1>2. CASE Alone(d)
  <2>1. gen[d] = 0 /\ Alive(d)
    BY <1>1, <1>2, AloneKeeps DEF Fresh, SavedOK
  <2>2. Quiet(d)
    BY <1>1, <2>1 DEF FramingInv, Framed, Original
  <2>3. QED
    BY <1>1, <1>2, <2>2, QuietContents, AloneKeeps
<1>3. CASE InitDisk /\ d = idx
  <2>1. dpc'[d] = "cmd" /\ toDisk'[d] = <<>> /\ blocks'[d] = ZeroDisk
    BY <1>1, <1>3 DEF InitDisk, Spawn, DiskTypeOK
  <2>2. Request(d)' = <<>>
    BY <2>1 DEF Request, At
  <2>3. QED
    BY <2>1, <2>2 DEF Contents
<1>4. InitFails \/ d # idx => Alone(d)
  BY <1>1 DEF InitDisk, InitFails, Spawn, DiskTypeOK, Alone, pipeVars
<1>5. QED
  BY <1>2, <1>3, <1>4

LEMMA StartHolds ==
  ASSUME Typed, FramingInv, SavedOK, DataInv, InitDisk \/ InitFails, AllFresh'
  PROVE  ParityHolds' /\ phase' = "rb"
<1>1. phase' = "rb"
  BY DEF InitDisk, InitFails, FramingInv, PhaseOK
<1>2. \A d \in Disks : Contents(d)' = ZeroDisk
  BY StartContents DEF AllFresh
<1>3. ParityHolds'
  <2>1. ASSUME NEW s \in Stripes
        PROVE  [d \in DataDisks |-> Contents(d)[s]]' = [d \in DataDisks |-> ZeroBlock]
    BY <1>2 DEF ZeroDisk, DataDisks, Disks
  <2>2. XorAll(DataDisks, [d \in DataDisks |-> ZeroBlock]) = ZeroBlock
    BY XorAllZero
  <2>3. \A s \in Stripes : Contents(ParityDisk)'[s] = ZeroBlock
    BY <1>2 DEF ParityDisk, Disks, ZeroDisk
  <2>4. QED
    BY <2>1, <2>2, <2>3 DEF ParityHolds
<1>4. QED
  BY <1>1, <1>3

(* The parity that write_block sends is that of the stripe with the new    *)
(* data.                                                                   *)
LEMMA ParitySent ==
  ASSUME Typed, FramingInv, Held, SendParity, \A d \in Disks : gen[d] = 0
  PROVE  Held'
<1>1. /\ phase = "W1" /\ phase' = "W2" /\ pc = "data" /\ gen' = gen
      /\ UNCHANGED <<blk, data, idx>>
      /\ DiskTypeOK /\ data \in Block /\ kblock \in Block /\ pblock \in Block
      /\ Stripe \in Stripes /\ Home \in DataDisks
      /\ Send(Target, pblock)
  BY StripeType, TargetType
     DEF SendParity, Typed, TypeOK, ControllerTypeOK, restoreVars
<1>2. /\ Target = ParityDisk /\ Home' = Home /\ Stripe' = Stripe
      /\ ParityDisk \in Disks
  BY <1>1 DEF Target, Home, Stripe, RestorePhases, ParityDisk, Disks
<1>3. ASSUME NEW d \in DataDisks
      PROVE  d \in Disks /\ Contents(d)' = Contents(d)
  <2>1. d \in Disks /\ d # Target
    BY <1>2 DEF DataDisks, Disks, ParityDisk
  <2>2. QED
    BY <1>1, <2>1, BlockContents
<1>4. ASSUME NEW s \in Stripes
      PROVE  Contents(ParityDisk)'[s] =
               IF s = Stripe THEN pblock ELSE Contents(ParityDisk)[s]
  <2>1. Updated(ParityDisk, pblock)
    BY <1>1, <1>2, BlockContents
  <2>2. QED
    BY <2>1 DEF Updated
<1>5. ASSUME NEW s \in Stripes
      PROVE  /\ Due(s) \in [DataDisks -> Block]
             /\ \A d \in DataDisks : Due(s)[d] = Contents(d)[s]
  <2>1. Due(s) = [d \in DataDisks |-> Contents(d)[s]]
    BY <1>1 DEF Due
  <2>2. \A d \in DataDisks : Contents(d)[s] \in Block
    BY <1>1, <1>3, ContentsType
  <2>3. QED
    BY <2>1, <2>2
<1>6. ASSUME NEW s \in Stripes
      PROVE  Due(s)' = [d \in DataDisks |->
                          IF d = Home /\ s = Stripe THEN data ELSE Contents(d)[s]]
  BY <1>1, <1>2, <1>3 DEF Due
<1>7. ASSUME NEW s \in Stripes
      PROVE  Contents(ParityDisk)'[s] = XorAll(DataDisks, Due(s)')
  <2>1. Contents(ParityDisk)[s] = XorAll(DataDisks, Due(s))
    BY DEF Held
  <2>2. CASE s # Stripe
    <3>1. \A d \in DataDisks : Due(s)[d] = Due(s)'[d]
      BY <1>5, <1>6, <2>2
    <3>2. XorAll(DataDisks, Due(s)) = XorAll(DataDisks, Due(s)')
      BY <3>1, XorAllAgree
    <3>3. QED
      BY <1>4, <2>1, <2>2, <3>2
  <2>3. CASE s = Stripe
    <3> DEFINE F == Due(s)
               G == [d \in DataDisks |->
                       IF d = Home /\ s = Stripe THEN data ELSE Contents(d)[s]]
    <3>0. IsFiniteSet(DataDisks)
      BY FS_Interval DEF DataDisks
    <3>1. /\ IsFiniteSet(DataDisks) /\ F[Home] \in Block /\ G[Home] = data
          /\ \A e \in DataDisks \ {Home} : G[e] = F[e]
      BY <1>1, <1>5, <2>3, <3>0
    <3> HIDE DEF F, G
    <3>2. XorAll(DataDisks, G) = XorBlock(XorBlock(XorAll(DataDisks, F), F[Home]), G[Home])
      BY <1>1, <3>1, XorAllUpdate
    <3>3. F[Home] = kblock
      BY <1>1, <1>5, <2>3 DEF Held, F
    <3>4. pblock = XorBlock(XorBlock(Contents(ParityDisk)[s], kblock), data)
      BY <1>1, <2>3 DEF Held, NewParity
    <3>5. XorAll(DataDisks, G) = pblock
      BY <2>1, <3>1, <3>2, <3>3, <3>4 DEF F
    <3>6. QED
      BY <1>4, <1>6, <2>3, <3>5 DEF G
  <2>4. QED
    BY <2>2, <2>3
<1>8. QED
  BY <1>1, <1>7 DEF Held

(* And the data it then sends is the data that was due. *)
LEMMA DataSent ==
  ASSUME Typed, FramingInv, Held, SendData, \A d \in Disks : gen[d] = 0
  PROVE  Held'
<1>1. /\ phase = "W2" /\ phase' = "rb" /\ pc = "data" /\ gen' = gen
      /\ DiskTypeOK /\ data \in Block
      /\ Stripe \in Stripes /\ Home \in DataDisks
      /\ Send(Target, data)
  BY StripeType, TargetType
     DEF SendData, Return, Typed, TypeOK, ControllerTypeOK, restoreVars
<1>2. PICK h \in DataDisks : h = Home /\ h = Target
  BY <1>1 DEF Target, Home
<1>3. ASSUME NEW d \in Disks, d # h
      PROVE  Contents(d)' = Contents(d)
  BY <1>1, <1>2, <1>3, BlockContents
<1>4. Updated(h, data)
  <2>1. h \in Disks
    BY DEF DataDisks, Disks
  <2>2. QED
    BY <1>1, <1>2, <2>1, BlockContents
<1>5. ASSUME NEW s \in Stripes
      PROVE  [d \in DataDisks |-> Contents(d)[s]]' = Due(s)
  <2>1. ASSUME NEW d \in DataDisks
        PROVE  Contents(d)'[s] =
                 IF d = h /\ s = Stripe THEN data ELSE Contents(d)[s]
    <3>1. CASE d = h
      BY <1>4, <3>1 DEF Updated
    <3>2. CASE d # h
      BY <1>3, <3>2 DEF DataDisks, Disks
    <3>3. QED
      BY <3>1, <3>2
  <2>2. QED
    BY <1>1, <1>2, <2>1 DEF Due
<1>6. Contents(ParityDisk)' = Contents(ParityDisk)
  BY <1>1, <1>3 DEF DataDisks, ParityDisk, Disks
<1>7. ParityHolds'
  BY <1>5, <1>6 DEF ParityHolds, Held
<1>8. QED
  BY <1>1, <1>7, HeldNext

(* The block that is read from a disk is the one it holds. *)
LEMMA ReceivedIsHeld ==
  ASSUME Typed, FramingInv, TakeBlock, NEW d \in Disks, d = Target, Original(d)
  PROVE  Received = Contents(d)[Stripe]
<1>1. pc = "recv" /\ Len(fromDisk[d]) # 0 /\ Alive(d)
  BY DEF TakeBlock, Original
<1>2. ReadSent(d, Stripe)
  BY <1>1, TargetOfSend
<1>3. Received = blocks[d][Stripe]
  BY <1>1, <1>2, BlockTaken
<1>4. At(d, "cmd") /\ toDisk[d] = <<>>
  BY <1>1, <1>2 DEF ReadSent, NoReply
<1>5. Request(d) = <<>>
  BY <1>4, RequestAt
<1>6. Contents(d) = blocks[d]
  BY <1>5 DEF Contents
<1>7. QED
  BY <1>3, <1>6

(* While the parity is not ahead of the data, what is due is what is held. *)
LEMMA PlainHeld == Held /\ phase # "W2" => ParityHolds
BY DueNow DEF Held

LEMMA DueNext ==
  (phase # "W2" =>
     ((\A s \in Stripes : Contents(ParityDisk)[s] = XorAll(DataDisks, Due(s)))
        <=> ParityHolds))'
<1>1. phase # "W2" =>
        ((\A s \in Stripes : Contents(ParityDisk)[s] = XorAll(DataDisks, Due(s)))
           <=> ParityHolds)
  BY DueNow
<1>2. QED
  BY <1>1, PTL

LEMMA OldDataRead ==
  ASSUME Typed, FramingInv, Held, RecvOldData, \A d \in Disks : Original(d), AllKept
  PROVE  Held'
<1>1. /\ phase = "R1" /\ phase' = "R2" /\ kblock' = Received
      /\ UNCHANGED <<blk, idx>> /\ TakeBlock /\ Home \in DataDisks
  BY TargetType DEF RecvOldData, Typed, TypeOK
<1>2. PICK h \in DataDisks : h = Home /\ h = Target
  BY <1>1 DEF Target, Home
<1>3. h \in Disks /\ Home' = h /\ Stripe' = Stripe
  BY <1>1, <1>2 DEF Home, Stripe, RestorePhases, DataDisks, Disks
<1>4. Received = Contents(h)[Stripe]
  BY <1>1, <1>2, <1>3, ReceivedIsHeld
<1>5. Contents(h)' = Contents(h)
  BY <1>3 DEF AllKept
<1>6. ParityHolds'
  BY <1>1, PlainHeld, ParityKept
<1>7. QED
  BY <1>1, <1>3, <1>4, <1>5, <1>6, DueNext DEF Held

LEMMA OldParityRead ==
  ASSUME Typed, FramingInv, Held, RecvOldParity, \A d \in Disks : Original(d), AllKept
  PROVE  Held'
<1>1. /\ phase = "R2" /\ phase' = "W1" /\ pblock' = NewParity(Received)
      /\ UNCHANGED <<blk, data, kblock, idx>> /\ TakeBlock /\ Home \in DataDisks
  BY TargetType DEF RecvOldParity, Typed, TypeOK
<1>2. PICK h \in DataDisks : h = Home
  BY <1>1
<1>3. /\ h \in Disks /\ ParityDisk \in Disks /\ Target = ParityDisk
      /\ Home' = h /\ Stripe' = Stripe
  BY <1>1, <1>2 DEF Home, Stripe, Target, RestorePhases, DataDisks, ParityDisk, Disks
<1>4. Received = Contents(ParityDisk)[Stripe]
  BY <1>1, <1>3, ReceivedIsHeld
<1>5. Contents(h)' = Contents(h) /\ Contents(ParityDisk)' = Contents(ParityDisk)
  BY <1>3 DEF AllKept
<1>6. ParityHolds'
  BY <1>1, PlainHeld, ParityKept
<1>7. kblock = Contents(h)[Stripe]
  BY <1>1, <1>2 DEF Held
<1>8. QED
  BY <1>1, <1>3, <1>4, <1>5, <1>6, <1>7, DueNext DEF Held, NewParity

(* No disk has failed after a step only if none had before, nor was one    *)
(* found to have.                                                          *)
LEMMA NoneFailed ==
  ASSUME Typed, FramingInv, SavedOK, AllFresh
  PROVE  /\ \A d \in Disks : gen[d] = 0
         /\ phase \notin RestorePhases /\ pc # "restart"
         /\ pc \notin {"exit", "wait", "gone"} => \A d \in Disks : Original(d)
<1>1. \A d \in Disks : gen[d] = 0
  BY DEF AllFresh, Fresh
<1>2. pc \notin {"exit", "wait", "gone"} => \A d \in Disks : Original(d)
  BY DEF AllFresh, Fresh, SavedOK, Original
<1>3. rdisk \in Disks
  BY DEF Typed, TypeOK, ControllerTypeOK
<1>4. QED
  BY <1>1, <1>2, <1>3 DEF FramingInv, PhaseOK, Original

(* No request fails then. *)
LEMMA NoRequestFails ==
  ASSUME Typed, FramingInv, NEW d \in Disks, d = Target, Original(d)
  PROVE  ~FindDead /\ ~SendFails /\ ~RecvFails
<1>1. Alive(d)
  BY DEF Original
<1>2. pc = "recv" => fromDisk[d] = <<>> \/ Len(fromDisk[d]) = BlockWords
  <2>1. Stripe \in Stripes /\ DiskTypeOK
    BY StripeType DEF Typed, TypeOK
  <2>2. blocks[d][Stripe] \in Block
    BY <2>1 DEF DiskTypeOK
  <2>3. QED
    BY <2>2, TargetOfSend, BlockIsSeq DEF ReadSent, NoReply
<1>3. ~RecvFails
  BY <1>1, <1>2 DEF RecvFails, ShortRead
<1>4. QED
  BY <1>1, <1>3 DEF FindDead, SendFails

LEMMA DataStep ==
  ASSUME Typed, FramingInv, SavedOK, DataInv, [Next]_vars, pc # "init", AllFresh'
  PROVE  AllFresh /\ Held' /\ (pc' = "gone" => phase' = "rb")
<1>1. AllFresh /\ \A d \in Disks : ContentsChange(d)
  BY ContentsStep DEF AllFresh
<1>2. /\ \A d \in Disks : gen[d] = 0
      /\ phase \notin RestorePhases /\ pc # "restart"
      /\ pc \notin {"exit", "wait", "gone"} => \A d \in Disks : Original(d)
  BY <1>1, NoneFailed
<1>3. Held /\ (pc = "gone" => phase = "rb")
  BY <1>1 DEF DataInv
<1>4. ~SendParity /\ ~SendData => AllKept
  BY <1>1 DEF ContentsChange, AllKept
<1>5. ControllerTypeOK /\ Target \in Disks /\ (pc \in {"exit", "wait"} => phase = "rb")
  BY TargetType DEF Typed, TypeOK, FramingInv, PhaseOK
<1>6. ASSUME ~SendParity /\ ~SendData, phase # "W2", phase' \in {"rb", "R1"}
      PROVE  Held'
  BY <1>3, <1>4, <1>6, PlainHeld, ParityKept, HeldNext
<1>7. ASSUME ~SendParity /\ ~SendData,
             UNCHANGED <<phase, blk, data, kblock, pblock, idx>>
      PROVE  Held'
  BY <1>3, <1>4, <1>5, <1>7, HeldKept
<1>8. ASSUME UNCHANGED ctlVars
      PROVE  Held' /\ (pc' = "gone" => phase' = "rb")
  <2>1. ~SendParity /\ ~SendData
    BY <1>8 DEF SendParity, SendData, Return, ctlVars
  <2>2. QED
    BY <1>3, <1>7, <1>8, <2>1 DEF ctlVars
<1>9. CASE UNCHANGED vars \/ \E e \in Disks : Disk(e)
  BY <1>1, <1>8, <1>9 DEF vars, Disk
<1>10. CASE Command \/ Exit
  <2>1. /\ pc = "shell" /\ phase = "rb" /\ phase' \in {"rb", "R1"} /\ pc' # "gone"
        /\ ~SendParity /\ ~SendData
    BY <1>10 DEF Command, Exit, ReadBlock, WriteBlock, SimulateFailure,
       CheckpointAndWait, FramingInv, PhaseOK, SendParity, SendData
  <2>2. QED
    BY <1>1, <1>6, <2>1
<1>11. CASE SendCmd \/ SendNum
  <2>1. /\ pc' # "gone" /\ ~SendParity /\ ~SendData
        /\ UNCHANGED <<phase, blk, data, kblock, pblock, idx>>
    BY <1>11 DEF SendCmd, SendNum, SendParity, SendData, writeVars
  <2>2. QED
    BY <1>1, <1>7, <2>1
<1>12. CASE FindDead \/ SendFails \/ RecvFails
  <2>1. pc \notin {"exit", "wait", "gone"}
    BY <1>12 DEF FindDead, SendFails, RecvFails
  <2>2. QED
    BY <1>2, <1>5, <1>12, <2>1, NoRequestFails
<1>13. CASE RecvRead \/ ParityAllocFails
  <2>1. /\ pc' # "gone" /\ ~SendParity /\ ~SendData
        /\ phase # "W2" /\ phase' = "rb"
    BY <1>13 DEF RecvRead, ParityAllocFails, TakeBlock, Return, SendParity, SendData
  <2>2. QED
    BY <1>1, <1>6, <2>1
<1>14. CASE RecvOldData
  <2>1. pc = "recv" /\ pc' # "gone" /\ ~SendParity /\ ~SendData
    BY <1>14 DEF RecvOldData, TakeBlock, SendParity, SendData
  <2>2. QED
    BY <1>1, <1>2, <1>3, <1>4, <1>14, <2>1, OldDataRead
<1>15. CASE RecvOldParity
  <2>1. pc = "recv" /\ pc' # "gone" /\ ~SendParity /\ ~SendData
    BY <1>15 DEF RecvOldParity, TakeBlock, SendParity, SendData
  <2>2. QED
    BY <1>1, <1>2, <1>3, <1>4, <1>15, <2>1, OldParityRead
<1>16. CASE SendParity
  BY <1>1, <1>2, <1>3, <1>16, ParitySent DEF SendParity
<1>17. CASE SendData
  BY <1>1, <1>2, <1>3, <1>17, DataSent DEF SendData, Return
<1>18. CASE RestartDisk \/ RestartFails \/ RecvSource \/ SendRebuilt
  BY <1>2, <1>18 DEF RestartDisk, RestartFails, RecvSource, SendRebuilt, RestorePhases
<1>19. CASE SendExit \/ Wait
  <2>1. /\ phase = "rb" /\ phase' = "rb" /\ ~SendParity /\ ~SendData
    BY <1>5, <1>19 DEF SendExit, Wait, SendParity, SendData
  <2>2. QED
    BY <1>1, <1>6, <2>1
<1>20. CASE InitDisk \/ InitFails
  BY <1>20 DEF InitDisk, InitFails
<1>21. QED
  BY <1>9, <1>10, <1>11, <1>12, <1>13, <1>14, <1>15, <1>16, <1>17, <1>18, <1>19,
     <1>20 DEF Next, Controlled, ControllerStep, Terminated

(* While the disks are started they stay empty. *)
LEMMA StillEmpty ==
  ASSUME Typed, FramingInv, DataInv, [Next]_vars, pc' = "init"
  PROVE  \A d \in Disks : blocks'[d] = ZeroDisk /\ gen'[d] = 0
<1>0. DiskTypeOK
  BY DEF Typed, TypeOK
<1>1. CASE Command \/ Exit
  BY <1>1 DEF Command, Exit, ReadBlock, WriteBlock, SimulateFailure,
     CheckpointAndWait
<1>2. CASE InitDisk
  BY <1>0, <1>2 DEF InitDisk, Spawn, DataInv, DiskTypeOK, restoreVars
<1>3. CASE InitFails \/ SendCmd \/ FindDead \/ SendNum \/ SendParity \/ SendData
             \/ SendRebuilt \/ RestartDisk \/ RestartFails
  BY <1>3 DEF InitFails, SendCmd, FindDead, SendNum, SendParity, SendData,
     SendRebuilt, RestartDisk, RestartFails, Return, ParentExits
<1>4. CASE SendFails \/ RecvFails \/ RecvRead \/ RecvOldData \/ ParityAllocFails
             \/ RecvOldParity \/ RecvSource
  BY <1>4 DEF SendFails, RecvFails, RecvRead, RecvOldData, ParityAllocFails,
     RecvOldParity, RecvSource, GiveUp, Return, ParentExits
<1>5. CASE SendExit \/ Wait
  BY <1>5 DEF SendExit, Wait, ParentExits
<1>6. ASSUME NEW e \in Disks, Disk(e)
      PROVE  \A d \in Disks : blocks'[d] = ZeroDisk /\ gen'[d] = 0
  <2>1. /\ pc = "init" /\ DiskStep(e) /\ gen' = gen
        /\ \A d \in Disks : blocks[d] = ZeroDisk /\ gen[d] = 0
    BY <1>6 DEF Disk, ctlVars, restoreVars, DataInv
  <2>2. \A d \in Disks : d # e => blocks'[d] = ZeroDisk
    BY <1>0, <2>1, OtherDisk DEF Untouched
  <2>3. blocks'[e] = ZeroDisk
    <3>1. gen[e] = 0 /\ Alive(e)
      BY <2>1, DiskStepAlive
    <3>2. Quiet(e)
      BY <2>1, <3>1 DEF FramingInv, Framed, Original
    <3>3. ~StoreBlock(e)
      BY <3>2 DEF Quiet, StoreBlock, At
    <3>4. blocks' = blocks
      BY <2>1, <3>3 DEF DiskStep, ReadCmd, ReadNum, Reply, OpenCheckpoint, Segfault,
         FailDisk, SaveCheckpoint, FailCheckpoint, Killed
    <3>5. QED
      BY <2>1, <3>4
  <2>4. QED
    BY <2>1, <2>2, <2>3
<1>7. CASE UNCHANGED vars
  BY <1>7 DEF vars, diskVars, ctlVars, restoreVars, DataInv
<1>8. QED
  BY <1>1, <1>2, <1>3, <1>4, <1>5, <1>6, <1>7
     DEF Next, Controlled, ControllerStep, Terminated

LEMMA InitData == Init => SavedOK /\ DataInv
<1> SUFFICES ASSUME Init PROVE SavedOK /\ DataInv
  OBVIOUS
<1>1. /\ pc = "init" /\ gen = [d \in Disks |-> 0]
      /\ fileState = [d \in Disks |-> "none"] /\ blocks = [d \in Disks |-> ZeroDisk]
  BY DEF Init, DiskInit, ControllerInit
<1>2. QED
  BY <1>1 DEF SavedOK, DataInv

(* Only the last of the disks started ends the start. *)
LEMMA LeavesInit ==
  ASSUME Typed, FramingInv, [Next]_vars, pc = "init", pc' # "init"
  PROVE  InitDisk \/ InitFails
<1>1. ~Command /\ ~Exit
  BY DEF Command, Exit, ReadBlock, WriteBlock, SimulateFailure, CheckpointAndWait
<1>2. ~SendCmd /\ ~FindDead /\ ~SendNum /\ ~SendParity /\ ~SendData /\ ~SendRebuilt
        /\ ~RestartDisk /\ ~RestartFails /\ ~SendFails /\ ~SendExit /\ ~Wait
  BY DEF SendCmd, FindDead, SendNum, SendParity, SendData, SendRebuilt,
     RestartDisk, RestartFails, SendFails, SendExit, Wait
<1>3. ~RecvFails /\ ~RecvRead /\ ~RecvOldData /\ ~ParityAllocFails
        /\ ~RecvOldParity /\ ~RecvSource
  BY DEF RecvFails, RecvRead, RecvOldData, ParityAllocFails, RecvOldParity,
     RecvSource, TakeBlock
<1>4. ~UNCHANGED ctlVars
  BY DEF ctlVars
<1>5. QED
  BY <1>1, <1>2, <1>3, <1>4 DEF Next, Controlled, ControllerStep, Terminated, Disk,
     vars

LEMMA DataInvStep ==
  ASSUME Typed, FramingInv, SavedOK, DataInv, [Next]_vars
  PROVE  DataInv'
<1>1. pc' = "init" => \A d \in Disks : blocks'[d] = ZeroDisk /\ gen'[d] = 0
  BY StillEmpty
<1>2. ASSUME pc' # "init", AllFresh'
      PROVE  Held' /\ (pc' = "gone" => phase' = "rb")
  <2>1. CASE pc = "init"
    <3>1. InitDisk \/ InitFails
      BY <1>2, <2>1, LeavesInit
    <3>2. ParityHolds' /\ phase' = "rb"
      BY <1>2, <3>1, StartHolds
    <3>3. QED
      BY <3>2, HeldNext
  <2>2. CASE pc # "init"
    BY <1>2, <2>2, DataStep
  <2>3. QED
    BY <2>1, <2>2
<1>3. QED
  BY <1>1, <1>2 DEF DataInv

Inv == Typed /\ FramingInv /\ SavedOK /\ DataInv

LEMMA InvInit == Init => Inv
BY InitTyped, InitFraming, InitData DEF Inv

LEMMA InvStep == Inv /\ [Next]_vars => Inv'
BY StepTyped, FramingStep, SavedStep, DataInvStep DEF Inv

LEMMA Invariance == Spec => []Inv
BY InvInit, InvStep, PTL DEF Spec

(* As long as no disk has failed, the parity of every stripe is the XOR of *)
(* its data, wherever the controller and the disks are in a command.       *)
THEOREM Parity == Spec => []ParityInv
<1>1. Inv => ParityInv
  <2>1. ASSUME Inv, pc # "init", \A d \in Disks : Sound(d)
        PROVE  AllFresh
    BY <2>1 DEF AllFresh, Fresh, Sound
  <2>2. QED
    BY <2>1 DEF Inv, DataInv, Held, ParityInv
<1>2. QED
  BY <1>1, Invariance, PTL

(* A disk that is gone holds what is in its memory: nothing is under way.  *)
LEMMA SavedContents ==
  ASSUME Inv, \A d \in Disks : gen[d] = 0 /\ fileState[d] = "saved"
  PROVE  ParityHolds /\ \A d \in Disks : Contents(d) = image[d]
<1>1. AllFresh
  BY DEF AllFresh, Fresh
<1>2. ASSUME NEW d \in Disks
      PROVE  At(d, "dead") /\ image[d] = blocks[d] /\ pc \in {"exit", "wait", "gone"}
  BY DEF Inv, SavedOK
<1>3. pc \in {"exit", "wait", "gone"}
  BY <1>2 DEF Disks
<1>4. Held /\ phase = "rb"
  BY <1>1, <1>3 DEF Inv, DataInv, FramingInv, PhaseOK
<1>5. ASSUME NEW d \in Disks
      PROVE  Contents(d) = image[d]
  <2>1. Request(d) = <<>>
    BY <1>2 DEF Request, At
  <2>2. QED
    BY <1>2, <2>1 DEF Contents
<1>6. QED
  BY <1>4, <1>5, HeldNow

(* When every disk that was started has saved itself, the files are        *)
(* consistent: no write was half done when CMD_EXIT came.                  *)
THEOREM Checkpoints == Spec => []SavedParity
<1>1. Inv => SavedParity
  <2> SUFFICES ASSUME Inv, \A d \in Disks : gen[d] = 0 /\ fileState[d] = "saved",
                      NEW s \in Stripes
               PROVE  image[ParityDisk][s] =
                        XorAll(DataDisks, [d \in DataDisks |-> image[d][s]])
    BY DEF SavedParity
  <2>1. ParityHolds /\ \A d \in Disks : Contents(d) = image[d]
    BY SavedContents
  <2>2. [d \in DataDisks |-> Contents(d)[s]] = [d \in DataDisks |-> image[d][s]]
    BY <2>1 DEF DataDisks, Disks
  <2>3. Contents(ParityDisk)[s] = image[ParityDisk][s]
    BY <2>1 DEF ParityDisk, Disks
  <2>4. QED
    BY <2>1, <2>2, <2>3 DEF ParityHolds
<1>2. QED
  BY <1>1, Invariance, PTL

(* What a read command prints is the block as the disk of that block holds *)
(* it, unless that disk has failed.                                        *)
THEOREM TrueReads == Spec => ReadsTrue
<1>1. Inv /\ [Next]_vars => [RecvRead /\ Sound(Home) =>
                                out'.block = Contents(Home)[Stripe]]_vars
  <2> SUFFICES ASSUME Inv, RecvRead, Sound(Home)
               PROVE  out'.block = Contents(Home)[Stripe]
    OBVIOUS
  <2>1. /\ TakeBlock /\ out' = Printed(Received) /\ phase = "rb" /\ pc = "recv"
        /\ Home \in DataDisks
    BY TargetType DEF RecvRead, Return, TakeBlock, Inv, Typed, TypeOK
  <2>2. PICK h \in Disks : h = Home /\ h = Target
    BY <2>1 DEF Target, Home, DataDisks, Disks
  <2>3. Original(h)
    BY <2>1, <2>2 DEF Inv, SavedOK, Sound, Original
  <2>4. Received = Contents(h)[Stripe]
    BY <2>1, <2>2, <2>3, ReceivedIsHeld DEF Inv
  <2>5. QED
    BY <2>1, <2>2, <2>4 DEF Printed
<1>2. QED
  BY <1>1, Invariance, PTL DEF Spec, ReadsTrue

(* While the disks are started those that run hold nothing. *)
LEMMA EmptyStep ==
  ASSUME Inv, Inv', [Next]_vars, pc = "init", NEW d \in Disks, Fresh(d), Fresh(d)'
  PROVE  Contents(d) = ZeroDisk /\ Contents(d)' = ZeroDisk
<1>1. Original(d) /\ blocks[d] = ZeroDisk
  BY DEF Inv, SavedOK, DataInv, Fresh, Original
<1>2. Quiet(d)
  BY <1>1 DEF Inv, FramingInv, Framed
<1>3. Contents(d) = ZeroDisk
  BY <1>1, <1>2, QuietContents
<1>4. CASE pc' # "init"
  BY <1>3, <1>4, LeavesInit, StartContents DEF Inv
<1>5. CASE pc' = "init"
  <2>1. Original(d)' /\ blocks'[d] = ZeroDisk
    BY <1>5 DEF Inv, SavedOK, DataInv, Fresh, Original
  <2>2. Quiet(d)'
    BY <1>5, <2>1 DEF Inv, FramingInv, Framed
  <2>3. (Quiet(d) => Contents(d) = blocks[d])'
    BY QuietContents, PTL
  <2>4. QED
    BY <1>3, <2>1, <2>2, <2>3
<1>6. QED
  BY <1>4, <1>5

(* Whatever happens to the other disks, a block of a data disk that has    *)
(* not failed changes only when write_block sends it the user's data.      *)
THEOREM Isolation == Spec => Isolated
<1> DEFINE Change(d, s) ==
      Sound(d) /\ Sound(d)' /\ (Contents(d)[s])' # Contents(d)[s] =>
         /\ SendData
         /\ d = Home /\ s = Stripe
         /\ (Contents(d)[s])' = data
<1>1. ASSUME Inv, Inv', [Next]_vars, NEW d \in DataDisks, NEW s \in Stripes
      PROVE  Change(d, s)
  <2> SUFFICES ASSUME Sound(d), Sound(d)', (Contents(d)[s])' # Contents(d)[s]
               PROVE  /\ SendData
                      /\ d = Home /\ s = Stripe
                      /\ (Contents(d)[s])' = data
    OBVIOUS
  <2>1. d \in Disks /\ d # ParityDisk /\ Fresh(d) /\ Fresh(d)'
    BY DEF DataDisks, Disks, ParityDisk, Sound, Fresh
  <2>2. pc # "init"
    BY <1>1, <2>1, EmptyStep
  <2>3. ContentsChange(d)
    BY <1>1, <2>1, <2>2, ContentsStep DEF Inv
  <2>4. SendParity => d # Target
    BY <2>1 DEF SendParity, Target
  <2>5. SendData /\ d = Target /\ Updated(d, data)
    BY <2>3, <2>4 DEF ContentsChange
  <2>6. d = Home
    BY <2>5 DEF SendData, Target, Home
  <2>7. QED
    BY <2>5, <2>6 DEF Updated
<1>2. Inv /\ Inv' /\ [Next]_vars => [\A d \in DataDisks, s \in Stripes : Change(d, s)]_vars
  BY <1>1
<1>3. QED
  BY <1>2, Invariance, PTL DEF Spec, Isolated

-----------------------------------------------------------------------------
(* restore_disk_process: what it rebuilds a disk from.                     *)

Others == DataDisks \ {rdisk}

(* The disks whose block of stripe s has been XORed into rebuilt[s].       *)
Done(s) == {d \in Others : phase = "RW" \/ d < src \/ (d = src /\ s < idx)}

RebuiltAsDone ==
  \A s \in Stripes : rebuilt[s] = XorAll(Done(s), [d \in Disks |-> Contents(d)[s]])

RebuildInv ==
  phase \in RestorePhases /\ (\A d \in Others : Fresh(d)) => RebuiltAsDone

LEMMA InitRebuild == Init => RebuildInv
BY DEF Init, ControllerInit, RebuildInv, RestorePhases

LEMMA DoneFinite ==
  ASSUME NEW s
  PROVE  IsFiniteSet(Done(s)) /\ IsFiniteSet(Done(s))'
<1>1. IsFiniteSet(DataDisks)
  BY FS_Interval DEF DataDisks
<1>2. Done(s) \subseteq DataDisks /\ Done(s)' \subseteq DataDisks
  BY DEF Done, Others
<1>3. QED
  BY <1>1, <1>2, FS_Subset

(* Nothing has been read, and nothing is rebuilt. *)
LEMMA RestartRebuild ==
  ASSUME Typed, RestartDisk
  PROVE  RebuiltAsDone'
<1>1. /\ rdisk' = rdisk /\ rdisk \in Disks /\ idx' = 0 /\ rebuilt' = ZeroDisk
      /\ SourceFrom(0)
  BY DEF RestartDisk, Typed, TypeOK, ControllerTypeOK
<1>2. ASSUME NEW s \in Stripes
      PROVE  Done(s)' = {}
  <2>1. ASSUME NEW d \in DataDisks, d # rdisk
        PROVE  ~(phase' = "RW" \/ d < src' \/ (d = src' /\ s < idx'))
    BY <1>1, <2>1 DEF SourceFrom, SkipSelf, DataDisks, Disks, Stripes
  <2>2. QED
    BY <1>1, <2>1 DEF Done, Others
<1>3. QED
  BY <1>1, <1>2, XorAllEmpty DEF RebuiltAsDone, ZeroDisk

(* What was rebuilt is still right when neither it nor the disks change.   *)
LEMMA RebuildKept ==
  ASSUME RebuiltAsDone, UNCHANGED <<phase, rdisk, src, idx, rebuilt>>,
         \A d \in Others : Contents(d)' = Contents(d)
  PROVE  RebuiltAsDone'
<1> SUFFICES ASSUME NEW s \in Stripes
             PROVE  rebuilt'[s] = XorAll(Done(s)', [d \in Disks |-> Contents(d)[s]]')
  BY DEF RebuiltAsDone
<1>1. Done(s)' = Done(s) /\ Done(s) \subseteq Others
  BY DEF Done, Others
<1>2. \A d \in Done(s) :
        [e \in Disks |-> Contents(e)[s]][d] = [e \in Disks |-> Contents(e)[s]]'[d]
  BY <1>1 DEF Others, DataDisks, Disks
<1> DEFINE F == [e \in Disks |-> Contents(e)[s]]
           G == [e \in Disks |-> Contents(e)[s]]'
<1>3. \A d \in Done(s) : F[d] = G[d]
  BY <1>2
<1> HIDE DEF F, G
<1>4. XorAll(Done(s), F) = XorAll(Done(s), G)
  BY <1>3, XorAllAgree
<1>5. QED
  BY <1>1, <1>4 DEF RebuiltAsDone, F, G

(* One more block, of disk src, is XORed in. *)
LEMMA SourceTaken ==
  ASSUME Inv, RecvSource, RebuiltAsDone, \A d \in Others : Fresh(d),
         \A d \in Others : Contents(d)' = Contents(d)
  PROVE  RebuiltAsDone'
<1>1. /\ phase = "RR" /\ rdisk' = rdisk /\ rdisk \in Disks /\ idx \in Stripes
      /\ pc = "recv" /\ TakeBlock /\ rebuilt' = XorInto(idx, Received)
      /\ rebuilt \in [Stripes -> Block] /\ DiskTypeOK
  BY DEF RecvSource, TakeBlock, Inv, Typed, TypeOK, ControllerTypeOK, LoopOK,
     RestorePhases
<1>2. PICK c \in Others : c = src
  BY <1>1 DEF Inv, FramingInv, PhaseOK, Others
<1>3. c \in DataDisks /\ c \in Disks /\ c # rdisk /\ c = Target /\ Stripe = idx
  BY <1>1, <1>2 DEF Others, DataDisks, Disks, Target, Stripe, RestorePhases
<1>4. Original(c)
  BY <1>1, <1>2, <1>3 DEF Inv, SavedOK, Fresh, Original
<1>5. Received = Contents(c)[idx]
  BY <1>1, <1>3, <1>4, ReceivedIsHeld DEF Inv
<1>6. ASSUME NEW s \in Stripes
      PROVE  Done(s)' = IF s = idx THEN Done(s) \cup {c} ELSE Done(s)
  <2>1. /\ c \notin Done(s) \/ s # idx
        /\ \A d \in Others : (d \in Done(s)) <=> (d < c \/ (d = c /\ s < idx))
    BY <1>1, <1>2 DEF Done, Stripes, Others, DataDisks
  <2>2. Others' = Others
    BY <1>1 DEF Others
  <2>3. CASE idx + 1 < NumBlocks /\ idx' = idx + 1 /\ UNCHANGED <<phase, src>>
    BY <1>1, <1>2, <2>2, <2>3 DEF Done, Stripes, Others, DataDisks
  <2>4. CASE idx + 1 = NumBlocks /\ idx' = 0 /\ SourceFrom(src + 1)
    <3>1. ASSUME NEW d \in DataDisks, d # rdisk
          PROVE  (phase' = "RW" \/ d < src' \/ (d = src' /\ s < idx')) <=> d <= c
      BY <1>1, <1>2, <1>3, <2>4, <3>1 DEF SourceFrom, SkipSelf, DataDisks, Disks, Stripes
    <3>2. ASSUME NEW d \in DataDisks, d # rdisk
          PROVE  d <= c <=> (d < c \/ (d = c /\ (s < idx \/ s = idx)))
      BY <1>1, <1>3, <2>4 DEF DataDisks, Stripes
    <3>3. \A d \in Others : d \in Done(s)' <=>
             (d < c \/ (d = c /\ (s < idx \/ s = idx)))
      BY <2>2, <3>1, <3>2 DEF Done, Others
    <3>4. Done(s)' \subseteq Others /\ Done(s) \subseteq Others
      BY <2>2 DEF Done
    <3>5. QED
      BY <1>2, <2>1, <3>3, <3>4
  <2>5. QED
    BY <2>3, <2>4 DEF RecvSource
<1> SUFFICES ASSUME NEW s \in Stripes
             PROVE  rebuilt'[s] = XorAll(Done(s)', [d \in Disks |-> Contents(d)[s]]')
  BY DEF RebuiltAsDone
<1> DEFINE F == [e \in Disks |-> Contents(e)[s]]
           G == [e \in Disks |-> Contents(e)[s]]'
<1>7. rebuilt[s] = XorAll(Done(s), F)
  BY DEF RebuiltAsDone
<1>8. \A d \in Others : F[d] = G[d]
  BY DEF Others, DataDisks, Disks
<1>9. F[c] = Contents(c)[s] /\ F[c] \in Block
  BY <1>1, <1>3, ContentsType
<1>10. Done(s) \subseteq Others /\ IsFiniteSet(Done(s))
  BY DoneFinite DEF Done
<1>11. c \notin Done(idx)
  BY <1>1, <1>2 DEF Done, Stripes, Others, DataDisks
<1> HIDE DEF F, G
<1>12. Done(s)' \subseteq Others
  BY <1>2, <1>6, <1>10
<1>13. XorAll(Done(s)', F) = XorAll(Done(s)', G)
  BY <1>8, <1>12, XorAllAgree
<1>14. CASE s = idx
  <2>1. XorAll(Done(s) \cup {c}, F) = XorBlock(XorAll(Done(s), F), F[c])
    BY <1>9, <1>10, <1>11, <1>14, XorAllInsert
  <2>2. rebuilt'[s] = XorBlock(rebuilt[s], Received)
    BY <1>1, <1>14 DEF XorInto
  <2>3. QED
    BY <1>5, <1>6, <1>7, <1>9, <1>13, <1>14, <2>1, <2>2 DEF G
<1>15. CASE s # idx
  <2>1. rebuilt'[s] = rebuilt[s]
    BY <1>1, <1>15 DEF XorInto
  <2>2. QED
    BY <1>6, <1>7, <1>13, <1>15, <2>1 DEF G
<1>16. QED
  BY <1>14, <1>15

LEMMA RebuildStep ==
  ASSUME Inv, RebuildInv, [Next]_vars
  PROVE  RebuildInv'
<1> SUFFICES ASSUME phase' \in RestorePhases, \A d \in Others' : Fresh(d)'
             PROVE  RebuiltAsDone'
  BY DEF RebuildInv
<1>1. CASE RestartDisk
  BY <1>1, RestartRebuild DEF Inv
<1>2. ASSUME phase \in RestorePhases, rdisk' = rdisk, ~SendParity, ~SendData
      PROVE  RebuiltAsDone /\ \A d \in Others : Contents(d)' = Contents(d) /\ Fresh(d)
  <2>1. pc # "init"
    BY <1>2 DEF Inv, FramingInv, PhaseOK, RestorePhases
  <2>2. ASSUME NEW d \in Others
        PROVE  ContentsChange(d) /\ Fresh(d)
    <3>1. d \in Disks /\ Fresh(d)'
      BY <1>2 DEF Others, DataDisks, Disks
    <3>2. QED
      BY <2>1, <3>1, ContentsStep DEF Inv
  <2>3. QED
    BY <1>2, <2>2 DEF ContentsChange, RebuildInv
<1>3. ASSUME UNCHANGED <<phase, rdisk, src, idx, rebuilt>>, ~SendParity, ~SendData
      PROVE  RebuiltAsDone'
  BY <1>2, <1>3, RebuildKept
<1>4. CASE Command \/ Exit
  BY <1>4 DEF Command, Exit, ReadBlock, WriteBlock, SimulateFailure,
     CheckpointAndWait, Inv, FramingInv, PhaseOK, RestorePhases
<1>5. CASE UNCHANGED vars \/ \E e \in Disks : Disk(e)
  <2>1. UNCHANGED ctlVars
    BY <1>5 DEF vars, Disk
  <2>2. ~SendParity /\ ~SendData
    BY <2>1 DEF SendParity, SendData, Return, ctlVars
  <2>3. QED
    BY <1>3, <2>1, <2>2 DEF ctlVars, restoreVars
<1>6. CASE SendCmd \/ SendNum
  <2>1. ~SendParity /\ ~SendData /\ UNCHANGED <<phase, rdisk, src, idx, rebuilt>>
    BY <1>6 DEF SendCmd, SendNum, SendParity, SendData, restoreVars
  <2>2. QED
    BY <1>3, <2>1
<1>7. CASE SendFails \/ RecvFails
  <2>1. ~Return(Failed)
    BY DEF Return, RestorePhases
  <2>2. UNCHANGED <<phase, rdisk, src, idx, rebuilt>> /\ pc' = "gone"
    BY <1>7, <2>1 DEF SendFails, RecvFails, GiveUp, ParentExits, restoreVars
  <2>3. ~SendParity /\ ~SendData
    BY <2>2 DEF SendParity, SendData, Return
  <2>4. QED
    BY <1>3, <2>2, <2>3
<1>8. CASE RecvSource
  <2>1. phase \in RestorePhases /\ rdisk' = rdisk /\ ~SendParity /\ ~SendData
    BY <1>8 DEF RecvSource, SendParity, SendData, RestorePhases
  <2>2. QED
    BY <1>2, <1>8, <2>1, SourceTaken
<1>9. CASE SendRebuilt
  <2>1. phase = "RW" /\ caller \notin RestorePhases /\ ~SendParity /\ ~SendData
    BY <1>9 DEF SendRebuilt, SendParity, SendData, Inv, Typed, TypeOK, ControllerTypeOK,
       CommandPhases, RestorePhases
  <2>2. phase' = phase /\ rdisk' = rdisk /\ src' = src /\ rebuilt' = rebuilt
    BY <1>9, <2>1 DEF SendRebuilt
  <2>3. RebuiltAsDone /\ \A d \in Others : Contents(d)' = Contents(d)
    BY <1>2, <2>1, <2>2
  <2>4. ASSUME NEW s \in Stripes
        PROVE  rebuilt'[s] = XorAll(Done(s)', [d \in Disks |-> Contents(d)[s]]')
    <3> DEFINE F == [e \in Disks |-> Contents(e)[s]]
               G == [e \in Disks |-> Contents(e)[s]]'
    <3>1. Done(s)' = Others /\ Done(s) = Others
      BY <2>1, <2>2 DEF Done, Others
    <3>2. \A d \in Others : F[d] = G[d]
      BY <2>3 DEF Others, DataDisks, Disks
    <3>3. rebuilt[s] = XorAll(Done(s), F)
      BY <2>3 DEF RebuiltAsDone
    <3> HIDE DEF F, G
    <3>4. XorAll(Others, F) = XorAll(Others, G)
      BY <3>2, XorAllAgree
    <3>5. QED
      BY <2>2, <3>1, <3>3, <3>4 DEF G
  <2>5. QED
    BY <2>4 DEF RebuiltAsDone
<1>10. CASE FindDead \/ RestartFails
  BY <1>10 DEF FindDead, RestartFails, Inv, Typed, TypeOK, ControllerTypeOK, FramingInv,
     PhaseOK, CommandPhases, RestorePhases
<1>11. CASE RecvRead \/ RecvOldData \/ ParityAllocFails \/ RecvOldParity
              \/ SendParity \/ SendData
  BY <1>11 DEF RecvRead, RecvOldData, ParityAllocFails, RecvOldParity, SendParity,
     SendData, Return, RestorePhases
<1>12. CASE InitDisk \/ InitFails \/ SendExit \/ Wait
  BY <1>12 DEF InitDisk, InitFails, SendExit, Wait, Inv, FramingInv, PhaseOK,
     RestorePhases
<1>13. QED
  BY <1>1, <1>4, <1>5, <1>6, <1>7, <1>8, <1>9, <1>10, <1>11, <1>12
     DEF Next, Controlled, ControllerStep, Terminated

(* What restore_disk_process writes to the disk it has restarted is, in    *)
(* each stripe, the XOR of the other data disks, none of which has failed: *)
(* each of their blocks has been counted once.                             *)
THEOREM Rebuilding == Spec => []RebuiltFromOthers
<1>1. Init => Inv /\ RebuildInv
  BY InvInit, InitRebuild
<1>2. Inv /\ RebuildInv /\ [Next]_vars => Inv' /\ RebuildInv'
  BY InvStep, RebuildStep
<1>3. Inv /\ RebuildInv => RebuiltFromOthers
  <2> SUFFICES ASSUME RebuildInv, phase = "RW", \A d \in DataDisks \ {rdisk} : Sound(d),
                      NEW s \in Stripes
               PROVE  rebuilt[s] = XorAll(DataDisks \ {rdisk},
                                          [d \in Disks |-> Contents(d)[s]])
    BY DEF RebuiltFromOthers
  <2>1. \A d \in Others : Fresh(d)
    BY DEF Others, Sound, Fresh
  <2>2. Done(s) = DataDisks \ {rdisk}
    BY DEF Done, Others
  <2>3. QED
    BY <2>1, <2>2 DEF RebuildInv, RebuiltAsDone, RestorePhases
<1>4. QED
  BY <1>1, <1>2, <1>3, PTL DEF Spec

-----------------------------------------------------------------------------
(* What restore_disk_process writes to the disk it has restarted.          *)

(* The words q are whole writes, which begin behind the words counted in   *)
(* P, and behind the last of them, at e, the first c words of one more.    *)
Cut(q, P, e, c) ==
  /\ 0 \in P /\ e \in P /\ Len(q) = e + c
  /\ \A p \in P :
       /\ p <= e
       /\ p < e => p + BlockWords + 2 \in P
       /\ p < e \/ c >= 1 => q[p + 1] = CMD_WRITE
       /\ p < e \/ c >= 2 => \E s \in Stripes : q[p + 2] = IntWord(s)

Writes(q, c) == \E P \in SUBSET Nat, e \in Nat : Cut(q, P, e, c)

LEMMA NothingWritten == Writes(<<>>, 0)
<1>1. Len(<<>>) = 0 /\ 0 \in {0} /\ \A p \in {0} : p = 0
  OBVIOUS
<1>2. Cut(<<>>, {0}, 0, 0)
  BY <1>1 DEF Cut
<1>3. {0} \in SUBSET Nat /\ 0 \in Nat
  OBVIOUS
<1>4. QED
  BY <1>2, <1>3 DEF Writes

(* What is sent to a disk goes on where the words before it end. *)
LEMMA OneMore ==
  ASSUME NEW q \in Seq(Word), NEW w \in Word
  PROVE  /\ q \o One(w) \in Seq(Word) /\ Len(q \o One(w)) = Len(q) + 1
         /\ \A i \in 1..Len(q) : (q \o One(w))[i] = q[i]
         /\ (q \o One(w))[Len(q) + 1] = w
<1>1. PICK u \in Seq(Word) : u = One(w) /\ Len(u) = 1 /\ u[1] = w
  BY OneWord
<1>2. PICK n \in Nat : n = Len(q)
  OBVIOUS
<1>3. /\ q \o u \in Seq(Word) /\ Len(q \o u) = Len(q) + Len(u)
      /\ \A i \in 1..(Len(q) + Len(u)) :
           (q \o u)[i] = IF i <= Len(q) THEN q[i] ELSE u[i - Len(q)]
  BY ConcatProperties
<1>4. /\ \A i \in 1..n : (q \o u)[i] = q[i]
      /\ (q \o u)[n + 1] = u[1]
  <2>1. \A i \in 1..n : i \in 1..(n + 1) /\ i <= n
    OBVIOUS
  <2>2. n + 1 \in 1..(n + 1) /\ ~(n + 1 <= n) /\ n + 1 - n = 1
    OBVIOUS
  <2>3. QED
    BY <1>1, <1>2, <1>3, <2>1, <2>2
<1>5. QED
  BY <1>1, <1>2, <1>3, <1>4

LEMMA CommandWritten ==
  ASSUME NEW q \in Seq(Word), Writes(q, 0)
  PROVE  Writes(q \o One(CMD_WRITE), 1)
<1>1. PICK P \in SUBSET Nat, e \in Nat : Cut(q, P, e, 0)
  BY DEF Writes
<1>2. PICK n \in Nat : n = Len(q)
  OBVIOUS
<1>3. PICK r : r = q \o One(CMD_WRITE)
  OBVIOUS
<1>4. Len(r) = n + 1 /\ r[n + 1] = CMD_WRITE /\ \A i \in 1..n : r[i] = q[i]
  BY <1>2, <1>3, OneMore, Commands
<1>5. n = e /\ 0 \in P /\ e \in P
  BY <1>1, <1>2 DEF Cut
<1>6. ASSUME NEW p \in P
      PROVE  /\ p <= e
             /\ p < e => p + BlockWords + 2 \in P
             /\ r[p + 1] = CMD_WRITE
             /\ p < e => \E s \in Stripes : r[p + 2] = IntWord(s)
  <2>1. /\ p <= e /\ p \in Nat
        /\ p < e => /\ p + BlockWords + 2 \in P
                    /\ q[p + 1] = CMD_WRITE
                    /\ \E s \in Stripes : q[p + 2] = IntWord(s)
    BY <1>1, <1>6 DEF Cut
  <2>2. CASE p = e
    BY <1>4, <1>5, <2>2
  <2>3. CASE p < e
    <3>1. p + BlockWords + 2 \in P /\ BlockWords \in Nat
      BY <2>1, <2>3
    <3>2. p + BlockWords + 2 <= e
      BY <1>1, <3>1 DEF Cut
    <3>3. p + 1 \in 1..n /\ p + 2 \in 1..n
      BY <1>5, <2>1, <3>1, <3>2
    <3>4. QED
      BY <1>4, <2>1, <2>3, <3>3
  <2>4. QED
    BY <2>1, <2>2, <2>3
<1>7. Cut(r, P, e, 1)
  BY <1>4, <1>5, <1>6 DEF Cut
<1>8. QED
  BY <1>3, <1>7 DEF Writes

LEMMA NumberWritten ==
  ASSUME NEW q \in Seq(Word), Writes(q, 1), NEW s \in Stripes
  PROVE  Writes(q \o One(IntWord(s)), 2)
<1>1. PICK P \in SUBSET Nat, e \in Nat : Cut(q, P, e, 1)
  BY DEF Writes
<1>2. PICK n \in Nat : n = Len(q)
  OBVIOUS
<1>3. PICK r : r = q \o One(IntWord(s))
  OBVIOUS
<1>4. Len(r) = n + 1 /\ r[n + 1] = IntWord(s) /\ \A i \in 1..n : r[i] = q[i]
  <2>1. PICK w \in Word : w = IntWord(s)
    BY IntWordType
  <2>2. QED
    BY <1>2, <1>3, <2>1, OneMore
<1>5. n = e + 1 /\ 0 \in P /\ e \in P
  BY <1>1, <1>2 DEF Cut
<1>6. ASSUME NEW p \in P
      PROVE  /\ p <= e
             /\ p < e => p + BlockWords + 2 \in P
             /\ r[p + 1] = CMD_WRITE
             /\ \E t \in Stripes : r[p + 2] = IntWord(t)
  <2>1. /\ p <= e /\ p \in Nat
        /\ q[p + 1] = CMD_WRITE
        /\ p < e => /\ p + BlockWords + 2 \in P
                    /\ \E t \in Stripes : q[p + 2] = IntWord(t)
    BY <1>1, <1>6 DEF Cut
  <2>2. CASE p = e
    <3>1. p + 1 \in 1..n /\ p + 2 = n + 1
      BY <1>5, <2>1, <2>2
    <3>2. QED
      BY <1>4, <2>1, <2>2, <3>1
  <2>3. CASE p < e
    <3>1. p + BlockWords + 2 \in P /\ BlockWords \in Nat
      BY <2>1, <2>3
    <3>2. p + BlockWords + 2 <= e
      BY <1>1, <3>1 DEF Cut
    <3>3. p + 1 \in 1..n /\ p + 2 \in 1..n
      BY <1>5, <2>1, <3>1, <3>2
    <3>4. QED
      BY <1>4, <2>1, <2>3, <3>3
  <2>4. QED
    BY <2>1, <2>2, <2>3
<1>7. Len(r) = e + 2
  BY <1>4, <1>5
<1>8. Cut(r, P, e, 2)
  BY <1>5, <1>6, <1>7 DEF Cut
<1>9. QED
  BY <1>3, <1>8 DEF Writes

LEMMA BlockWritten ==
  ASSUME NEW q \in Seq(Word), Writes(q, 2), NEW b \in Block
  PROVE  Writes(q \o b, 0)
<1>1. PICK P \in SUBSET Nat, e \in Nat : Cut(q, P, e, 2)
  BY DEF Writes
<1>2. PICK n, k \in Nat : n = Len(q) /\ k = BlockWords
  OBVIOUS
<1>3. b \in Seq(Word) /\ Len(b) = k
  BY <1>2, BlockIsSeq
<1>4. PICK r : r = q \o b
  OBVIOUS
<1>5. Len(r) = n + k /\ \A i \in 1..n : r[i] = q[i]
  <2>1. Len(q \o b) = n + k
    BY <1>2, <1>3
  <2>2. \A i \in 1..n : (q \o b)[i] = q[i]
    BY <1>2, <1>3, <2>1
  <2>3. QED
    BY <1>4, <2>1, <2>2
<1>6. n = e + 2 /\ 0 \in P /\ e \in P
  BY <1>1, <1>2 DEF Cut
<1>7. PICK f \in Nat : f = e + k + 2
  BY <1>2
<1>8. PICK Q \in SUBSET Nat : Q = P \cup {f}
  OBVIOUS
<1>9. ASSUME NEW p \in P
      PROVE  /\ p < f
             /\ p + BlockWords + 2 \in Q
             /\ r[p + 1] = CMD_WRITE
             /\ \E t \in Stripes : r[p + 2] = IntWord(t)
  <2>1. /\ p <= e /\ p \in Nat
        /\ q[p + 1] = CMD_WRITE
        /\ p < e => p + BlockWords + 2 \in P
        /\ \E t \in Stripes : q[p + 2] = IntWord(t)
    BY <1>1, <1>9 DEF Cut
  <2>2. p + 1 \in 1..n /\ p + 2 \in 1..n /\ p < f
    BY <1>6, <1>7, <2>1
  <2>3. p + BlockWords + 2 \in Q
    BY <1>2, <1>7, <1>8, <2>1
  <2>4. QED
    BY <1>5, <2>1, <2>2, <2>3
<1>10. Len(r) = f + 0 /\ f \in Q /\ 0 \in Q /\ ~(f < f) /\ f <= f
  BY <1>5, <1>6, <1>7, <1>8
<1>11. Cut(r, Q, f, 0)
  <2>1. \A p \in Q : p \in P \/ p = f
    BY <1>8
  <2>2. QED
    BY <1>9, <1>10, <2>1 DEF Cut
<1>12. QED
  BY <1>4, <1>11 DEF Writes

(* Whoever reads such words finds a command that is a write, then the      *)
(* number of a stripe, and then a whole block or nothing.                  *)
LEMMA WriteAtFront ==
  ASSUME NEW q \in Seq(Word), NEW c \in 0..2, Writes(q, c)
  PROVE  /\ Len(q) >= 1 => q[1] = CMD_WRITE
         /\ Len(q) >= 3 =>
              Len(q) >= BlockWords + 2 /\ \E s \in Stripes : q[2] = IntWord(s)
<1>1. PICK P \in SUBSET Nat, e \in Nat : Cut(q, P, e, c)
  BY DEF Writes
<1>2. 0 \in P /\ Len(q) = e + c /\ 0 + 1 = 1 /\ 0 + 2 = 2
  BY <1>1 DEF Cut
<1>3. /\ 0 < e => 0 + BlockWords + 2 \in P
      /\ 0 < e \/ c >= 1 => q[0 + 1] = CMD_WRITE
      /\ 0 < e \/ c >= 2 => \E s \in Stripes : q[0 + 2] = IntWord(s)
  BY <1>1, <1>2 DEF Cut
<1>4. 0 < e => BlockWords + 2 <= e
  BY <1>1, <1>3 DEF Cut
<1>5. Len(q) >= 1 => 0 < e \/ c >= 1
  BY <1>2
<1>6. Len(q) >= 3 => 0 < e
  BY <1>2
<1>7. QED
  BY <1>2, <1>3, <1>4, <1>5, <1>6

LEMMA WritesBehind ==
  ASSUME NEW q \in Seq(Word), NEW c \in 0..2, Writes(q, c), Len(q) >= BlockWords + 2
  PROVE  Writes(Rest(q, BlockWords + 2), c)
<1>1. PICK P \in SUBSET Nat, e \in Nat : Cut(q, P, e, c)
  BY DEF Writes
<1>2. PICK n, w \in Nat : n = Len(q) /\ w = BlockWords + 2 /\ w >= 3
  OBVIOUS
<1>3. PICK r : r = Rest(q, w)
  OBVIOUS
<1>4. Len(r) = n - w /\ \A i \in 1..(n - w) : r[i] = q[i + w]
  BY <1>2, <1>3 DEF Rest
<1>5. n = e + c /\ 0 \in P /\ e \in P /\ 0 < e
  BY <1>1, <1>2 DEF Cut
<1>6. \A p \in P : p <= e /\ (p < e => p + w \in P)
  <2>1. ASSUME NEW p \in P PROVE p <= e /\ (p < e => p + w \in P)
    <3>1. p <= e /\ (p < e => p + BlockWords + 2 \in P) /\ p \in Nat
      BY <1>1 DEF Cut
    <3>2. p + BlockWords + 2 = p + w
      BY <1>2, <3>1
    <3>3. QED
      BY <3>1, <3>2
  <2>2. QED
    BY <2>1
<1>7. w \in P /\ w <= e
  <2>1. 0 + w = w
    BY <1>2
  <2>2. QED
    BY <1>5, <1>6, <2>1
<1>8. PICK Q \in SUBSET Nat : Q = {p \in Nat : p + w \in P}
  OBVIOUS
<1>9. PICK f \in Nat : f = e - w
  BY <1>7
<1>10. 0 \in Q /\ f \in Q /\ Len(r) = f + c
  BY <1>2, <1>4, <1>5, <1>7, <1>8, <1>9
<1>11. ASSUME NEW p \in Q
       PROVE  /\ p <= f
              /\ p < f => p + BlockWords + 2 \in Q
              /\ p < f \/ c >= 1 => r[p + 1] = CMD_WRITE
              /\ p < f \/ c >= 2 => \E s \in Stripes : r[p + 2] = IntWord(s)
  <2>1. PICK o \in P : o = p + w /\ p \in Nat
    BY <1>8
  <2>2. /\ o <= e
        /\ o < e => o + w \in P
        /\ o < e \/ c >= 1 => q[o + 1] = CMD_WRITE
        /\ o < e \/ c >= 2 => \E s \in Stripes : q[o + 2] = IntWord(s)
    BY <1>1, <1>6 DEF Cut
  <2>3. p <= f /\ (p < f <=> o < e)
    BY <1>9, <2>1, <2>2
  <2>4. p < f => p + BlockWords + 2 \in Q
    <3>1. (p + BlockWords + 2) + w = o + w /\ p + BlockWords + 2 \in Nat
      BY <1>2, <2>1
    <3>2. QED
      BY <1>8, <2>2, <2>3, <3>1
  <2>5. p < f => p + w <= f
    BY <1>6, <1>9, <2>1, <2>2, <2>3
  <2>6. p < f \/ c >= 1 => p + 1 \in 1..(n - w)
    BY <1>2, <1>5, <1>9, <2>1, <2>3, <2>5
  <2>7. p < f \/ c >= 2 => p + 2 \in 1..(n - w)
    BY <1>2, <1>5, <1>9, <2>1, <2>3, <2>5
  <2>8. (p + 1) + w = o + 1 /\ (p + 2) + w = o + 2
    BY <2>1
  <2>9. ASSUME NEW i, i \in 1..(n - w) PROVE r[i] = q[i + w]
    BY <1>4, <2>9
  <2>10. /\ p < f \/ c >= 1 => r[p + 1] = q[o + 1]
         /\ p < f \/ c >= 2 => r[p + 2] = q[o + 2]
    <3>1. p < f \/ c >= 1 => r[p + 1] = q[(p + 1) + w]
      BY <2>6, <2>9
    <3>2. p < f \/ c >= 2 => r[p + 2] = q[(p + 2) + w]
      BY <2>7, <2>9
    <3>3. QED
      BY <2>8, <3>1, <3>2
  <2>11. QED
    BY <2>2, <2>3, <2>4, <2>10
<1>12. Cut(r, Q, f, c)
  BY <1>10, <1>11 DEF Cut
<1>13. QED
  BY <1>2, <1>3, <1>12 DEF Writes

(* Disk d has not been told to fail, and has c words of a write before it, *)
(* behind any number of whole ones.                                        *)
OnlyWrites(d, c) ==
  /\ ~sigint[d] /\ dpc[d] \in {"cmd", "wnum", "wdata"}
  /\ Writes(Request(d), c)

LEMMA OnlyWritesKept ==
  ASSUME NEW d \in Disks, NEW c \in 0..2, OnlyWrites(d, c), Untouched(d),
         sigint'[d] = sigint[d]
  PROVE  OnlyWrites(d, c)'
<1>1. Request(d)' = Request(d)
  BY DEF Request, At, Untouched
<1>2. QED
  BY <1>1 DEF OnlyWrites, Untouched

LEMMA OnlyWritesSent ==
  ASSUME DiskTypeOK, NEW d \in Disks, NEW b \in 0..2, OnlyWrites(d, b),
         NEW u \in Seq(Word), Send(d, u),
         NEW c \in 0..2, Writes(Request(d) \o u, c)
  PROVE  OnlyWrites(d, c)'
<1>1. Request(d)' = Request(d) \o u
  BY SentRequest DEF OnlyWrites
<1>2. dpc' = dpc /\ sigint' = sigint
  BY DEF Send
<1>3. QED
  BY <1>1, <1>2 DEF OnlyWrites

(* The words behind a command and a number. *)
LEMMA RestBehindTwo ==
  ASSUME NEW v \in Word, NEW w \in Word, NEW q \in Seq(Word), Len(q) >= BlockWords
  PROVE  /\ Len(Two(v, w) \o q) = Len(q) + 2
         /\ (Two(v, w) \o q)[2] = w
         /\ Rest(Two(v, w) \o q, BlockWords + 2) = Rest(q, BlockWords)
<1>1. PICK t \in Seq(Word) : t = Two(v, w) /\ Len(t) = 2 /\ t[2] = w
  BY TwoWords DEF Two
<1>2. PICK n, k \in Nat : n = Len(q) /\ k = BlockWords /\ k <= n
  OBVIOUS
<1>3. /\ t \o q \in Seq(Word) /\ Len(t \o q) = n + 2
      /\ \A i \in 1..(n + 2) : (t \o q)[i] = IF i <= 2 THEN t[i] ELSE q[i - 2]
  <2>1. /\ t \o q \in Seq(Word) /\ Len(t \o q) = Len(t) + Len(q)
        /\ \A i \in 1..(Len(t) + Len(q)) :
             (t \o q)[i] = IF i <= Len(t) THEN t[i] ELSE q[i - Len(t)]
    BY ConcatProperties
  <2>2. Len(t) = 2 /\ Len(q) = n /\ 2 + n = n + 2
    BY <1>1, <1>2
  <2>3. QED
    BY <2>1, <2>2
<1>4. PICK r \in Seq(Word) : r = t \o q
  BY <1>3
<1>5. /\ Len(r) = n + 2
      /\ \A i \in 1..(n + 2) : r[i] = IF i <= 2 THEN t[i] ELSE q[i - 2]
  BY <1>3, <1>4
<1>6. Rest(r, k + 2) = Rest(q, k)
  <2>1. /\ Rest(r, k + 2) \in Seq(Word) /\ Len(Rest(r, k + 2)) = n - k
        /\ \A i \in 1..(n - k) : Rest(r, k + 2)[i] = r[i + k + 2]
    BY <1>2, <1>5 DEF Rest
  <2>2. /\ Rest(q, k) \in Seq(Word) /\ Len(Rest(q, k)) = n - k
        /\ \A i \in 1..(n - k) : Rest(q, k)[i] = q[i + k]
    BY <1>2 DEF Rest
  <2>3. \A i \in 1..(n - k) : r[i + k + 2] = q[i + k]
    <3>1. \A i \in 1..(n - k) : /\ i + k + 2 \in 1..(n + 2) /\ ~(i + k + 2 <= 2)
                                /\ i + k + 2 - 2 = i + k
      BY <1>2
    <3>2. QED
      BY <1>5, <3>1
  <2>4. QED
    <3>1. PICK a \in Seq(Word) : a = Rest(r, k + 2)
      BY <2>1
    <3>2. PICK b \in Seq(Word) : b = Rest(q, k)
      BY <2>2
    <3>3. Len(a) = n - k /\ Len(b) = n - k /\ \A i \in 1..(n - k) : a[i] = b[i]
      BY <2>1, <2>2, <2>3, <3>1, <3>2
    <3>4. a = b
      BY <3>3, SeqEqual
    <3>5. QED
      BY <3>1, <3>2, <3>4
<1>7. QED
  BY <1>1, <1>2, <1>3, <1>4, <1>6

(* A disk that waits for a command, a number or a whole block of its own   *)
(* does not fail as long as the controller is there.                       *)
LEMMA StandsFirm ==
  ASSUME NEW d \in Disks, parentUp, dpc[d] \in {"cmd", "wnum", "wdata"},
         toDisk[d] \in Seq(Word),
         At(d, "wdata") =>
           Len(toDisk[d]) = 0 \/ (Len(toDisk[d]) >= BlockWords /\ ~OutOfArray(d))
  PROVE  ~FailDisk(d) /\ ~Segfault(d)
<1>1. PICK n, k \in Nat : n = Len(toDisk[d]) /\ k = BlockWords /\ k >= 1
  OBVIOUS
<1>2. Attached(d) = TRUE
  BY DEF Attached
<1>3. ~ShortRead(toDisk[d], 1, TRUE)
  BY <1>1 DEF ShortRead
<1>4. At(d, "wdata") => ~ShortRead(toDisk[d], BlockWords, TRUE)
  BY <1>1 DEF ShortRead
<1>5. ~FailDisk(d)
  BY <1>2, <1>3, <1>4 DEF FailDisk, At
<1>6. At(d, "wdata") /\ Len(toDisk[d]) >= BlockWords => ~OutOfArray(d)
  BY <1>1
<1>7. ~Segfault(d)
  BY <1>6 DEF Segfault, At
<1>8. QED
  BY <1>5, <1>7

(* A disk that is sent nothing but writes reads nothing else; it does not  *)
(* fail as long as the controller is there.                                *)
LEMMA OnlyWritesRead ==
  ASSUME DiskTypeOK, NEW d \in Disks, NEW c \in 0..2, OnlyWrites(d, c),
         DiskStep(d), parentUp
  PROVE  OnlyWrites(d, c)'
<1> DEFINE t == toDisk[d]
           q == Request(d)
<1>1. /\ t \in Seq(Word) /\ q \in Seq(Word) /\ dnum[d] \in Word /\ CMD_WRITE \in Word
      /\ Writes(q, c) /\ ~sigint[d]
  BY RequestType, Commands DEF DiskTypeOK, OnlyWrites
<1>2. /\ Len(q) >= 1 => q[1] = CMD_WRITE
      /\ Len(q) >= 3 => Len(q) >= BlockWords + 2 /\ \E s \in Stripes : q[2] = IntWord(s)
  BY <1>1, WriteAtFront
<1>3. At(d, "cmd") => q = t
  BY RequestAt
<1>4. At(d, "wdata") => q = Two(CMD_WRITE, dnum[d]) \o t
  BY RequestAt
<1>5. ASSUME At(d, "wdata"), Len(t) >= 1
      PROVE  /\ Len(t) >= BlockWords /\ ~OutOfArray(d)
             /\ Rest(q, BlockWords + 2) = Rest(t, BlockWords)
  <2>1. q = Two(CMD_WRITE, dnum[d]) \o t
    BY <1>4, <1>5
  <2>2. PICK p \in Seq(Word) : p = Two(CMD_WRITE, dnum[d]) /\ Len(p) = 2 /\ p[2] = dnum[d]
    BY <1>1, TwoWords DEF Two
  <2> HIDE DEF t, q
  <2>3. Len(q) = Len(t) + 2 /\ q[2] = dnum[d]
    BY <1>1, <2>1, <2>2
  <2>4. Len(t) >= BlockWords /\ \E s \in Stripes : dnum[d] = IntWord(s)
    BY <1>1, <1>2, <1>5, <2>3
  <2>5. ~OutOfArray(d)
    BY <2>4 DEF OutOfArray, InArray
  <2>6. QED
    BY <1>1, <2>1, <2>4, <2>5, RestBehindTwo
<1>6. ~Killed(d) /\ ~FailDisk(d) /\ ~Segfault(d)
  <2>1. Attached(d)
    BY DEF Attached
  <2>2. Len(t) \in Nat /\ BlockWords \in Nat \ {0}
    BY <1>1
  <2>3. At(d, "wdata") => Len(t) = 0 \/ (Len(t) >= BlockWords /\ ~OutOfArray(d))
    BY <1>5, <2>2
  <2>4. ~FailDisk(d) /\ ~Segfault(d)
    BY <1>1, <2>3, StandsFirm DEF OnlyWrites
  <2>5. QED
    BY <1>1, <2>4 DEF Killed
<1>7. CASE ReadCmd(d)
  <2>1. At(d, "cmd") /\ Len(t) >= 1 /\ t = q /\ t[1] = CMD_WRITE
    BY <1>2, <1>3, <1>7 DEF ReadCmd
  <2>2. dpc'[d] = "wnum" /\ toDisk'[d] = Rest(t, 1) /\ sigint' = sigint
    BY <1>7, <2>1, Commands DEF ReadCmd, Goto, DiskTypeOK
  <2>3. Request(d)' = InFront(CMD_WRITE, Rest(t, 1))
    BY <2>2 DEF Request, At, InFront
  <2>4. Request(d)' = q
    BY <1>1, <2>1, <2>3, PutBack
  <2>5. QED
    BY <1>1, <2>2, <2>4 DEF OnlyWrites
<1>8. CASE ReadNum(d)
  <2>1. At(d, "wnum") /\ Len(t) >= 1
    BY <1>8 DEF ReadNum, OnlyWrites, At
  <2>2. /\ dpc'[d] = "wdata" /\ toDisk'[d] = Rest(t, 1) /\ sigint' = sigint
        /\ dnum'[d] = t[1]
    BY <1>8, <2>1 DEF ReadNum, Goto, DiskTypeOK, At
  <2>3. Request(d)' = Two(CMD_WRITE, t[1]) \o Rest(t, 1)
    BY <2>2 DEF Request, At, Two
  <2>4. t[1] \in Word /\ Rest(t, 1) \in Seq(Word)
    <3>1. PICK p \in Seq(Word) : p = t /\ Len(p) >= 1
      BY <1>1, <2>1
    <3>2. p[1] \in Word
      BY <3>1
    <3>3. Rest(p, 1) \in Seq(Word)
      BY RestOfPipe
    <3>4. QED
      BY <3>1, <3>2, <3>3
  <2>5. Two(CMD_WRITE, t[1]) \o Rest(t, 1) = InFront(CMD_WRITE, InFront(t[1], Rest(t, 1)))
    BY <1>1, <2>4, TwoInFront
  <2>6. InFront(t[1], Rest(t, 1)) = t
    BY <1>1, <2>1, PutBack
  <2>7. Request(d)' = q
    BY <2>1, <2>3, <2>5, <2>6, RequestAt
  <2>8. QED
    BY <1>1, <2>2, <2>7 DEF OnlyWrites
<1>9. CASE StoreBlock(d)
  <2>1. At(d, "wdata") /\ Len(t) >= BlockWords
    BY <1>9 DEF StoreBlock
  <2>2. dpc'[d] = "cmd" /\ toDisk'[d] = Rest(t, BlockWords) /\ sigint' = sigint
    BY <1>9 DEF StoreBlock, Goto, DiskTypeOK
  <2>3. Request(d)' = Rest(t, BlockWords)
    BY <2>2 DEF Request, At
  <2>4. q = Two(CMD_WRITE, dnum[d]) \o t
    BY <1>4, <2>1
  <2>5. Len(q) = Len(t) + 2 /\ Rest(q, BlockWords + 2) = Rest(t, BlockWords)
    <3> HIDE DEF t, q
    <3>1. QED
      BY <1>1, <2>1, <2>4, RestBehindTwo
  <2>6. Len(q) >= BlockWords + 2
    BY <1>1, <2>1, <2>5
  <2>7. Writes(Rest(q, BlockWords + 2), c)
    <3> HIDE DEF t, q
    <3>1. QED
      BY <1>1, <2>6, WritesBehind
  <2>8. Writes(Request(d)', c)
    BY <2>3, <2>5, <2>7
  <2>9. QED
    BY <1>1, <2>2, <2>8 DEF OnlyWrites
<1>10. ~Reply(d) /\ ~OpenCheckpoint(d) /\ ~SaveCheckpoint(d) /\ ~FailCheckpoint(d)
  BY DEF Reply, OpenCheckpoint, SaveCheckpoint, FailCheckpoint, OnlyWrites, At
<1>11. QED
  BY <1>6, <1>7, <1>8, <1>9, <1>10 DEF DiskStep

-----------------------------------------------------------------------------
(* The restarted disk does not get lost.                                   *)

(* How much of a write the disk that is being rebuilt has been sent. *)
Begun ==
  CASE phase = "RW" /\ pc = "num" -> 1
    [] phase = "RW" /\ pc = "data" -> 2
    [] OTHER -> 0

(* A signal finds a running disk; the controller is there to its end; the  *)
(* disk that is being rebuilt is sent nothing but writes.                  *)
SignalOK == \A d \in Disks : sigint[d] => Alive(d)
ParentOK == pc # "gone" => parentUp
RebornOK == phase \in RestorePhases /\ pc # "gone" => OnlyWrites(rdisk, Begun)

RebornInv == SignalOK /\ ParentOK /\ RebornOK

LEMMA InitReborn == Init => RebornInv
BY DEF Init, DiskInit, ControllerInit, RebornInv, SignalOK, ParentOK, RebornOK,
   RestorePhases

LEMMA SignalStep ==
  ASSUME Typed, SignalOK, [Next]_vars
  PROVE  SignalOK'
<1> USE DEF DiskTypeOK, SignalOK
<1>0. DiskTypeOK /\ rdisk \in Disks /\ (pc = "init" => idx \in Disks)
  BY DEF Typed, TypeOK, ControllerTypeOK, LoopOK
<1>1. ASSUME NEW k \in Killable, SimulateFailure(k)
      PROVE  SignalOK'
  <2>1. k \in Disks
    OBVIOUS
  <2>2. dpc' = dpc /\ \A d \in Disks : sigint'[d] => sigint[d] \/ Alive(d)
    BY <1>0, <1>1, <2>1 DEF SimulateFailure
  <2>3. QED
    BY <1>0, <2>2 DEF Alive
<1>2. CASE (\E d \in Disks : sigint' = sigint /\ dpc' = [dpc EXCEPT ![d] = "cmd"])
  BY <1>0, <1>2 DEF Alive
<1>3. CASE UNCHANGED <<dpc, sigint>>
  BY <1>0, <1>3 DEF Alive
<1>4. CASE Command
  BY <1>0, <1>1, <1>3, <1>4 DEF Command, ReadBlock, WriteBlock, diskVars
<1>5. CASE Exit \/ UNCHANGED vars
  BY <1>0, <1>3, <1>5 DEF Exit, CheckpointAndWait, vars, diskVars
<1>6. ASSUME NEW e \in Disks, DiskStep(e)
      PROVE  SignalOK'
  <2>1. \A d \in Disks : d # e => dpc'[d] = dpc[d] /\ sigint'[d] = sigint[d]
    BY <1>0, <1>6 DEF DiskStep, ReadCmd, ReadNum, Reply, StoreBlock, OpenCheckpoint,
       Segfault, FailDisk, SaveCheckpoint, FailCheckpoint, Killed, Terminate, Goto
  <2>2. sigint'[e] => Alive(e)'
    <3>1. CASE Terminate(e)
      BY <1>0, <3>1 DEF Terminate
    <3>2. CASE ReadCmd(e) \/ ReadNum(e) \/ Reply(e) \/ StoreBlock(e) \/ OpenCheckpoint(e)
      BY <1>0, <3>2 DEF ReadCmd, ReadNum, Reply, StoreBlock, OpenCheckpoint, Goto,
         At, Alive
    <3>3. QED
      BY <1>0, <1>6, <3>1, <3>2 DEF DiskStep, Segfault, FailDisk, SaveCheckpoint,
         FailCheckpoint, Killed
  <2>3. QED
    BY <1>0, <2>1, <2>2 DEF Alive
<1>7. CASE ControllerStep
  <2>1. CASE InitDisk
    BY <1>0, <1>2, <1>7, <2>1 DEF InitDisk, Spawn
  <2>2. CASE RestartDisk \/ RestartFails
    BY <1>0, <1>2, <1>3, <1>7, <2>2 DEF RestartDisk, RestartFails, NewIncarnation, Spawn
  <2>3. CASE \/ SendCmd \/ SendNum \/ SendParity \/ SendData \/ SendRebuilt \/ SendExit
    BY <1>0, <1>3, <2>3 DEF SendCmd, SendNum, SendParity, SendData, SendRebuilt, SendExit,
       Send, diskVars
  <2>4. CASE InitFails \/ FindDead \/ SendFails \/ RecvFails \/ Wait
    BY <1>0, <1>3, <2>4 DEF InitFails, FindDead, SendFails, RecvFails, Wait, diskVars
  <2>5. CASE \/ RecvRead \/ RecvOldData \/ ParityAllocFails \/ RecvOldParity
             \/ RecvSource
    BY <1>0, <1>3, <2>5 DEF RecvRead, RecvOldData, ParityAllocFails, RecvOldParity,
       RecvSource, TakeBlock
  <2>6. QED
    BY <1>0, <1>7, <2>1, <2>2, <2>3, <2>4, <2>5 DEF ControllerStep
<1>8. QED
  BY <1>0, <1>3, <1>4, <1>5, <1>6, <1>7 DEF Next, Controlled, Disk, Terminated

(* Once the controller is gone only disks do anything. *)
LEMMA GoneIsGone ==
  ASSUME [Next]_vars, pc = "gone"
  PROVE  /\ UNCHANGED ctlVars
         /\ (\E e \in Disks : DiskStep(e)) \/ UNCHANGED diskVars
<1>1. ~Command /\ ~Exit /\ ~Controlled
  <2>1. ~SendExit /\ ~Wait
    BY DEF SendExit, Wait
  <2>2. QED
    BY <2>1, AtTheEnd DEF Controlled
<1>2. CASE \E e \in Disks : Disk(e)
  BY <1>2 DEF Disk
<1>3. CASE UNCHANGED vars
  BY <1>3 DEF vars
<1>4. QED
  BY <1>1, <1>2, <1>3 DEF Next, Terminated

(* How the controller comes to an end. *)
LEMMA Ends ==
  ASSUME ControllerStep \/ Command \/ Exit, pc # "gone"
  PROVE  /\ pc' # "gone" => UNCHANGED parentUp
         /\ pc' = "gone" =>
              \/ Wait \/ Faults
              \/ /\ SendFails \/ RecvFails
                 /\ phase \in RestorePhases
                 /\ UNCHANGED <<dpc, fileState, gen, phase, rdisk>>
<1>1. CASE Command \/ Exit
  BY <1>1 DEF Command, Exit, ReadBlock, WriteBlock, SimulateFailure,
     CheckpointAndWait, diskVars
<1>2. CASE InitDisk \/ InitFails \/ RestartDisk \/ RestartFails
  BY <1>2 DEF InitDisk, InitFails, RestartDisk, RestartFails, ParentExits
<1>3. CASE \/ SendCmd \/ SendNum \/ SendParity \/ SendData \/ SendRebuilt \/ SendExit
  BY <1>3 DEF SendCmd, SendNum, SendParity, SendData, SendRebuilt, SendExit, Send,
     Return, diskVars
<1>4. CASE FindDead
  BY <1>4 DEF FindDead, diskVars
<1>5. CASE Wait
  BY <1>5 DEF Wait, ParentExits
<1>6. CASE SendFails \/ RecvFails
  <2>1. CASE phase \in CommandPhases /\ Return(Failed) /\ UNCHANGED parentUp
    BY <2>1 DEF Return
  <2>2. CASE /\ phase \in RestorePhases /\ ParentExits
             /\ UNCHANGED <<phase, blk, data, writeVars, restoreVars, idx, pid, out>>
    BY <1>6, <2>2 DEF ParentExits, SendFails, RecvFails, restoreVars, fileVars
  <2>3. QED
    BY <1>6, <2>1, <2>2 DEF SendFails, RecvFails, GiveUp
<1>7. CASE \/ RecvRead \/ RecvOldData \/ ParityAllocFails \/ RecvOldParity
           \/ RecvSource
  BY <1>7 DEF RecvRead, RecvOldData, ParityAllocFails, RecvOldParity, RecvSource,
     TakeBlock, Return
<1>8. QED
  BY <1>1, <1>2, <1>3, <1>4, <1>5, <1>6, <1>7 DEF ControllerStep

LEMMA ParentStep ==
  ASSUME ParentOK, [Next]_vars
  PROVE  ParentOK'
<1>1. CASE pc = "gone"
  BY <1>1, GoneIsGone DEF ParentOK, ctlVars
<1>2. CASE pc # "gone" /\ (ControllerStep \/ Command \/ Exit)
  BY <1>2, Ends DEF ParentOK
<1>3. ASSUME NEW e \in Disks, DiskStep(e)
      PROVE  UNCHANGED parentUp
  BY <1>3 DEF DiskStep, ReadCmd, ReadNum, Reply, StoreBlock, OpenCheckpoint,
     Segfault, FailDisk, SaveCheckpoint, FailCheckpoint, Killed
<1>4. CASE \E e \in Disks : Disk(e)
  BY <1>3, <1>4 DEF Disk, ParentOK, ctlVars
<1>5. CASE UNCHANGED vars
  BY <1>5 DEF vars, ctlVars, diskVars, ParentOK
<1>6. QED
  BY <1>1, <1>2, <1>4, <1>5 DEF Next, Controlled, Terminated

(* The steps of restore_disk_process that send to the restarted disk.      *)
LEMMA RestartReborn ==
  ASSUME Typed, PhaseOK, SignalOK, RestartDisk
  PROVE  RebornOK'
<1>1. /\ rdisk \in Disks /\ ~sigint[rdisk] /\ pc' = "cmd" /\ DiskTypeOK
      /\ rdisk' = rdisk /\ sigint' = sigint
  BY DEF Typed, TypeOK, ControllerTypeOK, PhaseOK, SignalOK, RestartDisk,
     NewIncarnation, Spawn
<1>2. dpc'[rdisk] = "cmd" /\ toDisk'[rdisk] = <<>>
  BY <1>1 DEF RestartDisk, NewIncarnation, Spawn, DiskTypeOK
<1>3. Request(rdisk)' = <<>>
  BY <1>1, <1>2 DEF Request, At
<1>4. Begun' = 0
  BY <1>1 DEF Begun
<1>5. QED
  BY <1>1, <1>2, <1>3, <1>4, NothingWritten DEF RebornOK, OnlyWrites

LEMMA SendReborn ==
  ASSUME Typed, PhaseOK, RebornOK, SendCmd \/ SendNum \/ SendRebuilt,
         phase \in RestorePhases
  PROVE  RebornOK'
<1>1. PICK d \in Disks : d = rdisk
  BY DEF Typed, TypeOK, ControllerTypeOK
<1>2. DiskTypeOK /\ pc \in {"cmd", "num", "data"} /\ rdisk' = rdisk
  BY DEF Typed, TypeOK, SendCmd, SendNum, SendRebuilt, restoreVars
<1>3. OnlyWrites(d, Begun)
  BY <1>1, <1>2 DEF RebornOK
<1>4. Request(d) \in Seq(Word) /\ One(CMD_WRITE) \in Seq(Word)
        /\ \A s \in Stripes : One(IntWord(s)) \in Seq(Word)
  BY <1>2, RequestType, OneWord, Commands, IntWordType
<1>5. CASE phase = "RR"
  <2>1. /\ phase' = "RR" /\ Target # d /\ Target \in Disks
        /\ \E u \in Seq(Word) : Send(Target, u)
    <3>1. SendCmd \/ SendNum
      BY <1>5 DEF SendRebuilt
    <3>2. Target # d /\ Target \in Disks
      BY <1>1, <1>5 DEF Target, PhaseOK, DataDisks, Disks
    <3>3. \A w : One(IntWord(w)) \in Seq(Word)
      BY OneWord, IntWordType
    <3>4. \E u \in Seq(Word) : Send(Target, u)
      BY <3>1, <3>3 DEF SendCmd, SendNum, One, CMD_READ, CMD_WRITE
    <3>5. QED
      BY <1>5, <3>1, <3>2, <3>4 DEF SendCmd, SendNum
  <2>2. Untouched(d) /\ sigint' = sigint
    BY <1>2, <2>1, SendAppends DEF Untouched
  <2>3. Begun = 0 /\ Begun' = 0
    BY <1>5, <2>1 DEF Begun
  <2>4. OnlyWrites(d, 0)'
    BY <1>3, <2>2, <2>3, OnlyWritesKept
  <2>5. QED
    BY <1>1, <1>2, <2>3, <2>4 DEF RebornOK
<1>6. CASE SendCmd /\ phase = "RW"
  <2>1. /\ Send(d, One(CMD_WRITE)) /\ Begun = 0 /\ Begun' = 1
    BY <1>1, <1>6 DEF SendCmd, Target, One, ReadPhases, Begun
  <2>2. Writes(Request(d) \o One(CMD_WRITE), 1)
    BY <1>3, <1>4, <2>1, CommandWritten DEF OnlyWrites
  <2>3. OnlyWrites(d, 1)'
    BY <1>2, <1>3, <1>4, <2>1, <2>2, OnlyWritesSent
  <2>4. QED
    BY <1>1, <1>2, <2>1, <2>3 DEF RebornOK
<1>7. CASE SendNum /\ phase = "RW"
  <2>1. PICK s \in Stripes : s = Stripe
    BY StripeType
  <2>2. /\ Send(d, One(IntWord(s))) /\ Begun = 1 /\ Begun' = 2
    BY <1>1, <1>7, <2>1 DEF SendNum, Target, One, ReadPhases, Begun
  <2>3. Writes(Request(d) \o One(IntWord(s)), 2)
    BY <1>3, <1>4, <2>2, NumberWritten DEF OnlyWrites
  <2>4. OnlyWrites(d, 2)'
    BY <1>2, <1>3, <1>4, <2>2, <2>3, OnlyWritesSent
  <2>5. QED
    BY <1>1, <1>2, <2>2, <2>4 DEF RebornOK
<1>8. CASE SendRebuilt
  <2>1. PICK b \in Block : b = rebuilt[idx]
    BY <1>8 DEF Typed, TypeOK, ControllerTypeOK, LoopOK, SendRebuilt, RestorePhases
  <2>2. Send(d, b) /\ Begun = 2 /\ b \in Seq(Word) /\ pc' \in {"cmd", "num"}
    BY <1>1, <1>8, <2>1, BlockIsSeq DEF SendRebuilt, Begun
  <2>3. Writes(Request(d) \o b, 0)
    BY <1>3, <1>4, <2>2, BlockWritten DEF OnlyWrites
  <2>4. OnlyWrites(d, 0)'
    BY <1>2, <1>3, <2>2, <2>3, OnlyWritesSent
  <2>5. phase' \in RestorePhases => Begun' = 0
    BY <1>8 DEF SendRebuilt, Begun, Typed, TypeOK, ControllerTypeOK, CommandPhases,
       RestorePhases
  <2>6. QED
    BY <1>1, <1>2, <2>4, <2>5 DEF RebornOK
<1>9. QED
  BY <1>5, <1>6, <1>7, <1>8 DEF RestorePhases

LEMMA SourceReborn ==
  ASSUME Typed, PhaseOK, RebornOK, RecvSource
  PROVE  RebornOK'
<1>1. PICK d \in Disks : d = rdisk
  BY DEF Typed, TypeOK, ControllerTypeOK
<1>2. /\ DiskTypeOK /\ pc = "recv" /\ pc' = "cmd" /\ phase = "RR" /\ rdisk' = rdisk
      /\ Target # d
  BY <1>1 DEF Typed, TypeOK, RecvSource, TakeBlock, PhaseOK, Target
<1>3. Untouched(d) /\ sigint' = sigint
  BY <1>2 DEF RecvSource, TakeBlock, Untouched, DiskTypeOK
<1>4. OnlyWrites(d, 0)
  BY <1>1, <1>2 DEF RebornOK, Begun, RestorePhases
<1>5. OnlyWrites(d, 0)'
  BY <1>3, <1>4, OnlyWritesKept
<1>6. Begun' = 0
  BY <1>2 DEF Begun
<1>7. QED
  BY <1>1, <1>2, <1>5, <1>6 DEF RebornOK

LEMMA DiskReborn ==
  ASSUME Typed, ParentOK, RebornOK, NEW e \in Disks, Disk(e)
  PROVE  RebornOK'
<1> SUFFICES ASSUME phase \in RestorePhases, pc # "gone"
             PROVE  OnlyWrites(rdisk, Begun)'
  BY DEF RebornOK, Disk, ctlVars
<1>1. PICK d \in Disks : d = rdisk
  BY DEF Typed, TypeOK, ControllerTypeOK
<1>2. PICK c \in 0..2 : c = Begun
  BY DEF Begun
<1>3. OnlyWrites(d, c) /\ parentUp /\ DiskTypeOK /\ DiskStep(e)
  BY <1>1, <1>2 DEF RebornOK, ParentOK, Typed, TypeOK, Disk
<1>4. OnlyWrites(d, c)'
  <2>1. CASE e = d
    BY <1>3, <2>1, OnlyWritesRead
  <2>2. CASE e # d
    <3>1. Untouched(d)
      BY <1>3, <2>2, OtherDisk
    <3>2. sigint'[d] = sigint[d]
      BY <1>3, <2>2 DEF DiskTypeOK, DiskStep, ReadCmd, ReadNum, Reply, StoreBlock,
         OpenCheckpoint, Segfault, FailDisk, SaveCheckpoint, FailCheckpoint, Killed,
         Terminate
    <3>3. QED
      BY <1>3, <3>1, <3>2, OnlyWritesKept
  <2>3. QED
    BY <2>1, <2>2
<1>5. rdisk' = rdisk /\ Begun' = Begun
  BY DEF Disk, ctlVars, Begun
<1>6. QED
  BY <1>1, <1>2, <1>4, <1>5

(* All other steps are taken for nobody that is being rebuilt. *)
LEMMA OthersReborn ==
  ASSUME Typed, PhaseOK, ControllerStep \/ Command \/ Exit,
         ~RestartDisk, ~RecvSource,
         ~((SendCmd \/ SendNum \/ SendRebuilt) /\ phase \in RestorePhases)
  PROVE  RebornOK'
<1> SUFFICES ASSUME phase' \in RestorePhases, pc' # "gone"
             PROVE  FALSE
  BY DEF RebornOK
<1> USE DEF RestorePhases, PhaseOK, ReadPhases, CommandPhases
<1>1. CASE Command \/ Exit
  BY <1>1 DEF Command, Exit, ReadBlock, WriteBlock, SimulateFailure,
     CheckpointAndWait
<1>2. CASE InitDisk \/ InitFails \/ RestartFails
  BY <1>2 DEF InitDisk, InitFails, RestartFails, ParentExits
<1>3. CASE SendCmd \/ SendNum \/ SendParity \/ SendData \/ SendRebuilt \/ SendExit
  BY <1>3 DEF SendCmd, SendNum, SendParity, SendData, SendRebuilt, SendExit, Return
<1>4. CASE FindDead \/ Wait
  BY <1>4 DEF FindDead, Wait, ParentExits
<1>5. CASE SendFails \/ RecvFails
  BY <1>5 DEF SendFails, RecvFails, GiveUp, Return, ParentExits
<1>6. CASE \/ RecvRead \/ RecvOldData \/ ParityAllocFails \/ RecvOldParity
  BY <1>6 DEF RecvRead, RecvOldData, ParityAllocFails, RecvOldParity, Return
<1>7. QED
  BY <1>1, <1>2, <1>3, <1>4, <1>5, <1>6 DEF ControllerStep

LEMMA RebornStep ==
  ASSUME Inv, RebornInv, [Next]_vars
  PROVE  RebornInv'
<1>1. Typed /\ PhaseOK /\ SignalOK /\ ParentOK /\ RebornOK
  BY DEF Inv, FramingInv, RebornInv
<1>2. SignalOK' /\ ParentOK'
  BY <1>1, SignalStep, ParentStep
<1>3. RebornOK'
  <2>1. CASE ControllerStep \/ Command \/ Exit
    BY <1>1, <2>1, RestartReborn, SourceReborn, SendReborn, OthersReborn
  <2>2. ASSUME NEW e \in Disks, Disk(e) PROVE RebornOK'
    BY <1>1, <2>2, DiskReborn
  <2>3. CASE UNCHANGED vars
    <3>1. PICK d \in Disks : d = rdisk
      BY <1>1 DEF Typed, TypeOK, ControllerTypeOK
    <3>2. PICK c \in 0..2 : c = Begun
      BY DEF Begun
    <3>3. /\ Untouched(d) /\ sigint' = sigint /\ Begun' = c
          /\ UNCHANGED <<phase, pc, rdisk>>
      BY <2>3, <3>2 DEF vars, diskVars, ctlVars, restoreVars, Untouched, Begun
    <3>4. OnlyWrites(d, c) => OnlyWrites(d, c)'
      BY <3>3, OnlyWritesKept
    <3>5. QED
      BY <1>1, <3>1, <3>2, <3>3, <3>4 DEF RebornOK
  <2>4. QED
    BY <2>1, <2>2, <2>3 DEF Next, Controlled, Terminated
<1>4. QED
  BY <1>2, <1>3 DEF RebornInv

(* Disk d has failed, and has not saved itself. *)
Lost(d) == gen[d] # 0 \/ (~Alive(d) /\ fileState[d] # "saved")

OtherLost == \E d \in Disks \ {rdisk} : Lost(d)

LEMMA LostIsNotSound == OtherLost => \E d \in Disks \ {rdisk} : ~Sound(d)
BY DEF OtherLost, Lost, Sound

(* A request fails in restore_disk_process: it is not one to the disk that *)
(* is being rebuilt, which is there, and the disk it goes to is lost.      *)
LEMMA RequestFailsLost ==
  ASSUME Inv, RebornInv, phase \in RestorePhases, SendFails \/ RecvFails
  PROVE  OtherLost
<1>1. PICK h \in Disks : h = Target
  BY TargetType DEF Inv, Typed, TypeOK
<1>2. pc \in {"cmd", "num", "data", "recv"}
  BY DEF SendFails, RecvFails
<1>3. CASE phase = "RW"
  <2>1. SendFails /\ h = rdisk /\ ~Alive(h)
    BY <1>1, <1>3 DEF Inv, FramingInv, PhaseOK, ReadPhases, RecvFails, SendFails, Target
  <2>2. OnlyWrites(h, Begun)
    BY <1>2, <2>1 DEF RebornInv, RebornOK
  <2>3. QED
    BY <2>1, <2>2 DEF OnlyWrites, Alive
<1>4. CASE phase = "RR"
  <2>1. h # rdisk
    BY <1>1, <1>4 DEF Inv, FramingInv, PhaseOK, Target
  <2>2. ~Original(h)
    BY <1>1, NoRequestFails DEF Inv
  <2>3. gen[h] = 0 => fileState[h] # "saved"
    BY <1>2 DEF Inv, SavedOK
  <2>4. QED
    BY <2>1, <2>2, <2>3 DEF OtherLost, Lost, Original
<1>5. QED
  BY <1>3, <1>4 DEF RestorePhases

LostInv == pc = "gone" /\ phase \in RestorePhases /\ ~Faults => OtherLost

LEMMA InitLost == Init => LostInv
BY DEF Init, ControllerInit, LostInv

LEMMA LostKept ==
  ASSUME DiskTypeOK, OtherLost, UNCHANGED <<gen, rdisk>>,
         \/ UNCHANGED <<dpc, fileState>>
         \/ \E e \in Disks : DiskStep(e)
  PROVE  OtherLost'
<1>1. PICK d \in Disks \ {rdisk} : Lost(d)
  BY DEF OtherLost
<1>2. CASE UNCHANGED <<dpc, fileState>>
  BY <1>1, <1>2 DEF OtherLost, Lost, Alive
<1>3. ASSUME NEW e \in Disks, DiskStep(e)
      PROVE  OtherLost'
  <2>1. CASE gen[d] # 0
    BY <1>1, <2>1 DEF OtherLost, Lost
  <2>2. CASE ~Alive(d) /\ fileState[d] # "saved"
    <3>1. e # d
      BY <1>3, <2>2, DiskStepAlive
    <3>2. Untouched(d) /\ fileState'[d] = fileState[d]
      BY <1>3, <3>1, OtherDisk
    <3>3. ~Alive(d)' /\ fileState'[d] # "saved"
      BY <2>2, <3>2 DEF Untouched, Alive
    <3>4. QED
      BY <1>1, <3>3 DEF OtherLost, Lost
  <2>3. QED
    BY <1>1, <2>1, <2>2 DEF Lost
<1>4. QED
  BY <1>2, <1>3

LEMMA LostStep ==
  ASSUME Inv, RebornInv, LostInv, [Next]_vars, pc' = "gone", ~Faults
  PROVE  /\ phase \in RestorePhases => OtherLost
         /\ phase' \in RestorePhases => OtherLost'
<1>0. DiskTypeOK
  BY DEF Inv, Typed, TypeOK
<1>1. CASE pc = "gone"
  <2>1. UNCHANGED <<gen, rdisk, phase>>
    BY <1>1, GoneIsGone DEF ctlVars, restoreVars
  <2>2. (\E e \in Disks : DiskStep(e)) \/ UNCHANGED <<dpc, fileState>>
    BY <1>1, GoneIsGone DEF diskVars, fileVars
  <2>3. QED
    BY <1>0, <1>1, <2>1, <2>2, LostKept DEF LostInv
<1>2. CASE pc # "gone"
  <2>1. ControllerStep \/ Command \/ Exit
    BY <1>2 DEF Next, Controlled, Disk, Terminated, ctlVars, vars
  <2>2. CASE Wait
    <3>1. phase = "rb" /\ phase' = phase
      BY <2>2 DEF Wait, Inv, FramingInv, PhaseOK
    <3>2. QED
      BY <3>1 DEF RestorePhases
  <2>3. CASE /\ SendFails \/ RecvFails
             /\ phase \in RestorePhases
             /\ UNCHANGED <<dpc, fileState, gen, phase, rdisk>>
    <3>1. OtherLost
      BY <2>3, RequestFailsLost
    <3>2. QED
      BY <1>0, <2>3, <3>1, LostKept
  <2>4. QED
    BY <1>2, <2>1, <2>2, <2>3, Ends
<1>3. QED
  BY <1>1, <1>2

(* restore_disk_process gives the whole system up only when a second disk  *)
(* has failed as well, whatever was killed when and however far behind the *)
(* restarted disk is with its writes: it cannot itself get lost.           *)
THEOREM Surviving == Spec => OneFailureSurvives
<1>1. Init => Inv /\ RebornInv /\ LostInv
  BY InvInit, InitReborn, InitLost
<1>2. Inv /\ RebornInv /\ LostInv /\ [Next]_vars => Inv' /\ RebornInv' /\ LostInv'
  BY InvStep, RebornStep, LostStep DEF LostInv
<1>3. Inv /\ RebornInv /\ LostInv /\ [Next]_vars =>
        [pc' = "gone" /\ phase \in RestorePhases /\ ~Faults =>
           \E d \in Disks \ {rdisk} : ~Sound(d)]_vars
  BY LostStep, LostIsNotSound
<1>4. QED
  BY <1>1, <1>2, <1>3, PTL DEF Spec, OneFailureSurvives

-----------------------------------------------------------------------------
(* Without faults and kills no disk ever fails.                            *)

(* Nobody was told to fail and every disk started is fresh; the controller *)
(* is there until every disk has been sent CMD_EXIT.                       *)
Calm ==
  /\ \A d \in Disks : ~sigint[d]
  /\ pc = "init" => \A d \in Disks : d < idx => Original(d)
  /\ pc # "init" => AllFresh
  /\ pc # "gone" => parentUp
  /\ pc = "gone" => \A d \in Disks : Alive(d) => ExitSent(d)
  /\ InCommand /\ phase # "rb" => data \in Data

LEMMA InitCalm == Init => Calm
BY DEF Init, DiskInit, ControllerInit, Calm, InCommand, Disks

(* A disk in the middle of a whole write has it, or what comes behind it.  *)
LEMMA WholeAhead ==
  ASSUME NEW d \in Disks, NEW t \in Seq(Word), Whole(d, t)
  PROVE  /\ dpc[d] \in {"cmd", "wnum", "wdata"}
         /\ At(d, "wnum") => Len(toDisk[d]) >= 1
         /\ At(d, "wdata") => Len(toDisk[d]) >= BlockWords
         /\ At(d, "cmd") /\ t # <<>> => Len(toDisk[d]) >= 1
<1>1. CASE At(d, "cmd") /\ toDisk[d] = t
  BY <1>1 DEF At
<1>2. ASSUME NEW s \in Stripes, NEW b \in Block,
             \/ At(d, "cmd") /\ toDisk[d] = WriteThen(s, b, t)
             \/ At(d, "wnum") /\ toDisk[d] = InFront(IntWord(s), b \o t)
             \/ At(d, "wdata") /\ toDisk[d] = b \o t
      PROVE  /\ dpc[d] \in {"cmd", "wnum", "wdata"}
             /\ At(d, "wnum") => Len(toDisk[d]) >= 1
             /\ At(d, "wdata") => Len(toDisk[d]) >= BlockWords
             /\ At(d, "cmd") => Len(toDisk[d]) >= 1
  <2>1. /\ b \o t \in Seq(Word) /\ Len(b \o t) \in Nat
        /\ Len(b \o t) >= BlockWords
    BY BlockInFront
  <2>2. /\ InFront(IntWord(s), b \o t) \in Seq(Word)
        /\ Len(InFront(IntWord(s), b \o t)) \in Nat
        /\ Len(InFront(IntWord(s), b \o t)) >= 1
    <3> DEFINE q == b \o t
    <3>1. q \in Seq(Word) /\ Len(q) \in Nat
      BY <2>1
    <3> HIDE DEF q
    <3>2. /\ InFront(IntWord(s), q) \in Seq(Word)
          /\ Len(InFront(IntWord(s), q)) = Len(q) + 1
      BY <3>1, NumberInFront
    <3>3. QED
      BY <3>1, <3>2 DEF q
  <2>3. Len(WriteThen(s, b, t)) >= 1
    BY <2>2, WordInFront, Commands DEF WriteThen
  <2>4. QED
    BY <1>2, <2>1, <2>2, <2>3 DEF At
<1>3. QED
  BY <1>1, <1>2 DEF Whole

(* A disk that has been sent CMD_EXIT has all it will read in its pipe.    *)
LEMMA ExitAhead ==
  ASSUME NEW d \in Disks, ExitSent(d)
  PROVE  /\ dpc[d] \notin {"rnum", "reply"}
         /\ dpc[d] \in {"cmd", "wnum"} => Len(toDisk[d]) >= 1
         /\ At(d, "wdata") => Len(toDisk[d]) >= BlockWords
<1>1. One(CMD_EXIT) \in Seq(Word) /\ One(CMD_EXIT) # <<>>
  BY OneWord, Commands
<1>2. QED
  BY <1>1, WholeAhead DEF ExitSent, At

(* And none ever finds a piece of a block.                                 *)
LEMMA NoPiece ==
  ASSUME DiskTypeOK, NEW d \in Disks, NEW s \in Stripes, Talking(d, s), At(d, "wdata")
  PROVE  Len(toDisk[d]) = 0 \/ Len(toDisk[d]) >= BlockWords
<1>1. /\ <<>> \in Seq(Word) /\ One(CMD_READ) \in Seq(Word)
      /\ Two(CMD_READ, IntWord(s)) \in Seq(Word)
  BY OneWord, TwoWords, Commands, IntWordType
<1>2. \A t \in Seq(Word) : Whole(d, t) => Len(toDisk[d]) >= BlockWords
  BY WholeAhead
<1>3. CASE Idle(d) \/ ReadBegun(d) \/ ReadSent(d, s)
  BY <1>1, <1>2, <1>3 DEF Idle, ReadBegun, ReadSent, At
<1>4. CASE Quiet(d) \/ WriteBegun(d) \/ WriteNumbered(d, s)
  BY <1>4 DEF Quiet, WriteBegun, WriteNumbered, At
<1>5. CASE ExitSent(d)
  BY <1>5, ExitAhead
<1>6. QED
  BY <1>3, <1>4, <1>5 DEF Talking

(* A read is only cut short when the controller has gone, and then every   *)
(* disk has all it needs.                                                  *)
LEMMA Unharmed ==
  ASSUME Inv, Calm, ~Faults, NEW d \in Disks, DiskStep(d), gen[d] = 0
  PROVE  ~Segfault(d) /\ ~FailDisk(d) /\ ~FailCheckpoint(d) /\ ~Killed(d)
<1>0. Original(d) /\ DiskTypeOK
  BY DiskStepAlive DEF Original, Inv, Typed, TypeOK
<1>1. PICK s \in Stripes : s = Stripe
  BY StripeType DEF Inv
<1>2. Framed(d) /\ Talking(d, s) /\ Follows(d)
  BY <1>0, <1>1, FramedTalks, TalkingFollows DEF Inv, FramingInv
<1>3. ~Segfault(d)
  BY <1>2 DEF Follows, Segfault, At
<1>4. Attached(d) \/ ExitSent(d)
  BY <1>0 DEF Calm, Original, Attached
<1>5. Len(toDisk[d]) \in Nat
  BY <1>0 DEF DiskTypeOK
<1>6. ~FailDisk(d)
  BY <1>0, <1>2, <1>4, <1>5, NoPiece, ExitAhead DEF FailDisk, ShortRead, At
<1>7. QED
  BY <1>3, <1>6 DEF FailCheckpoint, Killed, Calm

(* So the only disk that ends is one that has saved itself.                *)
LEMMA CalmDisk ==
  ASSUME Inv, Calm, ~Faults, NEW d \in Disks, DiskStep(d), gen[d] = 0
  PROVE  /\ \A e \in Disks : ~sigint'[e]
         /\ Alive(d)' \/ SaveCheckpoint(d)
         /\ SaveCheckpoint(d) => fileState'[d] = "saved"
         /\ UNCHANGED parentUp
<1>1. ~Segfault(d) /\ ~FailDisk(d) /\ ~FailCheckpoint(d) /\ ~Killed(d)
  BY Unharmed
<1>2. DiskTypeOK /\ \A e \in Disks : ~sigint[e]
  BY DEF Inv, Typed, TypeOK, Calm
<1>3. CASE SaveCheckpoint(d)
  BY <1>2, <1>3 DEF SaveCheckpoint, Terminate, DiskTypeOK
<1>4. CASE ReadCmd(d) \/ ReadNum(d) \/ Reply(d) \/ StoreBlock(d) \/ OpenCheckpoint(d)
  <2>1. UNCHANGED <<sigint, parentUp>> /\ ~SaveCheckpoint(d)
    BY <1>4 DEF ReadCmd, ReadNum, Reply, StoreBlock, OpenCheckpoint, SaveCheckpoint, At
  <2>2. Alive(d)'
    BY <1>2, <1>4 DEF ReadCmd, ReadNum, Reply, StoreBlock, OpenCheckpoint, Goto, At,
       Alive, DiskTypeOK
  <2>3. QED
    BY <1>2, <2>1, <2>2
<1>5. QED
  BY <1>1, <1>3, <1>4 DEF DiskStep

(* What the controller may then do.                                        *)
Work ==
  \/ InitDisk \/ SendCmd \/ SendNum
  \/ RecvRead \/ RecvOldData \/ RecvOldParity \/ SendParity \/ SendData
  \/ SendExit \/ Wait

LEMMA OnlyWork ==
  ASSUME Inv, Calm, ~Faults, ControllerStep
  PROVE  Work
<1>1. CASE pc = "init"
  <2>1. phase = "rb" /\ ~InitFails
    BY <1>1 DEF Inv, FramingInv, PhaseOK, InitFails
  <2>2. ~RestartDisk /\ ~RestartFails /\ ~FindDead /\ ~SendFails /\ ~RecvFails
    BY <1>1 DEF RestartDisk, RestartFails, FindDead, SendFails, RecvFails
  <2>3. ~RecvSource /\ ~SendRebuilt /\ ~ParityAllocFails
    BY <1>1, <2>1 DEF RecvSource, SendRebuilt, ParityAllocFails
  <2>4. QED
    BY <2>1, <2>2, <2>3 DEF ControllerStep, Work
<1>2. CASE pc # "init"
  <2>1. /\ phase \notin RestorePhases /\ pc # "restart"
        /\ pc \notin {"exit", "wait", "gone"} => \A d \in Disks : Original(d)
    BY <1>2, NoneFailed DEF Inv, Calm
  <2>2. ~FindDead /\ ~SendFails /\ ~RecvFails
    <3>1. PICK h \in Disks : h = Target
      BY TargetType DEF Inv, Typed, TypeOK
    <3>2. CASE Original(h)
      BY <3>1, <3>2, NoRequestFails DEF Inv
    <3>3. CASE pc \in {"exit", "wait", "gone"}
      BY <3>3 DEF FindDead, SendFails, RecvFails
    <3>4. QED
      BY <2>1, <3>2, <3>3
  <2>3. ~InitFails /\ ~ParityAllocFails /\ ~RestartDisk /\ ~RestartFails
    BY <2>1 DEF InitFails, ParityAllocFails, RestartDisk, RestartFails
  <2>4. ~RecvSource /\ ~SendRebuilt
    BY <2>1 DEF RecvSource, SendRebuilt, RestorePhases
  <2>5. QED
    BY <2>2, <2>3, <2>4 DEF ControllerStep, Work
<1>3. QED
  BY <1>1, <1>2

LEMMA CalmWork ==
  ASSUME Inv, Inv', Calm, Work
  PROVE  Calm'
<1>0. DiskTypeOK /\ gen \in [Disks -> Nat]
  BY DEF Inv, Typed, TypeOK, ControllerTypeOK
<1>1. UNCHANGED <<sigint, gen>> /\ (parentUp /\ pc' # "gone" => parentUp')
  <2>1. CASE InitDisk \/ RecvRead \/ RecvOldData \/ RecvOldParity
    BY <2>1 DEF InitDisk, Spawn, RecvRead, RecvOldData, RecvOldParity, TakeBlock,
       Return, restoreVars
  <2>2. CASE SendCmd \/ SendNum \/ SendParity \/ SendData
    BY <2>2 DEF SendCmd, SendNum, SendParity, SendData, Send, Return, restoreVars
  <2>3. CASE SendExit \/ Wait
    BY <2>3 DEF SendExit, Send, Wait, ParentExits, restoreVars, diskVars
  <2>4. QED
    BY <2>1, <2>2, <2>3 DEF Work
<1>2. \A d \in Disks : ~sigint'[d]
  BY <1>1 DEF Calm
<1>3. CASE InitDisk
  <2>1. /\ pc = "init" /\ idx \in Disks /\ UNCHANGED parentUp
        /\ \A d \in Disks : gen[d] = 0 /\ (d < idx => Original(d))
        /\ IF idx = NumDisks THEN pc' = "shell" ELSE pc' = "init" /\ idx' = idx + 1
    BY <1>3 DEF InitDisk, Inv, Typed, LoopOK, DataInv, Calm
  <2>2. ASSUME NEW d \in Disks, d <= idx
        PROVE  Original(d)'
    <3>1. CASE d = idx
      BY <1>0, <1>1, <1>3, <2>1, <3>1 DEF InitDisk, Spawn, Original, Alive, DiskTypeOK
    <3>2. CASE d < idx
      BY <1>0, <1>1, <1>3, <2>1, <3>2 DEF InitDisk, Spawn, Original, Alive, DiskTypeOK,
         Disks
    <3>3. QED
      BY <2>1, <2>2, <3>1, <3>2 DEF Disks
  <2>3. idx = NumDisks => AllFresh'
    BY <2>2 DEF Disks, AllFresh, Fresh, Original
  <2>4. pc' = "init" => \A d \in Disks : d < idx' => Original(d)'
    BY <2>1, <2>2 DEF Disks
  <2>5. QED
    BY <1>2, <2>1, <2>3, <2>4 DEF Calm, InCommand
<1>4. CASE ~InitDisk
  <2>1. pc # "init" /\ AllFresh /\ ControllerStep
    BY <1>4 DEF Work, SendCmd, SendNum, RecvRead, RecvOldData, RecvOldParity,
       SendParity, SendData, SendExit, Wait, TakeBlock, Calm, ControllerStep
  <2>2. AllFresh'
    <3>1. ASSUME NEW d \in Disks
          PROVE  Fresh(d)'
      <4>1. gen[d] = 0 /\ gen'[d] = 0 /\ Fresh(d)
        BY <1>1, <2>1 DEF AllFresh, Fresh
      <4>2. QED
        BY <2>1, <4>1, ControllerContents DEF Inv
    <3>2. QED
      BY <3>1 DEF AllFresh
  <2>3. pc' # "init" /\ (pc' = "gone" => Wait /\ pc = "wait")
    BY <1>4, <2>1 DEF Work, SendCmd, SendNum, RecvRead, RecvOldData, RecvOldParity,
       SendParity, SendData, SendExit, Wait, Return, ParentExits
  <2>4. ASSUME pc' = "gone", NEW d \in Disks, Alive(d)'
        PROVE  ExitSent(d)'
    <3>1. /\ pc = "wait" /\ UNCHANGED <<dpc, dnum, blocks, toDisk, fromDisk>>
      BY <2>3, <2>4 DEF Wait, pipeVars
    <3>2. Original(d)
      BY <2>1, <2>4, <3>1 DEF AllFresh, Fresh, Original, Alive
    <3>3. ExitSent(d)
      BY <3>1, <3>2 DEF Inv, FramingInv, Framed
    <3>4. QED
      BY <3>1, <3>3, Undisturbed
  <2>5. pc' # "gone" => parentUp'
    <3>1. pc # "gone"
      BY <1>4 DEF Work, SendCmd, SendNum, RecvRead, RecvOldData, RecvOldParity,
         SendParity, SendData, SendExit, Wait, TakeBlock
    <3>2. QED
      BY <1>1, <3>1 DEF Calm
  <2>6. InCommand' /\ phase' # "rb" => data' \in Data
    BY <1>4 DEF Calm, InCommand, Work, SendCmd, SendNum, RecvRead, RecvOldData,
       RecvOldParity, SendParity, SendData, SendExit, Wait, Return, TakeBlock,
       ParentExits
  <2>7. QED
    BY <1>2, <2>2, <2>3, <2>4, <2>5, <2>6 DEF Calm
<1>5. QED
  BY <1>3, <1>4

LEMMA CalmStep ==
  ASSUME Inv, Inv', Calm, ~Faults, Killable = {}, [Next]_vars
  PROVE  Calm'
<1>0. DiskTypeOK
  BY DEF Inv, Typed, TypeOK
<1>1. CASE Controlled
  BY <1>1, OnlyWork, CalmWork DEF Controlled
<1>2. CASE Command \/ Exit
  <2>1. /\ UNCHANGED <<dpc, dnum, blocks, toDisk, fromDisk, fileState, sigint,
                       parentUp, gen>>
        /\ pc = "shell" /\ pc' \in {"shell", "cmd", "exit"}
        /\ InCommand' /\ phase' # "rb" => data' \in Data
    BY <1>2 DEF Command, Exit, ReadBlock, WriteBlock, SimulateFailure,
       CheckpointAndWait, diskVars, restoreVars, pipeVars, fileVars, InCommand
  <2>2. AllFresh'
    BY <2>1 DEF Calm, AllFresh, Fresh, Alive
  <2>3. QED
    BY <2>1, <2>2 DEF Calm
<1>3. ASSUME NEW e \in Disks, Disk(e)
      PROVE  Calm'
  <2>1. DiskStep(e) /\ UNCHANGED ctlVars
    BY <1>3 DEF Disk
  <2>2. gen' = gen /\ gen[e] = 0 /\ Original(e)
    BY <2>1, DiskStepAlive DEF ctlVars, Calm, Inv, DataInv, AllFresh, Fresh, Original
  <2>3. /\ \A d \in Disks : ~sigint'[d]
        /\ Alive(e)' \/ SaveCheckpoint(e)
        /\ SaveCheckpoint(e) => fileState'[e] = "saved"
        /\ UNCHANGED parentUp
    BY <2>1, <2>2, CalmDisk
  <2>4. \A d \in Disks : d # e => Untouched(d) /\ fileState'[d] = fileState[d]
    BY <1>0, <2>1, OtherDisk
  <2>5. ASSUME pc = "init"
        PROVE  Alive(e)'
    <3>1. ~SaveCheckpoint(e)
      BY <2>2, <2>5 DEF Inv, FramingInv, Framed, Quiet, SaveCheckpoint, At
    <3>2. QED
      BY <2>3, <3>1
  <2>6. pc' = "init" => \A d \in Disks : d < idx' => Original(d)'
    BY <2>1, <2>2, <2>4, <2>5 DEF ctlVars, Calm, Original, Untouched, Alive
  <2>7. pc' # "init" => AllFresh'
    BY <2>1, <2>2, <2>3, <2>4 DEF ctlVars, Calm, AllFresh, Fresh, Untouched, Alive
  <2>8. ASSUME pc' = "gone", NEW d \in Disks, Alive(d)'
        PROVE  ExitSent(d)'
    <3>1. pc = "gone"
      BY <2>1, <2>8 DEF ctlVars
    <3>2. CASE d = e
      BY <1>0, <2>1, <2>2, <2>8, <3>1, <3>2, ExitSentStep DEF Calm, Original
    <3>3. CASE d # e
      BY <2>4, <2>8, <3>1, <3>3, Undisturbed DEF Calm, Untouched, Alive
    <3>4. QED
      BY <3>2, <3>3
  <2>9. QED
    BY <2>1, <2>3, <2>6, <2>7, <2>8 DEF ctlVars, Calm, InCommand
<1>4. CASE UNCHANGED vars
  <2>1. UNCHANGED <<dpc, dnum, blocks, toDisk, fromDisk, fileState, sigint, parentUp,
                    gen, pc, phase, data, idx>>
    BY <1>4 DEF vars, diskVars, ctlVars, restoreVars
  <2>2. \A d \in Disks : ExitSent(d)' <=> ExitSent(d)
    BY <2>1, Undisturbed
  <2>3. QED
    BY <2>1, <2>2 DEF Calm, AllFresh, Fresh, Original, Alive, InCommand
<1>5. QED
  BY <1>1, <1>2, <1>3, <1>4 DEF Next, Terminated

-----------------------------------------------------------------------------
(* Every step is one of the block store, or none.                          *)

StoreNow == [b \in BlockNums |-> BlockOf(b)]

(* A block number is a disk and a stripe.                                  *)
LEMMA Striping ==
  ASSUME NEW b \in BlockNums
  PROVE  /\ b % NumDisks \in DataDisks /\ b \div NumDisks \in Stripes
         /\ \A a \in BlockNums : a % NumDisks = b % NumDisks
                                   /\ a \div NumDisks = b \div NumDisks => a = b
<1>1. \A a \in BlockNums :
        /\ a \in Nat /\ a < NumDisks * NumBlocks
        /\ a % NumDisks \in 0..(NumDisks - 1) /\ a \div NumDisks \in Nat
        /\ a = NumDisks * (a \div NumDisks) + (a % NumDisks)
  BY DEF BlockNums
<1>2. b \div NumDisks < NumBlocks
  <2>1. b \in Nat /\ b < NumDisks * NumBlocks
    BY DEF BlockNums
  <2>2. /\ b \div NumDisks \in Nat /\ b % NumDisks \in Nat
        /\ b = NumDisks * (b \div NumDisks) + (b % NumDisks)
    BY <2>1
  <2>3. QED
    BY <2>1, <2>2
<1>3. b % NumDisks \in DataDisks /\ b \div NumDisks \in Stripes
  BY <1>1, <1>2 DEF DataDisks, Stripes
<1>4. ASSUME NEW a \in BlockNums, a % NumDisks = b % NumDisks,
             a \div NumDisks = b \div NumDisks
      PROVE  a = b
  BY <1>1, <1>4, Zenon
<1>5. QED
  BY <1>3, <1>4

LEMMA StoreKept ==
  ASSUME \A d \in DataDisks : Contents(d)' = Contents(d)
  PROVE  StoreNow' = StoreNow
<1>1. ASSUME NEW b \in BlockNums
      PROVE  BlockOf(b)' = BlockOf(b)
  BY Striping DEF BlockOf
<1>2. QED
  BY <1>1 DEF StoreNow

(* The data written is the user's block from then on, and no other block.  *)
LEMMA StoreWritten ==
  ASSUME Inv, Calm, SendData
  PROVE  StoreNow' = [StoreNow EXCEPT ![blk] = data]
<1>1. /\ phase = "W2" /\ pc = "data" /\ gen' = gen /\ Send(Target, data)
      /\ data \in Block /\ blk \in BlockNums /\ \A d \in Disks : gen[d] = 0
      /\ Stripe = blk \div NumDisks
  BY DEF SendData, Return, Inv, Typed, TypeOK, ControllerTypeOK, restoreVars, Calm,
     AllFresh, Fresh, Stripe, RestorePhases
<1>2. PICK h \in DataDisks : h = blk % NumDisks /\ h = Target
  BY <1>1, Striping DEF Target
<1>3. ASSUME NEW b \in BlockNums
      PROVE  BlockOf(b)' = IF b = blk THEN data ELSE BlockOf(b)
  <2>1. PICK d \in DataDisks, s \in Stripes : d = b % NumDisks /\ s = b \div NumDisks
    BY Striping
  <2>2. d = h /\ s = Stripe <=> b = blk
    BY <1>1, <1>2, <2>1, Striping
  <2>3. /\ d \in Disks /\ h \in Disks
        /\ d # h => Contents(d)' = Contents(d)
        /\ d = h => Updated(d, data)
    BY <1>1, <1>2, BlockContents DEF Inv, DataDisks, Disks
  <2>4. Contents(d)'[s] = IF b = blk THEN data ELSE Contents(d)[s]
    BY <2>2, <2>3 DEF Updated
  <2>5. QED
    BY <2>1, <2>4 DEF BlockOf
<1>4. QED
  BY <1>3 DEF StoreNow

LEMMA EmptyInInit ==
  ASSUME Inv, pc = "init"
  PROVE  \A d \in Disks : Contents(d) = ZeroDisk
<1>1. ASSUME NEW d \in Disks
      PROVE  Contents(d) = ZeroDisk
  <2>1. blocks[d] = ZeroDisk /\ gen[d] = 0
    BY DEF Inv, DataInv
  <2>2. CASE Alive(d)
    BY <2>1, <2>2, QuietContents DEF Original, Inv, FramingInv, Framed
  <2>3. CASE ~Alive(d)
    BY <2>1, <2>3 DEF Alive, Contents, Request, At
  <2>4. QED
    BY <2>2, <2>3
<1>2. QED
  BY <1>1

LEMMA EmptyNext == (Inv /\ pc = "init" => \A d \in Disks : Contents(d) = ZeroDisk)'
BY EmptyInInit, PTL

(* Nothing the user can see changes while the disks are started.           *)
LEMMA StartStores ==
  ASSUME Inv, Inv', Calm, Calm', ~Faults, [Next]_vars, pc = "init"
  PROVE  \A d \in DataDisks : Contents(d)' = Contents(d)
<1>1. \A d \in DataDisks : d \in Disks /\ Contents(d) = ZeroDisk
  BY EmptyInInit DEF DataDisks, Disks
<1>2. CASE pc' = "init"
  BY <1>1, <1>2, EmptyNext
<1>3. CASE pc' # "init"
  BY <1>1, <1>3, LeavesInit, StartContents DEF Inv, Calm, AllFresh
<1>4. QED
  BY <1>2, <1>3

LEMMA NoReturnToInit ==
  ASSUME [Next]_vars, pc # "init"
  PROVE  pc' # "init"
<1>1. CASE Command \/ Exit
  BY <1>1 DEF Command, Exit, ReadBlock, WriteBlock, SimulateFailure,
     CheckpointAndWait
<1>2. CASE InitDisk \/ InitFails \/ SendCmd \/ FindDead \/ SendNum \/ SendParity
             \/ SendData \/ SendRebuilt \/ RestartDisk \/ RestartFails
  BY <1>2 DEF InitDisk, InitFails, SendCmd, FindDead, SendNum, SendParity, SendData,
     SendRebuilt, RestartDisk, RestartFails, Return, ParentExits
<1>3. CASE SendFails \/ RecvFails \/ RecvRead \/ RecvOldData \/ ParityAllocFails
             \/ RecvOldParity \/ RecvSource
  BY <1>3 DEF SendFails, RecvFails, RecvRead, RecvOldData, ParityAllocFails,
     RecvOldParity, RecvSource, GiveUp, Return, ParentExits
<1>4. CASE SendExit \/ Wait
  BY <1>4 DEF SendExit, Wait, ParentExits
<1>5. CASE UNCHANGED vars \/ \E e \in Disks : Disk(e)
  BY <1>5 DEF vars, Disk, ctlVars
<1>6. QED
  BY <1>1, <1>2, <1>3, <1>4, <1>5 DEF Next, Controlled, ControllerStep, Terminated

(* Only SendData changes what a data disk holds.                           *)
LEMMA OnlyDataStores ==
  ASSUME Inv, Inv', Calm, Calm', ~Faults, [Next]_vars, ~SendData
  PROVE  StoreNow' = StoreNow
<1>1. CASE pc = "init"
  BY <1>1, StartStores, StoreKept
<1>2. CASE pc # "init"
  <2>1. pc' # "init"
    BY <1>2, NoReturnToInit
  <2>2. ASSUME NEW d \in DataDisks
        PROVE  Contents(d)' = Contents(d)
    <3>1. d \in Disks /\ d # ParityDisk /\ Fresh(d)'
      BY <2>1 DEF DataDisks, Disks, ParityDisk, Calm, AllFresh
    <3>2. ContentsChange(d)
      BY <1>2, <3>1, ContentsStep DEF Inv
    <3>3. SendParity => d # Target
      BY <3>1 DEF SendParity, Target
    <3>4. QED
      BY <3>2, <3>3 DEF ContentsChange
  <2>3. QED
    BY <2>2, StoreKept
<1>3. QED
  BY <1>1, <1>2

StoreStep == Store!Next \/ UNCHANGED <<StoreNow, UserRequest, out>>

LEMMA Served ==
  ASSUME UNCHANGED <<blk, data>>, UNCHANGED out, StoreNow' = StoreNow,
         InCommand, InCommand',
         (phase # "rb" /\ phase' # "rb") \/ phase' = phase
  PROVE  StoreStep
<1>1. UserRequest' = UserRequest
  BY DEF UserRequest, InCommand
<1>2. QED
  BY <1>1 DEF StoreStep

LEMMA UserIdle ==
  ASSUME UNCHANGED out, StoreNow' = StoreNow, ~InCommand, ~InCommand', Inv, Inv'
  PROVE  StoreStep
<1>1. pc \in PC /\ pc' \in PC
  BY DEF Inv, Typed, TypeOK, ControllerTypeOK
<1>2. UserRequest' = UserRequest
  BY <1>1 DEF UserRequest, InCommand, PC
<1>3. QED
  BY <1>2 DEF StoreStep

LEMMA CommandStores ==
  ASSUME Inv, Inv', Command, Killable = {}, StoreNow' = StoreNow
  PROVE  StoreStep
<1>1. pc = "shell" /\ UserRequest = Store!Idle
  BY DEF Command, ReadBlock, WriteBlock, SimulateFailure, UserRequest, Store!Idle
<1>2. ASSUME NEW b \in UserBlocks, ReadBlock(b)
      PROVE  StoreStep
  <2>1. CASE /\ ValidBlock(b)
             /\ pc' = "cmd" /\ phase' = "rb" /\ blk' = b
             /\ UNCHANGED out
    <3>1. b \in BlockNums
      BY <2>1 DEF UserBlocks, ValidBlock, BlockNums
    <3>2. UserRequest' = Store!ReadReq(b)
      BY <2>1 DEF UserRequest, Store!ReadReq
    <3>3. Store!Invoke
      BY <1>1, <2>1, <3>1, <3>2 DEF Store!Invoke, StoreNow
    <3>4. QED
      BY <3>3 DEF StoreStep, Store!Next
  <2>2. CASE out' = Failed /\ UNCHANGED <<pc, phase, blk>>
    <3>1. UserRequest' = UserRequest
      BY <1>1, <2>2 DEF UserRequest
    <3>2. Store!Refuse
      BY <1>1, <2>2, <3>1 DEF Store!Refuse, StoreNow
    <3>3. QED
      BY <3>2 DEF StoreStep, Store!Next
  <2>3. QED
    BY <1>2, <2>1, <2>2 DEF ReadBlock
<1>3. ASSUME NEW b \in UserBlocks, NEW v \in Data, WriteBlock(b, v)
      PROVE  StoreStep
  <2>1. CASE /\ ValidBlock(b)
             /\ pc' = "cmd" /\ phase' = "R1" /\ blk' = b /\ data' = v
             /\ UNCHANGED out
    <3>1. b \in BlockNums
      BY <2>1 DEF UserBlocks, ValidBlock, BlockNums
    <3>2. UserRequest' = Store!WriteReq(b, v)
      BY <2>1 DEF UserRequest, Store!WriteReq
    <3>3. Store!Invoke
      BY <1>1, <2>1, <3>1, <3>2 DEF Store!Invoke, StoreNow
    <3>4. QED
      BY <3>3 DEF StoreStep, Store!Next
  <2>2. CASE out' = Failed /\ UNCHANGED <<pc, phase, blk, data>>
    <3>1. UserRequest' = UserRequest
      BY <1>1, <2>2 DEF UserRequest
    <3>2. Store!Refuse
      BY <1>1, <2>2, <3>1 DEF Store!Refuse, StoreNow
    <3>3. QED
      BY <3>2 DEF StoreStep, Store!Next
  <2>3. QED
    BY <1>3, <2>1, <2>2 DEF WriteBlock
<1>4. QED
  BY <1>2, <1>3 DEF Command

LEMMA ReadStores ==
  ASSUME Inv, Inv', Calm, RecvRead, StoreNow' = StoreNow
  PROVE  StoreStep
<1>1. /\ TakeBlock /\ pc = "recv" /\ phase = "rb" /\ out' = Printed(Received)
      /\ pc' = "shell" /\ blk \in BlockNums /\ Stripe = blk \div NumDisks
  BY DEF RecvRead, TakeBlock, Return, Inv, Typed, TypeOK, ControllerTypeOK, Stripe,
     RestorePhases
<1>2. PICK h \in DataDisks : h = blk % NumDisks /\ h = Target
  BY <1>1, Striping DEF Target
<1>3. h \in Disks /\ Original(h)
  BY <1>1, <1>2 DEF DataDisks, Disks, Calm, AllFresh, Fresh, Inv, SavedOK, Original
<1>4. Received = BlockOf(blk)
  BY <1>1, <1>2, <1>3, ReceivedIsHeld DEF Inv, BlockOf
<1>5. UserRequest = Store!ReadReq(blk) /\ UserRequest' = Store!Idle
  BY <1>1 DEF UserRequest, Store!ReadReq, Store!Idle
<1>6. out' = Printed(StoreNow[blk])
  BY <1>1, <1>4 DEF StoreNow
<1>7. Store!AnswerRead
  BY <1>1, <1>5, <1>6 DEF Store!AnswerRead, StoreNow
<1>8. QED
  BY <1>7 DEF StoreStep, Store!Next

LEMMA WriteStores ==
  ASSUME Inv, Calm, SendData
  PROVE  StoreStep
<1>1. /\ pc = "data" /\ phase = "W2" /\ out' = Written /\ pc' = "shell"
      /\ blk \in BlockNums /\ data \in Data
  BY DEF SendData, Return, Inv, Typed, TypeOK, ControllerTypeOK, Calm, InCommand
<1>2. UserRequest = Store!WriteReq(blk, data) /\ UserRequest' = Store!Idle
  BY <1>1 DEF UserRequest, Store!WriteReq, Store!Idle
<1>3. StoreNow' = [StoreNow EXCEPT ![blk] = data]
  BY StoreWritten
<1>4. Store!AnswerWrite
  BY <1>1, <1>2, <1>3 DEF Store!AnswerWrite, StoreNow
<1>5. QED
  BY <1>4 DEF StoreStep, Store!Next

LEMMA NextStores ==
  ASSUME Inv, Inv', Calm, Calm', ~Faults, Killable = {}, [Next]_vars
  PROVE  StoreStep
<1>0. ~SendData => StoreNow' = StoreNow
  BY OnlyDataStores
<1>1. CASE SendData
  BY <1>1, WriteStores
<1>2. CASE RecvRead
  <2>1. ~SendData
    BY <1>2 DEF RecvRead, SendData
  <2>2. QED
    BY <1>0, <1>2, <2>1, ReadStores
<1>3. CASE Command
  <2>1. ~SendData
    BY <1>3 DEF Command, ReadBlock, WriteBlock, SimulateFailure, SendData
  <2>2. QED
    BY <1>0, <1>3, <2>1, CommandStores
<1>4. CASE Exit \/ InitDisk \/ SendExit \/ Wait
  <2>1. ~SendData /\ UNCHANGED out /\ ~InCommand /\ ~InCommand'
    BY <1>4 DEF Exit, CheckpointAndWait, InitDisk, SendExit, Wait, ParentExits, SendData,
       InCommand
  <2>2. QED
    BY <1>0, <2>1, UserIdle
<1>5. CASE SendCmd \/ SendNum \/ RecvOldData \/ RecvOldParity \/ SendParity
  <2>1. /\ ~SendData /\ UNCHANGED <<blk, data>> /\ UNCHANGED out
        /\ InCommand /\ InCommand'
        /\ (phase # "rb" /\ phase' # "rb") \/ phase' = phase
    BY <1>5 DEF SendCmd, SendNum, RecvOldData, RecvOldParity, SendParity, TakeBlock,
       SendData, InCommand
  <2>2. QED
    BY <1>0, <2>1, Served
<1>6. CASE UNCHANGED vars \/ \E d \in Disks : Disk(d)
  <2>1. UNCHANGED ctlVars
    BY <1>6 DEF vars, Disk
  <2>2. ~SendData
    BY <2>1 DEF SendData, Return, ctlVars
  <2>3. /\ UNCHANGED <<blk, data>> /\ UNCHANGED out /\ phase' = phase
        /\ InCommand' <=> InCommand
    BY <2>1 DEF ctlVars, InCommand
  <2>4. QED
    BY <1>0, <2>2, <2>3, Served, UserIdle
<1>7. QED
  BY <1>1, <1>2, <1>3, <1>4, <1>5, <1>6, OnlyWork
     DEF Next, Controlled, Terminated, Work

LEMMA InitStores == Init => Store!Init
<1> SUFFICES ASSUME Init PROVE Store!Init
  OBVIOUS
<1>1. pc = "init" /\ out = Silent
  BY DEF Init, ControllerInit
<1>2. UserRequest = Store!Idle
  BY <1>1 DEF UserRequest, Store!Idle
<1>3. ASSUME NEW b \in BlockNums
      PROVE  BlockOf(b) = ZeroBlock
  <2>1. PICK d \in Disks, s \in Stripes : d = b % NumDisks /\ s = b \div NumDisks
    BY Striping DEF DataDisks, Disks
  <2>2. Contents(d) = ZeroDisk
    BY <1>1, InvInit, EmptyInInit
  <2>3. QED
    BY <2>1, <2>2 DEF BlockOf, ZeroDisk
<1>4. QED
  BY <1>1, <1>2, <1>3 DEF Store!Init

(* While nothing fails, and nobody makes a disk fail, the system is for    *)
(* its user an array of blocks: every step is a step of that array, or     *)
(* invisible.                                                              *)
THEOREM Refinement ==
  ASSUME ~Faults, Killable = {}
  PROVE  Spec => Store!Init /\ [][Store!Next]_(Store!bsVars)
<1>1. Init => Inv /\ Calm /\ Store!Init
  BY InvInit, InitCalm, InitStores
<1>2. Inv /\ Calm /\ [Next]_vars => Inv' /\ Calm'
  BY InvStep, CalmStep
<1>3. Inv /\ Calm /\ Inv' /\ Calm' /\ [Next]_vars => [Store!Next]_(Store!bsVars)
  <2> SUFFICES ASSUME Inv, Calm, Inv', Calm', [Next]_vars
               PROVE  Store!Next \/ UNCHANGED Store!bsVars
    OBVIOUS
  <2>1. StoreStep
    BY NextStores
  <2>2. QED
    BY <2>1 DEF StoreStep, Store!bsVars, StoreNow
<1>4. QED
  BY <1>1, <1>2, <1>3, PTL DEF Spec
=============================================================================
