---------------------------- MODULE ParityProofs ----------------------------
(* Theorems about the parity exercise, for any number and size of rows.    *)
EXTENDS ParityTool, XorTheorems

USE WordAssumption, RowAssumption

(* The rows the current loop has dealt with. *)
Done == 0..(i - 1)

(* The file's rows with the deleted one blank. *)
Deleted == [file EXCEPT ![lost] = ZeroBlock]

(* What the loops have established so far.                                 *)
Progress ==
  /\ pc = "read" =>
       /\ i \in Rows
       /\ \A r \in Done : data[r] = file[r]
  /\ pc \in {"first", "xor", "delete"} => data = file
  /\ pc = "xor" => i \in Rows /\ parity = XorAll(Done, file)
  /\ pc \in {"copy", "rebuild", "store"} => data = Deleted
  /\ pc = "rebuild" =>
       /\ i \in Rows
       /\ temp = XorBlock(parity, XorAll(Done \ {lost}, file))
  /\ pc = "store" => temp = file[lost]
  /\ pc = "done" => data = file

ParityInvariant == TypeOK /\ Progress /\ ParityOfRows

-----------------------------------------------------------------------------
LEMMA InitParity == Init => ParityInvariant
<1> SUFFICES ASSUME Init PROVE ParityInvariant
  OBVIOUS
<1>1. TypeOK
  BY ZeroBlockType DEF Init, TypeOK, Rows
<1>2. Progress /\ ParityOfRows
  BY DEF Init, Progress, ParityOfRows, Done, Rows
<1>3. QED
  BY <1>1, <1>2 DEF ParityInvariant

(* The types alone. *)
LEMMA ParityTyped ==
  ASSUME ParityInvariant, Next
  PROVE  TypeOK'
<1> USE DEF ParityInvariant, TypeOK
<1>1. CASE ReadRow
  BY <1>1 DEF ReadRow, Loop, Progress
<1>2. CASE ReadFails
  BY <1>2 DEF ReadFails
<1>3. CASE CopyFirstRow
  BY <1>3 DEF CopyFirstRow, FirstXored, Rows
<1>4. CASE XorRow
  <2>1. data[i] \in Block
    BY <1>4 DEF XorRow, Progress
  <2>2. parity' \in Block
    BY <1>4, <2>1, XorBlockType DEF XorRow
  <2>3. QED
    BY <1>4, <2>2 DEF XorRow, Loop, Progress
<1>5. CASE DeleteRow
  BY <1>5, ZeroBlockType DEF DeleteRow
<1>6. CASE CopyParity
  BY <1>6 DEF CopyParity
<1>7. CASE RebuildRow
  <2>1. data[i] \in Block
    BY <1>7 DEF RebuildRow, Progress
  <2>2. temp' \in Block
    BY <1>7, <2>1, XorBlockType DEF RebuildRow
  <2>3. QED
    BY <1>7, <2>2 DEF RebuildRow, Loop, Progress
<1>8. CASE StoreRow
  BY <1>8 DEF StoreRow
<1>9. CASE Ended
  BY <1>9 DEF Ended, vars
<1>10. QED
  BY <1>1, <1>2, <1>3, <1>4, <1>5, <1>6, <1>7, <1>8, <1>9 DEF Next

-----------------------------------------------------------------------------
(* One turn of each loop.                                                  *)

LEMMA Intervals ==
  ASSUME NEW n \in Rows
  PROVE  /\ 0..n = (0..(n - 1)) \cup {n}
         /\ n \notin 0..(n - 1)
         /\ IsFiniteSet(0..(n - 1))
         /\ n + 1 - 1 = n
         /\ n + 1 >= NumRows => 0..n = Rows
BY FS_Interval DEF Rows

(* The parity of the rows so far, and of one more. *)
LEMMA XorOneMore ==
  ASSUME ParityInvariant, XorRow
  PROVE  Progress' /\ ParityOfRows'
<1> USE DEF ParityInvariant
<1>1. i \in Rows /\ data = file /\ parity = XorAll(0..(i - 1), file)
  BY DEF XorRow, Progress, Done
<1>2. file[i] \in Block
  BY <1>1 DEF TypeOK
<1>3. parity' = XorAll(0..i, file)
  <2>1. XorAll((0..(i - 1)) \cup {i}, file)
          = XorBlock(XorAll(0..(i - 1), file), file[i])
    BY <1>1, <1>2, Intervals, XorAllInsert
  <2>2. QED
    BY <1>1, <2>1, Intervals DEF XorRow
<1>4. data' = file' /\ file' = file
  BY <1>1 DEF XorRow
<1>5. CASE i + 1 < NumRows
  <2>1. pc' = "xor" /\ i' = i + 1 /\ i' \in Rows
    BY <1>1, <1>5 DEF XorRow, Loop, Rows
  <2>2. Done' = 0..i
    BY <2>1, <1>1 DEF Done, Rows
  <2>3. QED
    BY <1>3, <1>4, <2>1, <2>2 DEF Progress, ParityOfRows
<1>6. CASE ~(i + 1 < NumRows)
  <2>1. pc' = "delete"
    BY <1>6 DEF XorRow, Loop
  <2>2. 0..i = Rows
    BY <1>1, <1>6, Intervals DEF Rows
  <2>3. QED
    BY <1>3, <1>4, <2>1, <2>2 DEF Progress, ParityOfRows, Rows
<1>7. QED
  BY <1>5, <1>6

(* The lost row is the XOR of the parity and of every other row.           *)
LEMMA RebuildOneMore ==
  ASSUME ParityInvariant, RebuildRow
  PROVE  Progress' /\ ParityOfRows'
<1> USE DEF ParityInvariant
<1> DEFINE Before == (0..(i - 1)) \ {lost}
           After == (0..i) \ {lost}
<1>1. /\ i \in Rows /\ data = Deleted
      /\ temp = XorBlock(parity, XorAll(Before, file))
      /\ parity = XorAll(Rows, file)
  BY DEF RebuildRow, Progress, Done, ParityOfRows
<1>2. /\ file \in [Rows -> Block] /\ lost \in Rows /\ parity \in Block
      /\ file[i] \in Block /\ file[lost] \in Block
  BY <1>1 DEF TypeOK
<1>3. IsFiniteSet(Before)
  BY <1>1, Intervals, FS_Subset
<1>4. temp' = XorBlock(parity, XorAll(After, file))
  <2>1. CASE i = lost
    <3>1. After = Before
      BY <2>1, <1>1, Intervals
    <3>2. QED
      BY <3>1, <2>1, <1>1 DEF RebuildRow
  <2>2. CASE i # lost
    <3>1. data[i] = file[i]
      BY <2>2, <1>1, <1>2 DEF Deleted
    <3>2. After = Before \cup {i} /\ i \notin Before
      BY <2>2, <1>1, Intervals
    <3>3. XorAll(After, file) = XorBlock(XorAll(Before, file), file[i])
      <4> HIDE DEF Before, After
      <4>1. QED
        BY <1>2, <1>3, <3>2, XorAllInsert
    <3>4. temp' = XorBlock(XorBlock(parity, XorAll(Before, file)), file[i])
      BY <1>1, <2>2, <3>1 DEF RebuildRow
    <3>5. QED
      BY <3>3, <3>4, <1>2, XorAllType, XorBlockAssoc
  <2>3. QED
    BY <2>1, <2>2
<1>5. UNCHANGED <<file, data, parity, lost>>
  BY DEF RebuildRow
<1>6. CASE i + 1 < NumRows
  <2>1. pc' = "rebuild" /\ i' = i + 1 /\ i' \in Rows
    BY <1>1, <1>6 DEF RebuildRow, Loop, Rows
  <2>2. Done' \ {lost'} = After
    BY <2>1, <1>1, <1>5 DEF Done, Rows
  <2>3. QED
    BY <1>1, <1>4, <1>5, <2>1, <2>2 DEF Progress, ParityOfRows, Deleted, Rows
<1>7. CASE ~(i + 1 < NumRows)
  <2>1. pc' = "store"
    BY <1>7 DEF RebuildRow, Loop
  <2>2. After = Rows \ {lost}
    BY <1>1, <1>7, Intervals DEF Rows
  <2>3. IsFiniteSet(Rows)
    BY FS_Interval DEF Rows
  <2>4. temp' = file[lost]
    BY <1>1, <1>2, <1>4, <2>2, <2>3, XorAllMissing
  <2>5. QED
    BY <1>1, <1>5, <2>1, <2>4 DEF Progress, ParityOfRows, Deleted, Rows
<1>8. QED
  BY <1>6, <1>7

-----------------------------------------------------------------------------
LEMMA ParityStep ==
  ASSUME ParityInvariant, [Next]_vars
  PROVE  ParityInvariant'
<1> USE DEF ParityInvariant
<1>1. CASE UNCHANGED vars
  BY <1>1 DEF vars, TypeOK, Progress, ParityOfRows, Done, Deleted, Rows
<1>2. CASE Next
  <2>1. TypeOK'
    BY <1>2, ParityTyped
  <2>2. CASE ReadRow
    <3>1. \A r \in 0..i : data'[r] = file'[r]
      BY <2>2 DEF ReadRow, Progress, TypeOK, Done, Rows
    <3>2. CASE i + 1 < NumRows
      <4>1. pc' = "read" /\ i' = i + 1 /\ i' \in Rows
        BY <2>2, <3>2 DEF ReadRow, Loop, Progress, Rows
      <4>2. Done' = 0..i
        BY <4>1, <2>2 DEF Done, Rows, ReadRow, Progress
      <4>3. QED
        BY <2>1, <3>1, <4>1, <4>2 DEF Progress, ParityOfRows
    <3>3. CASE ~(i + 1 < NumRows)
      <4>1. 0..i = Rows
        BY <2>2, <3>3, Intervals DEF ReadRow, Progress
      <4>2. data' = file'
        BY <2>1, <3>1, <4>1 DEF TypeOK, Rows
      <4>3. pc' = "first"
        BY <2>2, <3>3 DEF ReadRow, Loop
      <4>4. QED
        BY <2>1, <4>2, <4>3 DEF Progress, ParityOfRows
    <3>4. QED
      BY <2>1, <3>2, <3>3
  <2>3. CASE ReadFails
    BY <2>1, <2>3 DEF ReadFails, Progress, ParityOfRows
  <2>4. CASE CopyFirstRow
    <3>1. data = file /\ parity' = file[0] /\ file[0] \in Block
      BY <2>4 DEF CopyFirstRow, Progress, TypeOK, Rows
    <3>2. XorAll({0}, file) = file[0]
      <4>1. XorAll({} \cup {0}, file) = XorBlock(XorAll({}, file), file[0])
        BY <3>1, FS_EmptySet, XorAllInsert
      <4>2. QED
        BY <4>1, <3>1, XorAllEmpty, XorBlockZero
    <3>3. CASE NumRows = 1
      <4>1. Rows = {0}
        BY <3>3 DEF Rows
      <4>2. pc' = "delete" /\ parity' = XorAll(Rows, file)
        BY <2>4, <3>1, <3>2, <3>3, <4>1 DEF CopyFirstRow, FirstXored
      <4>3. QED
        BY <2>1, <2>4, <3>1, <4>2 DEF CopyFirstRow, Progress, ParityOfRows
    <3>4. CASE NumRows # 1
      <4>1. pc' = "xor" /\ i' = 1 /\ i' \in Rows
        BY <2>4, <3>4 DEF CopyFirstRow, FirstXored, Rows
      <4>2. Done' = {0}
        BY <4>1 DEF Done
      <4>3. QED
        BY <2>1, <2>4, <3>1, <3>2, <4>1, <4>2
        DEF CopyFirstRow, Progress, ParityOfRows
    <3>5. QED
      BY <3>3, <3>4
  <2>5. CASE XorRow
    BY <2>1, <2>5, XorOneMore
  <2>6. CASE DeleteRow
    BY <2>1, <2>6 DEF DeleteRow, Progress, ParityOfRows, Deleted, Rows
  <2>7. CASE CopyParity
    <3>1. pc' = "rebuild" /\ i' = 0 /\ i' \in Rows
      BY <2>7 DEF CopyParity, Rows
    <3>2. (Done \ {lost})' = {}
      BY <3>1 DEF Done
    <3>3. temp' = XorBlock(parity', XorAll((Done \ {lost})', file'))
      BY <2>7, <3>2, XorAllEmpty, XorBlockZero DEF CopyParity, TypeOK
    <3>4. QED
      BY <2>1, <2>7, <3>1, <3>3
      DEF CopyParity, Progress, ParityOfRows, Deleted, Rows
  <2>8. CASE RebuildRow
    BY <2>1, <2>8, RebuildOneMore
  <2>9. CASE StoreRow
    <3>1. data' = file
      BY <2>9 DEF StoreRow, Progress, Deleted, TypeOK
    <3>2. QED
      BY <2>1, <2>9, <3>1 DEF StoreRow, Progress, ParityOfRows, Rows
  <2>10. CASE Ended
    BY <2>10, <1>1 DEF Ended
  <2>11. QED
    BY <1>2, <2>2, <2>3, <2>4, <2>5, <2>6, <2>7, <2>8, <2>9, <2>10 DEF Next
<1>3. QED
  BY <1>1, <1>2

(* The parity block that compute_parity_block leaves is the XOR of all the *)
(* rows of the file, whatever their number.                                *)
THEOREM ParityComputed == Spec => []ParityOfRows
<1>1. ParityInvariant => ParityOfRows
  BY DEF ParityInvariant
<1>2. QED
  BY InitParity, ParityStep, <1>1, PTL DEF Spec

(* reconstruct_block gives back the deleted row, whichever it was: at its  *)
(* end the data are the rows of the file again.                            *)
THEOREM RowRestored == Spec => []RestoresRow
<1>1. ParityInvariant => RestoresRow
  BY DEF ParityInvariant, Progress, RestoresRow
<1>2. QED
  BY InitParity, ParityStep, <1>1, PTL DEF Spec
=============================================================================
