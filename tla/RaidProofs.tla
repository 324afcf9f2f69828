----------------------------- MODULE RaidProofs -----------------------------
(* Theorems about the RAID simulator, for any number of disks, blocks and  *)
(* commands: its types, and the streams between controller and disks.      *)
EXTENDS RaidSim, XorTheorems, SequenceTheorems

USE WordAssumption, DiskAssumption, ControllerAssumption, ShellAssumption

-----------------------------------------------------------------------------
(* Words, blocks and pipes.                                                *)

(* A block is a sequence of words, of a block's length. *)
LEMMA BlockIsSeq ==
  ASSUME NEW b \in Block
  PROVE  b \in Seq(Word) /\ Len(b) = BlockWords
BY DEF Block

LEMMA IntWordType ==
  ASSUME NEW n
  PROVE  IntWord(n) \in Word
BY DEF IntWord, Word

(* And a sequence of that many words is a block. *)
LEMMA SeqIsBlock ==
  ASSUME NEW q \in Seq(Word), Len(q) = BlockWords
  PROVE  q \in Block
BY DEF Block

(* The first words of a pipe, and what a read of them leaves. *)
LEMMA FirstOfPipe ==
  ASSUME NEW p \in Seq(Word), Len(p) >= BlockWords
  PROVE  First(p, BlockWords) \in Block
<1>1. SubSeq(p, 1, BlockWords) \in Seq(Word)
  OBVIOUS
<1>2. Len(SubSeq(p, 1, BlockWords)) = BlockWords
  OBVIOUS
<1>3. QED
  BY <1>1, <1>2, SeqIsBlock DEF First

LEMMA RestOfPipe ==
  ASSUME NEW p \in Seq(Word), NEW n \in Nat
  PROVE  Rest(p, n) \in Seq(Word)
BY DEF Rest

LEMMA TargetType ==
  ASSUME ControllerTypeOK
  PROVE  Target \in Disks /\ Home \in DataDisks
<1>1. blk % NumDisks \in DataDisks
  BY DEF ControllerTypeOK, BlockNums, DataDisks
<1>2. QED
  BY <1>1 DEF ControllerTypeOK, Target, Home, Disks, DataDisks, ParityDisk,
     CommandPhases, RestorePhases

-----------------------------------------------------------------------------
(* The variables have their types.                                         *)

(* TypeOK is not inductive: restore_disk_process sends restored_block[idx], *)
(* a block only if its counter stays within the disk, and the loops over    *)
(* the disks index controllers with theirs.                                *)
LoopOK ==
  /\ phase \in RestorePhases =>
       idx \in Stripes /\ pc \in {"cmd", "num", "data", "recv", "gone"}
  /\ pc \in {"init", "exit", "wait"} => idx \in Disks

Typed == TypeOK /\ LoopOK

LEMMA InitTyped == Init => Typed
<1> SUFFICES ASSUME Init PROVE Typed
  OBVIOUS
<1>1. ZeroDisk \in [Stripes -> Block]
  BY ZeroBlockType DEF ZeroDisk
<1>2. DiskTypeOK
  BY <1>1, ZeroBlockType DEF Init, DiskInit, DiskTypeOK, DiskPC, Word
<1>3. ControllerTypeOK
  BY <1>1, ZeroBlockType DEF Init, ControllerInit, ControllerTypeOK, PC,
     CommandPhases, BlockNums, Disks, Outcome, Silent
<1>4. QED
  BY <1>2, <1>3 DEF Init, ControllerInit, Typed, TypeOK, LoopOK, RestorePhases,
     Disks

LEMMA TerminateTyped ==
  ASSUME DiskTypeOK, NEW d \in Disks, Terminate(d)
  PROVE  /\ dpc' \in [Disks -> DiskPC]
         /\ sigint' \in [Disks -> BOOLEAN]
         /\ zombies' \in Nat
BY DEF DiskTypeOK, Terminate, Goto, DiskPC

LEMMA DiskStepTyped ==
  ASSUME DiskTypeOK, NEW d \in Disks, DiskStep(d)
  PROVE  DiskTypeOK'
<1> USE DEF DiskTypeOK
<1>1. CASE ReadCmd(d)
  <2>1. toDisk' \in [Disks -> Seq(Word)]
    BY <1>1, RestOfPipe DEF ReadCmd
  <2>2. dpc' \in [Disks -> DiskPC]
    BY <1>1 DEF ReadCmd, Goto, DiskPC
  <2>3. QED
    BY <1>1, <2>1, <2>2 DEF ReadCmd, fileVars
<1>2. CASE ReadNum(d)
  <2>1. toDisk' \in [Disks -> Seq(Word)]
    BY <1>2, RestOfPipe DEF ReadNum
  <2>2. dpc' \in [Disks -> DiskPC]
    BY <1>2 DEF ReadNum, Goto, DiskPC
  <2>3. dnum' \in [Disks -> Word]
    <3>1. toDisk[d][1] \in Word
      BY <1>2 DEF ReadNum
    <3>2. QED
      BY <1>2, <3>1 DEF ReadNum
  <2>4. QED
    BY <1>2, <2>1, <2>2, <2>3 DEF ReadNum, fileVars
<1>3. CASE Reply(d)
  <2>1. Requested(d) \subseteq Block
    BY DEF Requested
  <2>2. PICK b \in Block : fromDisk' = [fromDisk EXCEPT ![d] = @ \o b]
    BY <1>3, <2>1 DEF Reply
  <2>3. fromDisk' \in [Disks -> Seq(Word)]
    BY <2>2, BlockIsSeq
  <2>4. dpc' \in [Disks -> DiskPC]
    BY <1>3 DEF Reply, Goto, DiskPC
  <2>5. QED
    BY <1>3, <2>3, <2>4 DEF Reply, fileVars
<1>4. CASE StoreBlock(d)
  <2>1. First(toDisk[d], BlockWords) \in Block
    BY <1>4, FirstOfPipe DEF StoreBlock
  <2>2. blocks' \in [Disks -> [Stripes -> Block]]
    <3>1. CASE UNCHANGED blocks
      BY <3>1
    <3>2. CASE \E s \in Stripes :
                 blocks' = [blocks EXCEPT ![d][s] = First(toDisk[d], BlockWords)]
      BY <3>2, <2>1
    <3>3. QED
      BY <1>4, <3>1, <3>2 DEF StoreBlock
  <2>3. toDisk' \in [Disks -> Seq(Word)]
    BY <1>4, RestOfPipe DEF StoreBlock
  <2>4. dpc' \in [Disks -> DiskPC]
    BY <1>4 DEF StoreBlock, Goto, DiskPC
  <2>5. QED
    BY <1>4, <2>2, <2>3, <2>4 DEF StoreBlock, fileVars
<1>5. CASE Segfault(d)
  BY <1>5, TerminateTyped DEF Segfault, pipeVars, fileVars
<1>6. CASE FailDisk(d)
  BY <1>6, TerminateTyped DEF FailDisk, pipeVars, fileVars
<1>7. CASE OpenCheckpoint(d)
  BY <1>7 DEF OpenCheckpoint, Goto, DiskPC, pipeVars
<1>8. CASE SaveCheckpoint(d)
  BY <1>8, TerminateTyped DEF SaveCheckpoint, pipeVars
<1>9. CASE FailCheckpoint(d)
  BY <1>9, TerminateTyped DEF FailCheckpoint, pipeVars, fileVars
<1>10. CASE Killed(d)
  BY <1>10, TerminateTyped DEF Killed, pipeVars, fileVars
<1>11. QED
  BY <1>1, <1>2, <1>3, <1>4, <1>5, <1>6, <1>7, <1>8, <1>9, <1>10 DEF DiskStep

(* What the controller does to the disks. *)
LEMMA SpawnTyped ==
  ASSUME DiskTypeOK, NEW d \in Disks, NEW ends \in SUBSET Disks,
         Spawn(d, ends), parentUp' \in BOOLEAN
  PROVE  DiskTypeOK'
<1>1. ZeroDisk \in [Stripes -> Block]
  BY ZeroBlockType DEF ZeroDisk
<1>2. <<>> \in Seq(Word) /\ {} \in Word /\ "cmd" \in DiskPC
  BY DEF Word, DiskPC
<1>3. holds' \in [Disks -> SUBSET Disks]
  BY DEF DiskTypeOK, Spawn
<1>4. QED
  BY <1>1, <1>2, <1>3 DEF DiskTypeOK, Spawn, fileVars

LEMMA SendTyped ==
  ASSUME DiskTypeOK, NEW d \in Disks, NEW words \in Seq(Word), Send(d, words)
  PROVE  DiskTypeOK'
BY DEF DiskTypeOK, Send, fileVars

LEMMA TakeBlockTyped ==
  ASSUME Typed, TakeBlock
  PROVE  DiskTypeOK' /\ Received \in Block
<1>1. Target \in Disks
  BY TargetType DEF Typed, TypeOK
<1>2. fromDisk[Target] \in Seq(Word) /\ Len(fromDisk[Target]) >= BlockWords
  BY <1>1 DEF Typed, TypeOK, DiskTypeOK, TakeBlock
<1>3. Received \in Block
  BY <1>2, FirstOfPipe DEF Received
<1>4. Rest(fromDisk[Target], BlockWords) \in Seq(Word)
  BY <1>2, RestOfPipe
<1>5. QED
  BY <1>1, <1>3, <1>4 DEF Typed, TypeOK, DiskTypeOK, TakeBlock, fileVars

LEMMA OutcomeType ==
  /\ Written \in Outcome /\ Failed \in Outcome /\ Silent \in Outcome
  /\ \A b \in Block : Printed(b) \in Outcome
BY ZeroBlockType DEF Written, Failed, Silent, Printed, Outcome

LEMMA ReturnTyped ==
  ASSUME Typed, NEW o \in Outcome, Return(o)
  PROVE  ControllerTypeOK' /\ LoopOK'
<1>1. 0 \in BlockNums
  BY DEF BlockNums
<1>2. "shell" \in PC /\ "rb" \in CommandPhases /\ "rb" \notin RestorePhases
  BY DEF PC, CommandPhases, RestorePhases
<1>3. QED
  BY <1>1, <1>2, ZeroBlockType DEF Typed, TypeOK, ControllerTypeOK, LoopOK,
     Return, restoreVars

LEMMA GiveUpTyped ==
  ASSUME Typed, GiveUp
  PROVE  ControllerTypeOK' /\ LoopOK' /\ parentUp' \in BOOLEAN
<1>1. CASE phase \in CommandPhases /\ Return(Failed) /\ UNCHANGED parentUp
  BY <1>1, ReturnTyped, OutcomeType DEF Typed, TypeOK, DiskTypeOK
<1>2. CASE /\ ParentExits
           /\ UNCHANGED <<phase, blk, data, writeVars, restoreVars, idx, pid, out>>
  BY <1>2 DEF Typed, TypeOK, ControllerTypeOK, LoopOK, ParentExits, PC,
     writeVars, restoreVars
<1>3. QED
  BY <1>1, <1>2 DEF GiveUp

LEMMA SourceFromTyped ==
  ASSUME Typed, NEW i \in Nat, SourceFrom(i)
  PROVE  phase' \in RestorePhases /\ src' \in Disks
<1>1. SkipSelf(i) \in Nat
  BY DEF SkipSelf
<1>2. QED
  BY <1>1 DEF SourceFrom, RestorePhases, Disks

LEMMA NewIncarnationTyped ==
  ASSUME Typed, NewIncarnation, parentUp' \in BOOLEAN
  PROVE  DiskTypeOK' /\ gen' \in [Disks -> Nat]
<1>1. rdisk \in Disks /\ KeptByRestart(rdisk) \in SUBSET Disks
  BY DEF Typed, TypeOK, ControllerTypeOK, KeptByRestart, Disks, ParityDisk
<1>2. DiskTypeOK'
  BY <1>1, SpawnTyped DEF Typed, TypeOK, NewIncarnation
<1>3. QED
  BY <1>1, <1>2 DEF Typed, TypeOK, ControllerTypeOK, NewIncarnation

LEMMA ControllerStepTyped ==
  ASSUME Typed, ControllerStep
  PROVE  DiskTypeOK' /\ ControllerTypeOK' /\ LoopOK'
<1> USE DEF Typed, TypeOK, ControllerTypeOK, LoopOK
<1> DEFINE Untouched == <<phase, blk, data, writeVars, restoreVars, idx, pid, out>>
<1>0. Target \in Disks
  BY TargetType
<1>1. CASE InitDisk
  <2>1. Spawn(idx, {}) /\ parentUp' \in BOOLEAN
    BY <1>1 DEF InitDisk, KeptByInit, DiskTypeOK
  <2>2. idx \in Disks /\ DiskTypeOK'
    BY <1>1, <2>1, SpawnTyped DEF InitDisk
  <2>3. QED
    BY <1>1, <2>2 DEF InitDisk, PC, writeVars, restoreVars, Disks
<1>2. CASE InitFails
  BY <1>2 DEF InitFails, ParentExits, DiskTypeOK, PC, pipeVars, fileVars,
     writeVars, restoreVars
<1>3. CASE SendCmd
  <2>1. <<IF phase \in ReadPhases THEN CMD_READ ELSE CMD_WRITE>> \in Seq(Word)
    BY IntWordType DEF CMD_READ, CMD_WRITE
  <2>2. DiskTypeOK'
    BY <1>0, <1>3, <2>1, SendTyped DEF SendCmd
  <2>3. QED
    BY <1>3, <2>2 DEF SendCmd, PC, writeVars, restoreVars
<1>4. CASE FindDead
  BY <1>0, <1>4 DEF FindDead, diskVars, DiskTypeOK, PC, writeVars, RestorePhases,
     CommandPhases
<1>5. CASE SendNum
  <2>1. <<IntWord(Stripe)>> \in Seq(Word)
    BY IntWordType
  <2>2. DiskTypeOK'
    BY <1>0, <1>5, <2>1, SendTyped DEF SendNum
  <2>3. QED
    BY <1>5, <2>2 DEF SendNum, PC, writeVars, restoreVars
<1>6. CASE SendFails
  <2>1. ControllerTypeOK' /\ LoopOK' /\ parentUp' \in BOOLEAN
    BY <1>6, GiveUpTyped DEF SendFails
  <2>2. DiskTypeOK'
    BY <1>6, <2>1 DEF SendFails, DiskTypeOK, pipeVars, fileVars
  <2>3. QED
    BY <2>1, <2>2
<1>7. CASE RecvFails
  <2>1. ControllerTypeOK' /\ LoopOK' /\ parentUp' \in BOOLEAN
    BY <1>7, GiveUpTyped DEF RecvFails
  <2>2. DiskTypeOK'
    <3>1. fromDisk' \in [Disks -> Seq(Word)]
      BY <1>0, <1>7 DEF RecvFails, DiskTypeOK
    <3>2. QED
      BY <1>7, <2>1, <3>1 DEF RecvFails, DiskTypeOK, fileVars
  <2>3. QED
    BY <2>1, <2>2
<1>8. CASE RecvRead
  <2>1. DiskTypeOK' /\ Received \in Block
    BY <1>8, TakeBlockTyped DEF RecvRead
  <2>2. Printed(Received) \in Outcome /\ Return(Printed(Received))
    BY <1>8, <2>1, OutcomeType DEF RecvRead
  <2>3. QED
    BY <2>1, <2>2, ReturnTyped
<1>9. CASE RecvOldData
  <2>1. DiskTypeOK' /\ Received \in Block
    BY <1>9, TakeBlockTyped DEF RecvOldData
  <2>2. QED
    BY <1>9, <2>1 DEF RecvOldData, PC, restoreVars, CommandPhases, RestorePhases
<1>10. CASE ParityAllocFails
  <2>1. DiskTypeOK'
    BY <1>10, TakeBlockTyped DEF ParityAllocFails
  <2>2. QED
    BY <1>10, <2>1, ReturnTyped, OutcomeType DEF ParityAllocFails
<1>11. CASE RecvOldParity
  <2>1. DiskTypeOK' /\ Received \in Block
    BY <1>11, TakeBlockTyped DEF RecvOldParity
  <2>2. NewParity(Received) \in Block
    BY <2>1, XorBlockType DEF NewParity
  <2>3. QED
    BY <1>11, <2>1, <2>2 DEF RecvOldParity, PC, restoreVars, CommandPhases,
       RestorePhases
<1>12. CASE SendParity
  <2>1. DiskTypeOK'
    BY <1>0, <1>12, SendTyped, BlockIsSeq DEF SendParity
  <2>2. QED
    BY <1>12, <2>1 DEF SendParity, PC, writeVars, restoreVars, CommandPhases,
       RestorePhases
<1>13. CASE SendData
  <2>1. DiskTypeOK'
    BY <1>0, <1>13, SendTyped, BlockIsSeq DEF SendData
  <2>2. QED
    BY <1>13, <2>1, ReturnTyped, OutcomeType DEF SendData
<1>14. CASE RestartDisk
  <2>1. DiskTypeOK' /\ gen' \in [Disks -> Nat]
    BY <1>14, NewIncarnationTyped DEF RestartDisk, DiskTypeOK
  <2>2. rebuilt' \in [Stripes -> Block]
    BY <1>14, ZeroBlockType DEF RestartDisk, ZeroDisk
  <2>3. phase' \in RestorePhases /\ src' \in Disks
    BY <1>14, SourceFromTyped DEF RestartDisk
  <2>4. idx' \in Stripes /\ idx' \in Nat
    BY <1>14 DEF RestartDisk, Stripes
  <2>5. QED
    BY <1>14, <2>1, <2>2, <2>3, <2>4 DEF RestartDisk, PC, writeVars
<1>15. CASE RestartFails
  <2>1. parentUp' \in BOOLEAN
    BY <1>15 DEF RestartFails, ParentExits
  <2>2. DiskTypeOK' /\ gen' \in [Disks -> Nat]
    <3>1. CASE NewIncarnation
      BY <3>1, <2>1, NewIncarnationTyped
    <3>2. CASE UNCHANGED <<dpc, dnum, blocks, pipeVars, holds, sigint, fileVars,
                           zombies, gen>>
      BY <3>2, <2>1 DEF DiskTypeOK, pipeVars, fileVars
    <3>3. QED
      BY <1>15, <3>1, <3>2 DEF RestartFails
  <2>3. QED
    BY <1>15, <2>2 DEF RestartFails, ParentExits, PC, writeVars
<1>16. CASE RecvSource
  <2>1. DiskTypeOK' /\ Received \in Block
    BY <1>16, TakeBlockTyped DEF RecvSource
  <2>2. rebuilt' \in [Stripes -> Block]
    BY <1>16, <2>1, XorBlockType DEF RecvSource, XorInto, RestorePhases
  <2>3. phase' \in RestorePhases /\ src' \in Disks
    <3>1. src + 1 \in Nat /\ phase \in RestorePhases
      BY <1>16 DEF RecvSource, RestorePhases, Disks
    <3>2. CASE SourceFrom(src + 1)
      BY <3>1, <3>2, SourceFromTyped
    <3>3. CASE UNCHANGED <<phase, src>>
      BY <3>1, <3>3
    <3>4. QED
      BY <1>16, <3>2, <3>3 DEF RecvSource
  <2>4. idx' \in Stripes /\ idx' \in Nat
    BY <1>16 DEF RecvSource, Stripes, RestorePhases
  <2>5. QED
    BY <1>16, <2>1, <2>2, <2>3, <2>4 DEF RecvSource, PC, writeVars
<1>17. CASE SendRebuilt
  <2>1. idx \in Stripes /\ rebuilt[idx] \in Block
    BY <1>17 DEF SendRebuilt, RestorePhases
  <2>2. DiskTypeOK'
    BY <1>17, <2>1, SendTyped, BlockIsSeq DEF SendRebuilt
  <2>3. ZeroDisk \in [Stripes -> Block]
    BY ZeroBlockType DEF ZeroDisk
  <2>4. QED
    BY <1>17, <2>1, <2>2, <2>3 DEF SendRebuilt, PC, writeVars, Stripes,
       CommandPhases, RestorePhases
<1>18. CASE SendExit
  <2>1. DiskTypeOK'
    <3>1. CASE UNCHANGED diskVars
      BY <3>1 DEF diskVars, DiskTypeOK
    <3>2. CASE Send(idx, <<CMD_EXIT>>)
      <4>1. <<CMD_EXIT>> \in Seq(Word)
        BY IntWordType DEF CMD_EXIT
      <4>2. idx \in Disks
        BY <1>18 DEF SendExit
      <4>3. QED
        BY <3>2, <4>1, <4>2, SendTyped
    <3>3. QED
      BY <1>18, <3>1, <3>2 DEF SendExit
  <2>2. QED
    <3>1. idx \in Disks /\ idx \in Nat /\ phase \notin RestorePhases
      BY <1>18 DEF SendExit
    <3>2. /\ pc' \in {"exit", "wait"} /\ idx' \in Disks /\ idx' \in Nat
          /\ UNCHANGED <<phase, blk, data, writeVars, restoreVars, pid, out>>
      BY <1>18, <3>1 DEF SendExit, Disks
    <3>3. QED
      BY <2>1, <3>1, <3>2 DEF PC, writeVars, restoreVars
<1>19. CASE Wait
  <2>1. DiskTypeOK'
    <3>1. zombies' \in Nat /\ parentUp' \in BOOLEAN
      <4>1. /\ zombies \in Nat
            /\ zombies' = IF zombies > 0 THEN zombies - 1 ELSE 0
        BY <1>19 DEF Wait, DiskTypeOK
      <4>2. parentUp \in BOOLEAN /\ (parentUp' = FALSE \/ parentUp' = parentUp)
        BY <1>19 DEF Wait, ParentExits, DiskTypeOK
      <4>3. parentUp' \in BOOLEAN
        BY <4>2, Zenon
      <4>4. QED
        BY <4>1, <4>3
    <3>2. QED
      BY <1>19, <3>1 DEF Wait, DiskTypeOK, pipeVars, fileVars
  <2>2. QED
    BY <1>19, <2>1 DEF Wait, Waits, ParentExits, PC, writeVars, restoreVars, Disks
<1>20. QED
  BY <1>1, <1>2, <1>3, <1>4, <1>5, <1>6, <1>7, <1>8, <1>9, <1>10, <1>11, <1>12,
     <1>13, <1>14, <1>15, <1>16, <1>17, <1>18, <1>19 DEF ControllerStep

LEMMA CommandTyped ==
  ASSUME Typed, Command
  PROVE  Typed'
<1>1. ASSUME NEW b \in UserBlocks, ValidBlock(b)
      PROVE  b \in BlockNums
  BY <1>1 DEF UserBlocks, ValidBlock, BlockNums
<1>2. ops' \in 0..MaxOps
  BY DEF Typed, TypeOK, Command
<1>3. ASSUME NEW b \in UserBlocks, ReadBlock(b)
      PROVE  DiskTypeOK' /\ ControllerTypeOK' /\ LoopOK'
  BY <1>1, <1>3, OutcomeType DEF ReadBlock, Typed, TypeOK, DiskTypeOK,
     ControllerTypeOK, LoopOK, PC, CommandPhases, RestorePhases, diskVars,
     writeVars, restoreVars
<1>4. ASSUME NEW b \in UserBlocks, NEW v \in Data, WriteBlock(b, v)
      PROVE  DiskTypeOK' /\ ControllerTypeOK' /\ LoopOK'
  BY <1>1, <1>4, OutcomeType DEF WriteBlock, Typed, TypeOK, DiskTypeOK,
     ControllerTypeOK, LoopOK, PC, CommandPhases, RestorePhases, diskVars,
     writeVars, restoreVars
<1>5. ASSUME NEW d \in Killable, SimulateFailure(d)
      PROVE  DiskTypeOK' /\ ControllerTypeOK' /\ LoopOK'
  <2>1. sigint' \in [Disks -> BOOLEAN]
    BY <1>5 DEF SimulateFailure, Typed, TypeOK, DiskTypeOK
  <2>2. DiskTypeOK'
    BY <1>5, <2>1 DEF SimulateFailure, Typed, TypeOK, DiskTypeOK, pipeVars,
       fileVars
  <2>3. QED
    BY <1>5, <2>2, OutcomeType DEF SimulateFailure, Typed, TypeOK,
       ControllerTypeOK, LoopOK, writeVars, restoreVars
<1>6. QED
  BY <1>2, <1>3, <1>4, <1>5 DEF Command, Typed, TypeOK

LEMMA ExitTyped ==
  ASSUME Typed, Exit
  PROVE  Typed'
<1>1. DiskTypeOK'
  BY DEF Exit, CheckpointAndWait, Typed, TypeOK, DiskTypeOK, diskVars
<1>2. 0 \in Disks /\ phase \notin RestorePhases
  BY DEF Exit, CheckpointAndWait, Typed, LoopOK, Disks
<1>3. QED
  BY <1>1, <1>2 DEF Exit, CheckpointAndWait, Typed, TypeOK, ControllerTypeOK,
     LoopOK, PC, writeVars, restoreVars

LEMMA StepTyped == Typed /\ [Next]_vars => Typed'
<1> SUFFICES ASSUME Typed, [Next]_vars PROVE Typed'
  OBVIOUS
<1>1. CASE Command
  BY <1>1, CommandTyped
<1>2. CASE Exit
  BY <1>2, ExitTyped
<1>3. CASE Controlled
  BY <1>3, ControllerStepTyped DEF Controlled, Typed, TypeOK
<1>4. ASSUME NEW d \in Disks, Disk(d) PROVE Typed'
  <2>1. DiskTypeOK'
    BY <1>4, DiskStepTyped DEF Disk, Typed, TypeOK
  <2>2. QED
    BY <1>4, <2>1 DEF Disk, ctlVars, Typed, TypeOK, ControllerTypeOK, LoopOK
<1>5. CASE UNCHANGED vars
  BY <1>5 DEF vars, diskVars, ctlVars, Typed, TypeOK, DiskTypeOK,
     ControllerTypeOK, LoopOK
<1>6. QED
  BY <1>1, <1>2, <1>3, <1>4, <1>5 DEF Next, Terminated

(* Every variable of the simulator keeps its type: the controller only     *)
(* addresses disks and blocks that exist, and pipes only hold words.       *)
THEOREM Typing == Spec => []TypeOK
<1>1. Typed => TypeOK
  BY DEF Typed
<1>2. QED
  BY <1>1, InitTyped, StepTyped, PTL DEF Spec

-----------------------------------------------------------------------------
(* Pipes.                                                                  *)

(* The words q with the word w in front of them; one word; two words. *)
InFront(w, q) == <<w>> \o q
One(w) == <<w>>
Two(v, w) == <<v, w>>

(* What is in front of a pipe, and what a read of it leaves. *)
LEMMA WordInFront ==
  ASSUME NEW w \in Word, NEW q \in Seq(Word)
  PROVE  /\ InFront(w, q) \in Seq(Word)
         /\ Len(InFront(w, q)) = Len(q) + 1
         /\ InFront(w, q)[1] = w
         /\ Rest(InFront(w, q), 1) = q
<1>1. InFront(w, q) \in Seq(Word) /\ Len(InFront(w, q)) = Len(q) + 1
  BY DEF InFront
<1>2. InFront(w, q)[1] = w
  BY DEF InFront
<1>3. Rest(InFront(w, q), 1) = q
  <2>1. Rest(InFront(w, q), 1) \in Seq(Word)
    BY <1>1, RestOfPipe
  <2>2. Len(Rest(InFront(w, q), 1)) = Len(q)
    BY <1>1 DEF Rest
  <2>3. ASSUME NEW i \in 1..Len(q)
        PROVE  Rest(InFront(w, q), 1)[i] = q[i]
    BY <1>1 DEF Rest, InFront
  <2>4. QED
    BY <2>1, <2>2, <2>3, SeqEqual
<1>4. QED
  BY <1>1, <1>2, <1>3

LEMMA OneWord ==
  ASSUME NEW w \in Word
  PROVE  /\ One(w) \in Seq(Word) /\ Len(One(w)) = 1
         /\ One(w)[1] = w /\ One(w) # <<>>
         /\ Rest(One(w), 1) = <<>>
BY DEF Rest, One

LEMMA TwoWords ==
  ASSUME NEW v \in Word, NEW w \in Word
  PROVE  /\ Two(v, w) \in Seq(Word) /\ Len(Two(v, w)) = 2
         /\ Two(v, w)[1] = v /\ Two(v, w) # <<>>
         /\ Rest(Two(v, w), 1) = One(w)
         /\ One(v) \o One(w) = Two(v, w)
<1>1. /\ Two(v, w) \in Seq(Word) /\ Len(Two(v, w)) = 2
      /\ Two(v, w)[1] = v /\ Two(v, w)[2] = w /\ Two(v, w) # <<>>
  BY DEF Two
<1>2. One(w) \in Seq(Word) /\ Len(One(w)) = 1 /\ One(w)[1] = w
  BY DEF One
<1>3. Rest(Two(v, w), 1) = One(w)
  <2>1. /\ Rest(Two(v, w), 1) \in Seq(Word)
        /\ Len(Rest(Two(v, w), 1)) = 1
        /\ Rest(Two(v, w), 1)[1] = w
    BY <1>1 DEF Rest
  <2>2. QED
    BY <1>2, <2>1, SeqEqual
<1>4. One(v) \o One(w) = Two(v, w)
  <2>1. /\ One(v) \o One(w) \in Seq(Word) /\ Len(One(v) \o One(w)) = 2
        /\ (One(v) \o One(w))[1] = v /\ (One(v) \o One(w))[2] = w
    BY DEF One
  <2>2. QED
    BY <1>1, <2>1, SeqEqual
<1>5. QED
  BY <1>1, <1>3, <1>4

LEMMA BlockInFront ==
  ASSUME NEW b \in Block, NEW q \in Seq(Word)
  PROVE  /\ b \o q \in Seq(Word)
         /\ Len(b \o q) = Len(q) + BlockWords
         /\ First(b \o q, BlockWords) = b
         /\ Rest(b \o q, BlockWords) = q
<1>1. b \in Seq(Word) /\ Len(b) = BlockWords /\ BlockWords \in Nat
  BY BlockIsSeq
<1>2. b \o q \in Seq(Word) /\ Len(b \o q) = Len(q) + BlockWords
  BY <1>1
<1>3. First(b \o q, BlockWords) = b
  <2>1. Len(b \o q) >= BlockWords
    BY <1>1, <1>2
  <2>2. First(b \o q, BlockWords) \in Block
    BY <1>2, <2>1, FirstOfPipe
  <2>3. /\ First(b \o q, BlockWords) \in Seq(Word)
        /\ Len(First(b \o q, BlockWords)) = BlockWords
    BY <2>2, BlockIsSeq
  <2>4. ASSUME NEW i \in 1..BlockWords
        PROVE  First(b \o q, BlockWords)[i] = b[i]
    BY <1>1, <1>2 DEF First
  <2>5. QED
    BY <1>1, <2>3, <2>4
<1>4. Rest(b \o q, BlockWords) = q
  <2>1. Rest(b \o q, BlockWords) \in Seq(Word)
    BY <1>1, <1>2, RestOfPipe
  <2>2. Len(Rest(b \o q, BlockWords)) = Len(q)
    BY <1>1, <1>2 DEF Rest
  <2>3. ASSUME NEW i \in 1..Len(q)
        PROVE  Rest(b \o q, BlockWords)[i] = q[i]
    BY <1>1, <1>2 DEF Rest
  <2>4. QED
    BY <2>1, <2>2, <2>3
<1>5. QED
  BY <1>2, <1>3, <1>4

-----------------------------------------------------------------------------
(* Both ends of a pipe.                                                    *)

(* Disk d runs, and is the process it was started as. *)
Original(d) == gen[d] = 0 /\ Alive(d)

(* A whole write request, and the words t behind it. *)
WriteThen(s, b, t) == InFront(CMD_WRITE, InFront(IntWord(s), b \o t))

(* Disk d has at most one whole write request to carry out, which it may   *)
(* have begun to read, and then finds the words t.                         *)
Whole(d, t) ==
  \/ At(d, "cmd") /\ toDisk[d] = t
  \/ \E s \in Stripes, b \in Block :
       \/ At(d, "cmd") /\ toDisk[d] = WriteThen(s, b, t)
       \/ At(d, "wnum") /\ toDisk[d] = InFront(IntWord(s), b \o t)
       \/ At(d, "wdata") /\ dnum[d] = IntWord(s) /\ toDisk[d] = b \o t

NoReply(d) == fromDisk[d] = <<>>

(* No request has been begun; and the disk has nothing left to do either.  *)
Idle(d) == Whole(d, <<>>) /\ NoReply(d)
Quiet(d) == At(d, "cmd") /\ toDisk[d] = <<>> /\ NoReply(d)

(* CMD_READ has been sent; the number, s, as well; the disk may have        *)
(* answered.                                                               *)
ReadBegun(d) ==
  /\ \/ Whole(d, One(CMD_READ))
     \/ At(d, "rnum") /\ toDisk[d] = <<>>
  /\ NoReply(d)
ReadSent(d, s) ==
  \/ /\ \/ Whole(d, Two(CMD_READ, IntWord(s)))
        \/ At(d, "rnum") /\ toDisk[d] = One(IntWord(s))
        \/ At(d, "reply") /\ dnum[d] = IntWord(s) /\ toDisk[d] = <<>>
     /\ NoReply(d)
  \/ At(d, "cmd") /\ toDisk[d] = <<>> /\ fromDisk[d] = blocks[d][s]

(* CMD_WRITE has been sent to a disk that had nothing to do; the number,   *)
(* s, as well.                                                             *)
WriteBegun(d) ==
  /\ \/ At(d, "cmd") /\ toDisk[d] = One(CMD_WRITE)
     \/ At(d, "wnum") /\ toDisk[d] = <<>>
  /\ NoReply(d)
WriteNumbered(d, s) ==
  /\ \/ At(d, "cmd") /\ toDisk[d] = Two(CMD_WRITE, IntWord(s))
     \/ At(d, "wnum") /\ toDisk[d] = One(IntWord(s))
     \/ At(d, "wdata") /\ dnum[d] = IntWord(s) /\ toDisk[d] = <<>>
  /\ NoReply(d)

ExitSent(d) ==
  /\ \/ Whole(d, One(CMD_EXIT))
     \/ dpc[d] \in {"ckpt", "save"} /\ toDisk[d] = <<>>
  /\ NoReply(d)

(* The part of the current command that is under way, also while a disk is *)
(* restored on its behalf.                                                 *)
CommandPhase == IF phase \in RestorePhases THEN caller ELSE phase

(* write_block has read from disk d and is to write to it next. *)
ToBeWritten(d) ==
  \/ d = Home /\ CommandPhase \in {"R2", "W1", "W2"}
  \/ d = ParityDisk /\ CommandPhase = "W1"

Waiting(d) == IF ToBeWritten(d) THEN Quiet(d) ELSE Idle(d)

(* Where the controller is in its conversation with disk d is where the    *)
(* disk, with what is in its pipes, takes it to be.                        *)
Framed(d) ==
  /\ pc = "init" => Quiet(d)
  /\ pc = "shell" => Idle(d)
  /\ pc \in {"cmd", "restart"} => Waiting(d)
  /\ pc \in {"num", "data", "recv"} /\ d # Target => Waiting(d)
  /\ pc = "num" /\ d = Target =>
       IF phase \in ReadPhases THEN ReadBegun(d) ELSE WriteBegun(d)
  /\ pc = "data" /\ d = Target => WriteNumbered(d, Stripe)
  /\ pc = "recv" /\ d = Target => ReadSent(d, Stripe)
  /\ pc = "exit" => IF d < idx THEN ExitSent(d) ELSE Idle(d)
  /\ pc = "wait" => ExitSent(d)
  /\ pc = "gone" => Idle(d) \/ ExitSent(d)

CallerTarget ==
  IF caller \in {"rb", "R1", "W2"} THEN Home ELSE ParityDisk

(* The request the controller makes fits its phase, and the disk that      *)
(* restore_disk_process works on is the target of its caller.              *)
PhaseOK ==
  /\ pc \in {"init", "shell", "exit", "wait"} => phase = "rb"
  /\ pc = "data" => phase \notin ReadPhases
  /\ pc = "recv" => phase \in ReadPhases
  /\ pc = "restart" => caller = phase /\ rdisk = Target /\ ~Alive(rdisk)
  /\ phase \in RestorePhases => rdisk = CallerTarget /\ gen[rdisk] # 0
  /\ phase = "RR" => src \in DataDisks \ {rdisk}

FramingInv == PhaseOK /\ \A d \in Disks : Original(d) => Framed(d)


-----------------------------------------------------------------------------
(* What a disk makes of what it is sent.                                   *)

LEMMA Commands ==
  /\ CMD_READ \in Word /\ CMD_WRITE \in Word /\ CMD_EXIT \in Word
  /\ CMD_READ # CMD_WRITE /\ CMD_READ # CMD_EXIT /\ CMD_WRITE # CMD_EXIT
<1>1. IntWord(0) # IntWord(1) /\ IntWord(0) # IntWord(2) /\ IntWord(1) # IntWord(2)
  OBVIOUS
<1>2. QED
  BY <1>1, IntWordType DEF CMD_READ, CMD_WRITE, CMD_EXIT

LEMMA Numbers ==
  ASSUME NEW r \in Stripes, NEW s \in Stripes, IntWord(r) = IntWord(s)
  PROVE  r = s
BY DEF Stripes

LEMMA StripeInArray ==
  ASSUME NEW d \in Disks, NEW s \in Stripes, dnum[d] = IntWord(s)
  PROVE  ~OutOfArray(d) /\ \A r \in Stripes : InArray(d, r) <=> r = s
BY Numbers DEF OutOfArray, InArray

LEMMA NumberInFront ==
  ASSUME NEW s \in Stripes, NEW q \in Seq(Word)
  PROVE  /\ InFront(IntWord(s), q) \in Seq(Word)
         /\ Len(InFront(IntWord(s), q)) = Len(q) + 1
         /\ InFront(IntWord(s), q)[1] = IntWord(s)
         /\ Rest(InFront(IntWord(s), q), 1) = q
BY WordInFront, IntWordType

LEMMA WriteInFront ==
  ASSUME NEW s \in Stripes, NEW b \in Block, NEW t \in Seq(Word)
  PROVE  /\ b \o t \in Seq(Word)
         /\ WriteThen(s, b, t) \in Seq(Word)
         /\ WriteThen(s, b, t)[1] = CMD_WRITE
         /\ Rest(WriteThen(s, b, t), 1) = InFront(IntWord(s), b \o t)
BY BlockInFront, NumberInFront, WordInFront, Commands DEF WriteThen

(* What a disk that goes on does next depends on where it is. *)
LEMMA DiskGoesOn ==
  ASSUME DiskTypeOK, NEW d \in Disks, DiskStep(d), Alive(d)'
  PROVE  \/ At(d, "cmd") /\ ReadCmd(d)
         \/ dpc[d] \in {"rnum", "wnum"} /\ ReadNum(d)
         \/ At(d, "reply") /\ Reply(d)
         \/ At(d, "wdata") /\ StoreBlock(d)
         \/ At(d, "ckpt") /\ OpenCheckpoint(d)
<1>1. ~Segfault(d) /\ ~FailDisk(d) /\ ~SaveCheckpoint(d) /\ ~FailCheckpoint(d)
        /\ ~Killed(d)
  BY DEF Segfault, FailDisk, SaveCheckpoint, FailCheckpoint, Killed, Terminate,
     Alive, DiskTypeOK, Goto
<1>2. QED
  BY <1>1 DEF DiskStep, ReadCmd, ReadNum, Reply, StoreBlock, OpenCheckpoint, At

(* A disk works off the write request in front, and then turns to what is  *)
(* behind.                                                                 *)
LEMMA WholeStep ==
  ASSUME DiskTypeOK, NEW d \in Disks, NEW t \in Seq(Word),
         Whole(d, t), DiskStep(d), Alive(d)'
  PROVE  \/ Whole(d, t)' /\ UNCHANGED fromDisk
         \/ At(d, "cmd") /\ toDisk[d] = t /\ ReadCmd(d)
<1> USE DEF DiskTypeOK, At, Goto
<1>1. CASE At(d, "cmd") /\ toDisk[d] = t
  BY <1>1, DiskGoesOn
<1>2. ASSUME NEW s \in Stripes, NEW b \in Block,
             At(d, "cmd"), toDisk[d] = WriteThen(s, b, t)
      PROVE  Whole(d, t)' /\ UNCHANGED fromDisk
  <2>1. ReadCmd(d)
    BY <1>2, DiskGoesOn
  <2>2. dpc'[d] = "wnum" /\ toDisk'[d] = InFront(IntWord(s), b \o t)
    <3>1. /\ WriteThen(s, b, t)[1] = CMD_WRITE
          /\ Rest(WriteThen(s, b, t), 1) = InFront(IntWord(s), b \o t)
      BY WriteInFront
    <3>2. QED
      BY <1>2, <2>1, <3>1, Commands DEF ReadCmd
  <2>3. QED
    BY <2>1, <2>2 DEF ReadCmd, Whole
<1>3. ASSUME NEW s \in Stripes, NEW b \in Block,
             At(d, "wnum"), toDisk[d] = InFront(IntWord(s), b \o t)
      PROVE  Whole(d, t)' /\ UNCHANGED fromDisk
  <2>1. ReadNum(d)
    BY <1>3, DiskGoesOn
  <2>2. dpc'[d] = "wdata" /\ dnum'[d] = IntWord(s) /\ toDisk'[d] = b \o t
    <3>1. /\ InFront(IntWord(s), b \o t)[1] = IntWord(s)
          /\ Rest(InFront(IntWord(s), b \o t), 1) = b \o t
      BY NumberInFront, BlockInFront
    <3>2. QED
      BY <1>3, <2>1, <3>1 DEF ReadNum
  <2>3. QED
    BY <2>1, <2>2 DEF ReadNum, Whole
<1>4. ASSUME NEW s \in Stripes, NEW b \in Block,
             At(d, "wdata"), dnum[d] = IntWord(s), toDisk[d] = b \o t
      PROVE  Whole(d, t)' /\ UNCHANGED fromDisk
  <2>1. StoreBlock(d)
    BY <1>4, DiskGoesOn
  <2>2. dpc'[d] = "cmd" /\ toDisk'[d] = t
    <3>1. Rest(b \o t, BlockWords) = t
      BY BlockInFront
    <3>2. QED
      BY <1>4, <2>1, <3>1 DEF StoreBlock
  <2>3. QED
    BY <2>1, <2>2 DEF StoreBlock, Whole
<1>5. QED
  BY <1>1, <1>2, <1>3, <1>4 DEF Whole

(* Every state of a conversation lasts until the controller goes on with   *)
(* it, whatever the disk does.                                             *)
LEMMA QuietStep ==
  ASSUME DiskTypeOK, NEW d \in Disks, DiskStep(d), Alive(d)', Quiet(d)
  PROVE  Quiet(d)'
BY DiskGoesOn DEF Quiet, ReadCmd, At

LEMMA IdleStep ==
  ASSUME DiskTypeOK, NEW d \in Disks, DiskStep(d), Alive(d)', Idle(d)
  PROVE  Idle(d)'
<1>1. <<>> \in Seq(Word)
  OBVIOUS
<1>2. Whole(d, <<>>)' /\ UNCHANGED fromDisk
  <2>1. ~ReadCmd(d) \/ toDisk[d] # <<>>
    BY DEF ReadCmd
  <2>2. QED
    BY <1>1, <2>1, WholeStep DEF Idle
<1>3. QED
  BY <1>2 DEF Idle, NoReply

LEMMA ReadBegunStep ==
  ASSUME DiskTypeOK, NEW d \in Disks, DiskStep(d), Alive(d)', ReadBegun(d)
  PROVE  ReadBegun(d)'
<1> USE DEF DiskTypeOK, At, Goto
<1>1. One(CMD_READ) \in Seq(Word)
  BY OneWord, Commands
<1>2. CASE Whole(d, One(CMD_READ))
  <2>1. CASE Whole(d, One(CMD_READ))' /\ UNCHANGED fromDisk
    BY <2>1 DEF ReadBegun, NoReply
  <2>2. CASE At(d, "cmd") /\ toDisk[d] = One(CMD_READ) /\ ReadCmd(d)
    <3>1. dpc'[d] = "rnum" /\ toDisk'[d] = <<>>
      BY <2>2, OneWord, Commands DEF ReadCmd
    <3>2. QED
      BY <2>2, <3>1 DEF ReadBegun, NoReply, ReadCmd
  <2>3. QED
    BY <1>1, <1>2, <2>1, <2>2, WholeStep
<1>3. CASE At(d, "rnum") /\ toDisk[d] = <<>>
  <2>1. Len(toDisk[d]) = 0 /\ BlockWords # 0
    BY <1>3
  <2>2. ~ReadNum(d)
    BY <2>1 DEF ReadNum
  <2>3. QED
    BY <1>3, <2>2, DiskGoesOn
<1>4. QED
  BY <1>2, <1>3 DEF ReadBegun

LEMMA ReadSentStep ==
  ASSUME DiskTypeOK, NEW d \in Disks, NEW s \in Stripes,
         DiskStep(d), Alive(d)', ReadSent(d, s)
  PROVE  ReadSent(d, s)'
<1> DEFINE w == IntWord(s)
           t == Two(CMD_READ, w)
<1> USE DEF DiskTypeOK, At, Goto
<1>1. t \in Seq(Word) /\ w \in Word
  BY TwoWords, Commands, IntWordType
<1>2. CASE Whole(d, t) /\ NoReply(d)
  <2>1. CASE Whole(d, t)' /\ UNCHANGED fromDisk
    BY <1>2, <2>1 DEF ReadSent, NoReply
  <2>2. CASE At(d, "cmd") /\ toDisk[d] = t /\ ReadCmd(d)
    <3>1. t[1] = CMD_READ /\ Rest(t, 1) = One(w)
      BY <1>1, TwoWords, Commands
    <3>2. dpc'[d] = "rnum" /\ toDisk'[d] = One(w)
      BY <2>2, <3>1, Commands DEF ReadCmd
    <3>3. QED
      BY <1>2, <2>2, <3>2 DEF ReadSent, NoReply, ReadCmd
  <2>3. QED
    BY <1>1, <1>2, <2>1, <2>2, WholeStep
<1>3. CASE At(d, "rnum") /\ toDisk[d] = One(w) /\ NoReply(d)
  <2>1. ReadNum(d)
    BY <1>3, DiskGoesOn
  <2>2. One(w)[1] = w /\ Rest(One(w), 1) = <<>>
    BY <1>1, OneWord
  <2>3. dpc'[d] = "reply" /\ toDisk'[d] = <<>> /\ dnum'[d] = w
    BY <1>3, <2>1, <2>2 DEF ReadNum
  <2>4. QED
    BY <1>3, <2>1, <2>3 DEF ReadNum, ReadSent, NoReply
<1>4. CASE At(d, "reply") /\ dnum[d] = w /\ toDisk[d] = <<>> /\ NoReply(d)
  <2>1. Reply(d)
    BY <1>4, DiskGoesOn
  <2>2. Requested(d) = {blocks[d][s]}
    BY <1>4, StripeInArray DEF Requested
  <2>3. blocks[d][s] \in Block /\ blocks[d][s] \in Seq(Word)
    BY BlockIsSeq
  <2>4. fromDisk'[d] = blocks[d][s]
    BY <1>4, <2>1, <2>2, <2>3 DEF Reply, NoReply
  <2>5. QED
    BY <1>4, <2>1, <2>4 DEF Reply, ReadSent
<1>5. CASE At(d, "cmd") /\ toDisk[d] = <<>>
  <2>1. Len(toDisk[d]) = 0 /\ BlockWords # 0
    BY <1>5
  <2>2. ~ReadCmd(d)
    BY <2>1 DEF ReadCmd
  <2>3. QED
    BY <1>5, <2>2, DiskGoesOn
<1>6. QED
  BY <1>2, <1>3, <1>4, <1>5 DEF ReadSent

LEMMA WriteBegunStep ==
  ASSUME DiskTypeOK, NEW d \in Disks, DiskStep(d), Alive(d)', WriteBegun(d)
  PROVE  WriteBegun(d)'
<1> USE DEF DiskTypeOK, At, Goto
<1>1. CASE At(d, "cmd") /\ toDisk[d] = One(CMD_WRITE)
  <2>1. ReadCmd(d)
    BY <1>1, DiskGoesOn
  <2>2. dpc'[d] = "wnum" /\ toDisk'[d] = <<>>
    BY <1>1, <2>1, OneWord, Commands DEF ReadCmd
  <2>3. QED
    BY <2>1, <2>2 DEF WriteBegun, NoReply, ReadCmd
<1>2. CASE At(d, "wnum") /\ toDisk[d] = <<>>
  <2>1. Len(toDisk[d]) = 0 /\ BlockWords # 0
    BY <1>2
  <2>2. ~ReadNum(d)
    BY <2>1 DEF ReadNum
  <2>3. QED
    BY <1>2, <2>2, DiskGoesOn
<1>3. QED
  BY <1>1, <1>2 DEF WriteBegun

LEMMA WriteNumberedStep ==
  ASSUME DiskTypeOK, NEW d \in Disks, NEW s \in Stripes,
         DiskStep(d), Alive(d)', WriteNumbered(d, s)
  PROVE  WriteNumbered(d, s)'
<1> DEFINE w == IntWord(s)
<1> USE DEF DiskTypeOK, At, Goto
<1>1. w \in Word
  BY IntWordType
<1>2. CASE At(d, "cmd") /\ toDisk[d] = Two(CMD_WRITE, w)
  <2>1. ReadCmd(d)
    BY <1>2, DiskGoesOn
  <2>2. Two(CMD_WRITE, w)[1] = CMD_WRITE /\ Rest(Two(CMD_WRITE, w), 1) = One(w)
    BY <1>1, TwoWords, Commands
  <2>3. dpc'[d] = "wnum" /\ toDisk'[d] = One(w)
    BY <1>2, <2>1, <2>2, Commands DEF ReadCmd
  <2>4. QED
    BY <2>1, <2>3 DEF WriteNumbered, NoReply, ReadCmd
<1>3. CASE At(d, "wnum") /\ toDisk[d] = One(w)
  <2>1. ReadNum(d)
    BY <1>3, DiskGoesOn
  <2>2. One(w)[1] = w /\ Rest(One(w), 1) = <<>>
    BY <1>1, OneWord
  <2>3. dpc'[d] = "wdata" /\ toDisk'[d] = <<>> /\ dnum'[d] = w
    BY <1>3, <2>1, <2>2 DEF ReadNum
  <2>4. QED
    BY <2>1, <2>3 DEF ReadNum, WriteNumbered, NoReply
<1>4. CASE At(d, "wdata") /\ toDisk[d] = <<>>
  <2>1. Len(toDisk[d]) = 0 /\ BlockWords # 0
    BY <1>4
  <2>2. ~StoreBlock(d)
    BY <2>1 DEF StoreBlock
  <2>3. QED
    BY <1>4, <2>2, DiskGoesOn
<1>5. QED
  BY <1>2, <1>3, <1>4 DEF WriteNumbered

LEMMA ExitSentStep ==
  ASSUME DiskTypeOK, NEW d \in Disks, DiskStep(d), Alive(d)', ExitSent(d)
  PROVE  ExitSent(d)'
<1> USE DEF DiskTypeOK, At, Goto
<1>1. One(CMD_EXIT) \in Seq(Word)
  BY OneWord, Commands
<1>2. CASE Whole(d, One(CMD_EXIT))
  <2>1. CASE Whole(d, One(CMD_EXIT))' /\ UNCHANGED fromDisk
    BY <2>1 DEF ExitSent, NoReply
  <2>2. CASE At(d, "cmd") /\ toDisk[d] = One(CMD_EXIT) /\ ReadCmd(d)
    <3>1. dpc'[d] = "ckpt" /\ toDisk'[d] = <<>>
      BY <2>2, OneWord, Commands DEF ReadCmd
    <3>2. QED
      BY <2>2, <3>1 DEF ExitSent, NoReply, ReadCmd
  <2>3. QED
    BY <1>1, <1>2, <2>1, <2>2, WholeStep
<1>3. CASE dpc[d] \in {"ckpt", "save"} /\ toDisk[d] = <<>>
  <2>1. OpenCheckpoint(d)
    BY <1>3, DiskGoesOn
  <2>2. QED
    BY <1>3, <2>1 DEF OpenCheckpoint, ExitSent, NoReply, pipeVars
<1>4. QED
  BY <1>2, <1>3 DEF ExitSent

-----------------------------------------------------------------------------
(* What the controller's side does to the conversation.                    *)

(* The state of a disk that nobody touches is what it was. *)
LEMMA Undisturbed ==
  ASSUME NEW d \in Disks,
         dpc'[d] = dpc[d], dnum'[d] = dnum[d], blocks'[d] = blocks[d],
         toDisk'[d] = toDisk[d], fromDisk'[d] = fromDisk[d]
  PROVE  /\ Idle(d)' <=> Idle(d)
         /\ Quiet(d)' <=> Quiet(d)
         /\ ReadBegun(d)' <=> ReadBegun(d)
         /\ WriteBegun(d)' <=> WriteBegun(d)
         /\ ExitSent(d)' <=> ExitSent(d)
         /\ \A s \in Stripes : /\ ReadSent(d, s)' <=> ReadSent(d, s)
                               /\ WriteNumbered(d, s)' <=> WriteNumbered(d, s)
<1> USE DEF Whole, At, NoReply
<1>1. Idle(d)' <=> Idle(d)
  BY DEF Idle
<1>2. Quiet(d)' <=> Quiet(d)
  BY DEF Quiet
<1>3. ReadBegun(d)' <=> ReadBegun(d)
  BY DEF ReadBegun
<1>4. WriteBegun(d)' <=> WriteBegun(d)
  BY DEF WriteBegun
<1>5. ExitSent(d)' <=> ExitSent(d)
  BY DEF ExitSent
<1>6. ASSUME NEW s \in Stripes
      PROVE  /\ ReadSent(d, s)' <=> ReadSent(d, s)
             /\ WriteNumbered(d, s)' <=> WriteNumbered(d, s)
  BY DEF ReadSent, WriteNumbered
<1>7. QED
  BY <1>1, <1>2, <1>3, <1>4, <1>5, <1>6

LEMMA QuietIsIdle ==
  ASSUME NEW d \in Disks, Quiet(d)
  PROVE  Idle(d)
BY DEF Quiet, Idle, Whole

LEMMA WaitingIsIdle ==
  ASSUME NEW d \in Disks, Waiting(d)
  PROVE  Idle(d)
BY QuietIsIdle DEF Waiting

(* Words sent to disk d go behind what is in its pipe. *)
LEMMA SendAppends ==
  ASSUME DiskTypeOK, NEW d \in Disks, NEW words \in Seq(Word), Send(d, words)
  PROVE  /\ toDisk'[d] = toDisk[d] \o words
         /\ \A e \in Disks : e # d => toDisk'[e] = toDisk[e]
         /\ UNCHANGED <<dpc, dnum, blocks, fromDisk, holds, sigint, fileState,
                        image, zombies, parentUp>>
BY DEF Send, DiskTypeOK, fileVars

LEMMA BehindNothing ==
  ASSUME NEW u \in Seq(Word)
  PROVE  <<>> \o u = u /\ u \o <<>> = u
BY ConcatEmptySeq

LEMMA BehindWord ==
  ASSUME NEW w \in Word, NEW q \in Seq(Word), NEW u \in Seq(Word)
  PROVE  InFront(w, q) \o u = InFront(w, q \o u)
<1>1. <<w>> \in Seq(Word)
  OBVIOUS
<1>2. QED
  BY <1>1, ConcatAssociative DEF InFront

LEMMA BehindBlock ==
  ASSUME NEW b \in Block, NEW t \in Seq(Word), NEW u \in Seq(Word)
  PROVE  (b \o t) \o u = b \o (t \o u)
BY BlockIsSeq, ConcatAssociative

LEMMA BehindNumber ==
  ASSUME NEW s \in Stripes, NEW b \in Block, NEW t \in Seq(Word), NEW u \in Seq(Word)
  PROVE  InFront(IntWord(s), b \o t) \o u = InFront(IntWord(s), b \o (t \o u))
<1>1. b \o t \in Seq(Word) /\ IntWord(s) \in Word
  BY BlockInFront, IntWordType
<1>2. InFront(IntWord(s), b \o t) \o u = InFront(IntWord(s), (b \o t) \o u)
  BY <1>1, BehindWord
<1>3. (b \o t) \o u = b \o (t \o u)
  BY BehindBlock
<1>4. QED
  BY <1>2, <1>3

LEMMA BehindWrite ==
  ASSUME NEW s \in Stripes, NEW b \in Block, NEW t \in Seq(Word), NEW u \in Seq(Word)
  PROVE  WriteThen(s, b, t) \o u = WriteThen(s, b, t \o u)
<1>1. b \o t \in Seq(Word)
  BY BlockInFront
<1>2. InFront(IntWord(s), b \o t) \in Seq(Word) /\ CMD_WRITE \in Word
  BY <1>1, NumberInFront, Commands
<1>3. WriteThen(s, b, t) \o u = InFront(CMD_WRITE, InFront(IntWord(s), b \o t) \o u)
  BY <1>2, BehindWord DEF WriteThen
<1>4. InFront(IntWord(s), b \o t) \o u = InFront(IntWord(s), b \o (t \o u))
  BY BehindNumber
<1>5. QED
  BY <1>3, <1>4 DEF WriteThen

LEMMA WholeSend ==
  ASSUME DiskTypeOK, NEW d \in Disks, NEW t \in Seq(Word), NEW u \in Seq(Word),
         Whole(d, t), Send(d, u)
  PROVE  Whole(d, t \o u)'
<1>1. /\ toDisk'[d] = toDisk[d] \o u
      /\ dpc'[d] = dpc[d] /\ dnum'[d] = dnum[d]
  BY SendAppends
<1>2. CASE At(d, "cmd") /\ toDisk[d] = t
  BY <1>1, <1>2 DEF Whole, At
<1>3. ASSUME NEW s \in Stripes, NEW b \in Block,
             At(d, "cmd"), toDisk[d] = WriteThen(s, b, t)
      PROVE  Whole(d, t \o u)'
  <2>1. toDisk'[d] = WriteThen(s, b, t \o u)
    BY <1>1, <1>3, BehindWrite
  <2>2. QED
    BY <1>1, <1>3, <2>1 DEF Whole, At
<1>4. ASSUME NEW s \in Stripes, NEW b \in Block,
             At(d, "wnum"), toDisk[d] = InFront(IntWord(s), b \o t)
      PROVE  Whole(d, t \o u)'
  <2>1. toDisk'[d] = InFront(IntWord(s), b \o (t \o u))
    BY <1>1, <1>4, BehindNumber
  <2>2. QED
    BY <1>1, <1>4, <2>1 DEF Whole, At
<1>5. ASSUME NEW s \in Stripes, NEW b \in Block,
             At(d, "wdata"), dnum[d] = IntWord(s), toDisk[d] = b \o t
      PROVE  Whole(d, t \o u)'
  <2>1. toDisk'[d] = b \o (t \o u)
    BY <1>1, <1>5, BehindBlock
  <2>2. QED
    BY <1>1, <1>5, <2>1 DEF Whole, At
<1>6. QED
  BY <1>2, <1>3, <1>4, <1>5 DEF Whole

(* Each part of a request takes the conversation one state further.        *)
LEMMA SendReadCommand ==
  ASSUME DiskTypeOK, NEW d \in Disks, Idle(d), Send(d, One(CMD_READ))
  PROVE  ReadBegun(d)'
<1>1. One(CMD_READ) \in Seq(Word) /\ <<>> \in Seq(Word)
  BY OneWord, Commands
<1>2. Whole(d, <<>> \o One(CMD_READ))'
  BY <1>1, WholeSend DEF Idle
<1>3. Whole(d, One(CMD_READ))'
  BY <1>1, <1>2, BehindNothing DEF Whole
<1>4. QED
  BY <1>1, <1>3, SendAppends DEF ReadBegun, NoReply, Idle

LEMMA SendReadNumber ==
  ASSUME DiskTypeOK, NEW d \in Disks, NEW s \in Stripes,
         ReadBegun(d), Send(d, One(IntWord(s)))
  PROVE  ReadSent(d, s)'
<1>1. /\ One(IntWord(s)) \in Seq(Word) /\ One(CMD_READ) \in Seq(Word)
      /\ One(CMD_READ) \o One(IntWord(s)) = Two(CMD_READ, IntWord(s))
  BY OneWord, TwoWords, Commands, IntWordType
<1>2. CASE Whole(d, One(CMD_READ))
  <2>1. Whole(d, One(CMD_READ) \o One(IntWord(s)))'
    BY <1>1, <1>2, WholeSend
  <2>2. Whole(d, Two(CMD_READ, IntWord(s)))'
    BY <1>1, <2>1 DEF Whole
  <2>3. QED
    BY <1>1, <2>2, SendAppends DEF ReadBegun, ReadSent, NoReply
<1>3. CASE At(d, "rnum") /\ toDisk[d] = <<>>
  <2>1. toDisk'[d] = One(IntWord(s))
    BY <1>1, <1>3, SendAppends, BehindNothing
  <2>2. QED
    BY <1>1, <1>3, <2>1, SendAppends DEF ReadBegun, ReadSent, NoReply, At
<1>4. QED
  BY <1>2, <1>3 DEF ReadBegun

LEMMA SendWriteCommand ==
  ASSUME DiskTypeOK, NEW d \in Disks, Quiet(d), Send(d, One(CMD_WRITE))
  PROVE  WriteBegun(d)'
<1>1. One(CMD_WRITE) \in Seq(Word)
  BY OneWord, Commands
<1>2. toDisk'[d] = One(CMD_WRITE)
  BY <1>1, SendAppends, BehindNothing DEF Quiet
<1>3. QED
  BY <1>1, <1>2, SendAppends DEF Quiet, WriteBegun, NoReply, At

LEMMA SendWriteNumber ==
  ASSUME DiskTypeOK, NEW d \in Disks, NEW s \in Stripes,
         WriteBegun(d), Send(d, One(IntWord(s)))
  PROVE  WriteNumbered(d, s)'
<1>1. /\ One(IntWord(s)) \in Seq(Word)
      /\ One(CMD_WRITE) \o One(IntWord(s)) = Two(CMD_WRITE, IntWord(s))
  BY OneWord, TwoWords, Commands, IntWordType
<1>2. \/ At(d, "cmd") /\ toDisk'[d] = Two(CMD_WRITE, IntWord(s))
      \/ At(d, "wnum") /\ toDisk'[d] = One(IntWord(s))
  BY <1>1, SendAppends, BehindNothing DEF WriteBegun
<1>3. QED
  BY <1>1, <1>2, SendAppends DEF WriteBegun, WriteNumbered, NoReply, At

LEMMA SendBlock ==
  ASSUME DiskTypeOK, NEW d \in Disks, NEW s \in Stripes, NEW b \in Block,
         WriteNumbered(d, s), Send(d, b)
  PROVE  Idle(d)'
<1> DEFINE w == IntWord(s)
<1>1. b \in Seq(Word) /\ b \o <<>> = b /\ w \in Word /\ One(w) \in Seq(Word)
  BY BlockIsSeq, BehindNothing, IntWordType, OneWord
<1>2. InFront(w, b) = One(w) \o b
  BY DEF InFront, One
<1>3. InFront(CMD_WRITE, InFront(w, b)) = Two(CMD_WRITE, w) \o b
  <2>1. One(CMD_WRITE) \o One(w) = Two(CMD_WRITE, w)
    BY <1>1, TwoWords, Commands
  <2>2. (One(CMD_WRITE) \o One(w)) \o b = One(CMD_WRITE) \o (One(w) \o b)
    <3>1. One(CMD_WRITE) \in Seq(Word)
      BY OneWord, Commands
    <3>2. QED
      BY <1>1, <3>1, ConcatAssociative
  <2>3. InFront(CMD_WRITE, InFront(w, b)) = One(CMD_WRITE) \o InFront(w, b)
    BY DEF InFront, One
  <2>4. QED
    BY <1>2, <2>1, <2>2, <2>3
<1>4. /\ toDisk'[d] = toDisk[d] \o b
      /\ dpc'[d] = dpc[d] /\ dnum'[d] = dnum[d] /\ fromDisk'[d] = fromDisk[d]
  BY <1>1, SendAppends
<1>5. CASE At(d, "cmd") /\ toDisk[d] = Two(CMD_WRITE, w)
  <2>1. toDisk'[d] = WriteThen(s, b, <<>>)
    BY <1>1, <1>3, <1>4, <1>5 DEF WriteThen
  <2>2. QED
    BY <1>4, <1>5, <2>1 DEF Idle, Whole, At, NoReply, WriteNumbered
<1>6. CASE At(d, "wnum") /\ toDisk[d] = One(w)
  <2>1. toDisk'[d] = InFront(w, b \o <<>>)
    BY <1>1, <1>2, <1>4, <1>6
  <2>2. QED
    BY <1>4, <1>6, <2>1 DEF Idle, Whole, At, NoReply, WriteNumbered
<1>7. CASE At(d, "wdata") /\ dnum[d] = w /\ toDisk[d] = <<>>
  <2>1. toDisk'[d] = b \o <<>>
    BY <1>1, <1>4, <1>7, BehindNothing
  <2>2. QED
    BY <1>4, <1>7, <2>1 DEF Idle, Whole, At, NoReply, WriteNumbered
<1>8. QED
  BY <1>5, <1>6, <1>7 DEF WriteNumbered

LEMMA SendExitCommand ==
  ASSUME DiskTypeOK, NEW d \in Disks, Idle(d), Send(d, One(CMD_EXIT))
  PROVE  ExitSent(d)'
<1>1. One(CMD_EXIT) \in Seq(Word) /\ <<>> \in Seq(Word)
  BY OneWord, Commands
<1>2. Whole(d, <<>> \o One(CMD_EXIT))'
  BY <1>1, WholeSend DEF Idle
<1>3. Whole(d, One(CMD_EXIT))'
  BY <1>1, <1>2, BehindNothing DEF Whole
<1>4. QED
  BY <1>1, <1>3, SendAppends DEF ExitSent, NoReply, Idle

LEMMA StripeType ==
  ASSUME Typed
  PROVE  Stripe \in Stripes
<1>1. CASE phase \in RestorePhases
  BY <1>1 DEF Stripe, Typed, LoopOK
<1>2. CASE phase \notin RestorePhases
  <2>1. blk \in Nat /\ blk < NumDisks * NumBlocks
    BY DEF Typed, TypeOK, ControllerTypeOK, BlockNums
  <2>2. blk \div NumDisks \in Nat /\ blk = NumDisks * (blk \div NumDisks) + (blk % NumDisks)
          /\ blk % NumDisks \in Nat
    BY <2>1
  <2>3. blk \div NumDisks < NumBlocks
    BY <2>1, <2>2
  <2>4. QED
    BY <1>2, <2>2, <2>3 DEF Stripe, Stripes
<1>3. QED
  BY <1>1, <1>2

(* The block read from a disk that keeps in step is the one asked for, and *)
(* the disk has nothing left to do.                                        *)
LEMMA BlockTaken ==
  ASSUME Typed, TakeBlock, NEW d \in Disks, d = Target, Alive(d),
         ReadSent(d, Stripe)
  PROVE  Quiet(d)' /\ Received = blocks[d][Stripe]
<1>1. Stripe \in Stripes
  BY StripeType
<1>2. Len(fromDisk[d]) # 0
  BY DEF TakeBlock
<1>3. At(d, "cmd") /\ toDisk[d] = <<>> /\ fromDisk[d] = blocks[d][Stripe]
  BY <1>2 DEF ReadSent, NoReply
<1>4. blocks[d][Stripe] \in Block
  BY <1>1 DEF Typed, TypeOK, DiskTypeOK
<1>5. ASSUME NEW b \in Block
      PROVE  First(b, BlockWords) = b /\ Rest(b, BlockWords) = <<>>
  <2>1. <<>> \in Seq(Word) /\ b \o <<>> = b
    BY BlockIsSeq, BehindNothing
  <2>2. QED
    BY <2>1, BlockInFront
<1>6. dpc' = dpc /\ toDisk' = toDisk /\ fromDisk'[d] = <<>>
  BY <1>3, <1>4, <1>5 DEF TakeBlock, Typed, TypeOK, DiskTypeOK
<1>7. QED
  BY <1>3, <1>4, <1>5, <1>6 DEF Quiet, At, NoReply, Received

-----------------------------------------------------------------------------
(* The phases.                                                             *)

LEMMA DeadStaysDead ==
  ASSUME DiskTypeOK, NEW d \in Disks, NEW e \in Disks, DiskStep(e), ~Alive(d)
  PROVE  ~Alive(d)'
BY DEF DiskTypeOK, DiskStep, ReadCmd, ReadNum, Reply, StoreBlock, OpenCheckpoint,
   Segfault, FailDisk, SaveCheckpoint, FailCheckpoint, Killed, Terminate, Alive,
   At, Goto

(* A command that returns, or a request that cannot be made. *)
LEMMA ReturnPhase ==
  ASSUME NEW o, Return(o)
  PROVE  PhaseOK'
BY DEF Return, PhaseOK, RestorePhases, ReadPhases

LEMMA GiveUpPhase ==
  ASSUME PhaseOK, GiveUp
  PROVE  PhaseOK'
<1>1. CASE Return(Failed)
  BY <1>1, ReturnPhase
<1>2. CASE /\ phase \in RestorePhases /\ ParentExits
           /\ UNCHANGED <<phase, blk, data, writeVars, restoreVars, idx, pid, out>>
  BY <1>2 DEF PhaseOK, ParentExits, restoreVars, CallerTarget, Home
<1>3. QED
  BY <1>1, <1>2 DEF GiveUp

LEMMA ControllerPhase ==
  ASSUME Typed, PhaseOK, ControllerStep
  PROVE  PhaseOK'
<1> USE DEF PhaseOK, CallerTarget, Home, ReadPhases, RestorePhases, CommandPhases,
            restoreVars, writeVars
<1>0. /\ caller \in CommandPhases /\ rdisk \in Disks /\ src \in Nat
      /\ gen \in [Disks -> Nat] /\ phase \in CommandPhases \cup RestorePhases
  BY DEF Typed, TypeOK, ControllerTypeOK, Disks
<1>1. CASE InitDisk \/ InitFails
  BY <1>1 DEF InitDisk, InitFails, ParentExits
<1>2. CASE SendCmd \/ SendNum
  BY <1>2 DEF SendCmd, SendNum
<1>3. CASE FindDead
  BY <1>3 DEF FindDead, Target, diskVars, Alive
<1>4. CASE SendFails \/ RecvFails
  BY <1>4, GiveUpPhase DEF SendFails, RecvFails
<1>5. CASE RecvRead \/ ParityAllocFails \/ SendData
  BY <1>5, ReturnPhase DEF RecvRead, ParityAllocFails, SendData
<1>6. CASE RecvOldData \/ RecvOldParity \/ SendParity
  BY <1>6 DEF RecvOldData, RecvOldParity, SendParity
<1>7. CASE RestartDisk
  <2>1. /\ rdisk' = rdisk /\ caller' = caller /\ blk' = blk /\ pc' = "cmd"
        /\ caller = phase /\ rdisk = Target
    BY <1>7 DEF RestartDisk
  <2>2. rdisk = CallerTarget
    BY <1>0, <2>1 DEF Target
  <2>3. gen'[rdisk] # 0
    BY <1>0, <1>7 DEF RestartDisk, NewIncarnation
  <2>4. phase' \in RestorePhases /\ (phase' = "RR" => src' \in DataDisks \ {rdisk})
    BY <1>0, <1>7 DEF RestartDisk, SourceFrom, SkipSelf, DataDisks
  <2>5. QED
    BY <2>1, <2>2, <2>3, <2>4
<1>8. CASE RestartFails
  BY <1>0, <1>8 DEF RestartFails, ParentExits
<1>9. CASE RecvSource
  <2>1. phase' = "RR" => src' \in DataDisks \ {rdisk}
    BY <1>0, <1>9 DEF RecvSource, SourceFrom, SkipSelf, DataDisks
  <2>2. QED
    BY <1>9, <2>1 DEF RecvSource, SourceFrom
<1>10. CASE SendRebuilt
  BY <1>0, <1>10 DEF SendRebuilt
<1>11. CASE SendExit \/ Wait
  BY <1>11 DEF SendExit, Wait, ParentExits
<1>12. QED
  BY <1>1, <1>2, <1>3, <1>4, <1>5, <1>6, <1>7, <1>8, <1>9, <1>10, <1>11
     DEF ControllerStep

LEMMA PhaseStep ==
  ASSUME Typed, PhaseOK, [Next]_vars
  PROVE  PhaseOK'
<1> USE DEF PhaseOK, CallerTarget, Home, Target
<1>1. CASE Command
  <2>1. ASSUME NEW b \in UserBlocks, ReadBlock(b) PROVE PhaseOK'
    BY <2>1 DEF ReadBlock, RestorePhases
  <2>2. ASSUME NEW b \in UserBlocks, NEW v \in Data, WriteBlock(b, v) PROVE PhaseOK'
    BY <2>2 DEF WriteBlock, RestorePhases
  <2>3. ASSUME NEW k \in Killable, SimulateFailure(k) PROVE PhaseOK'
    BY <2>3 DEF SimulateFailure, RestorePhases
  <2>4. QED
    BY <1>1, <2>1, <2>2, <2>3 DEF Command
<1>2. CASE Exit
  BY <1>2 DEF Exit, CheckpointAndWait, RestorePhases
<1>3. CASE Controlled
  BY <1>3, ControllerPhase DEF Controlled
<1>4. ASSUME NEW e \in Disks, Disk(e) PROVE PhaseOK'
  <2>1. rdisk \in Disks /\ DiskTypeOK
    BY DEF Typed, TypeOK, ControllerTypeOK
  <2>2. \A d \in Disks : ~Alive(d) => ~Alive(d)'
    BY <1>4, <2>1, DeadStaysDead DEF Disk
  <2>3. ~Alive(rdisk) => ~Alive(rdisk)'
    BY <1>4, <2>1, <2>2 DEF Disk, ctlVars, Alive
  <2>4. QED
    BY <1>4, <2>3 DEF Disk, ctlVars
<1>5. CASE UNCHANGED vars
  BY <1>5 DEF vars, diskVars, ctlVars, Alive
<1>6. QED
  BY <1>1, <1>2, <1>3, <1>4, <1>5 DEF Next, Terminated

-----------------------------------------------------------------------------
(* The framing of disk d.                                                  *)

(* A step that leaves disk d alone. *)
Untouched(d) ==
  /\ dpc'[d] = dpc[d] /\ dnum'[d] = dnum[d] /\ blocks'[d] = blocks[d]
  /\ toDisk'[d] = toDisk[d] /\ fromDisk'[d] = fromDisk[d]

LEMMA OriginalBefore ==
  ASSUME NEW d \in Disks, Original(d)', Untouched(d), gen'[d] = gen[d]
  PROVE  Original(d)
BY DEF Original, Untouched, Alive

(* In the middle of a command every disk but its target is waiting. *)
InCommand == pc \in {"cmd", "restart", "num", "data", "recv"}

LEMMA OthersWait ==
  ASSUME NEW d \in Disks, Framed(d), InCommand, d # Target \/ pc \in {"cmd", "restart"}
  PROVE  Waiting(d) /\ Idle(d)
BY WaitingIsIdle DEF Framed, InCommand

(* The command or the whole program ends. *)
LEMMA FramedAtEnd ==
  ASSUME NEW d \in Disks, Idle(d)', pc' \in {"shell", "gone"}
  PROVE  Framed(d)'
BY DEF Framed

LEMMA GiveUpFramed ==
  ASSUME NEW d \in Disks, Idle(d)', GiveUp
  PROVE  Framed(d)'
BY FramedAtEnd DEF GiveUp, Return, ParentExits

(* The same phase of the same command goes on. *)
LEMMA WaitsOn ==
  ASSUME NEW d \in Disks, Waiting(d), Untouched(d), ToBeWritten(d)' <=> ToBeWritten(d)
  PROVE  Waiting(d)'
BY Undisturbed DEF Waiting, Untouched

LEMMA SameCommand ==
  ASSUME NEW d \in Disks, phase' = phase, caller' = caller, blk' = blk
  PROVE  ToBeWritten(d)' <=> ToBeWritten(d)
BY DEF ToBeWritten, CommandPhase, Home

LEMMA SameTarget ==
  ASSUME phase' = phase, blk' = blk, src' = src, rdisk' = rdisk, idx' = idx
  PROVE  Target' = Target /\ Stripe' = Stripe
BY DEF Target, Stripe

LEMMA DiskFramed ==
  ASSUME Typed, FramingInv, NEW e \in Disks, Disk(e), NEW d \in Disks, Original(d)'
  PROVE  Framed(d)'
<1>1. DiskTypeOK /\ DiskStep(e) /\ UNCHANGED ctlVars
  BY DEF Typed, TypeOK, Disk
<1>2. Original(d) /\ Alive(d)'
  BY <1>1, DeadStaysDead DEF Original, ctlVars
<1>3. Framed(d)
  BY <1>2 DEF FramingInv
<1>4. Target' = Target /\ Stripe' = Stripe /\ Stripe \in Stripes
  BY <1>1, SameTarget, StripeType DEF ctlVars, restoreVars
<1>5. ToBeWritten(d)' <=> ToBeWritten(d)
  BY <1>1, SameCommand DEF ctlVars, restoreVars
<1>6. CASE e = d
  <2>1. Quiet(d) => Quiet(d)'
    BY <1>1, <1>2, <1>6, QuietStep
  <2>2. Idle(d) => Idle(d)'
    BY <1>1, <1>2, <1>6, IdleStep
  <2>3. ReadBegun(d) => ReadBegun(d)'
    BY <1>1, <1>2, <1>6, ReadBegunStep
  <2>4. WriteBegun(d) => WriteBegun(d)'
    BY <1>1, <1>2, <1>6, WriteBegunStep
  <2>5. ExitSent(d) => ExitSent(d)'
    BY <1>1, <1>2, <1>6, ExitSentStep
  <2>6. \A s \in Stripes : ReadSent(d, s) => ReadSent(d, s)'
    BY <1>1, <1>2, <1>6, ReadSentStep
  <2>7. \A s \in Stripes : WriteNumbered(d, s) => WriteNumbered(d, s)'
    BY <1>1, <1>2, <1>6, WriteNumberedStep
  <2>8. QED
    BY <1>1, <1>3, <1>4, <1>5, <2>1, <2>2, <2>3, <2>4, <2>5, <2>6, <2>7
       DEF Framed, Waiting, ctlVars
<1>7. CASE e # d
  <2>1. Untouched(d)
    BY <1>1, <1>7 DEF Untouched, DiskTypeOK, DiskStep, ReadCmd, ReadNum, Reply,
       StoreBlock, OpenCheckpoint, Segfault, FailDisk, SaveCheckpoint,
       FailCheckpoint, Killed, Terminate, Goto, pipeVars
  <2>2. QED
    BY <1>1, <1>3, <1>4, <1>5, <2>1, Undisturbed
       DEF Framed, Waiting, ctlVars, Untouched
<1>8. QED
  BY <1>6, <1>7

(* A request leaves every disk but its target alone. *)
LEMMA SendOthers ==
  ASSUME Typed, NEW words \in Seq(Word), Send(Target, words),
         NEW d \in Disks, d # Target
  PROVE  Untouched(d)
<1>1. DiskTypeOK /\ Target \in Disks
  BY TargetType DEF Typed, TypeOK
<1>2. QED
  BY <1>1, SendAppends DEF Untouched

LEMMA TakeOthers ==
  ASSUME Typed, TakeBlock, NEW d \in Disks, d # Target
  PROVE  Untouched(d)
<1>1. DiskTypeOK /\ Target \in Disks
  BY TargetType DEF Typed, TypeOK
<1>2. QED
  BY <1>1 DEF Untouched, TakeBlock, DiskTypeOK

(* Phase "RW" writes to a disk that was restarted. *)
LEMMA RestoredIsNotOriginal ==
  ASSUME PhaseOK, NEW d \in Disks, Original(d), d = Target, phase \notin ReadPhases
  PROVE  phase # "RW"
BY DEF PhaseOK, Original, Target, RestorePhases

LEMMA SendCmdFramed ==
  ASSUME Typed, FramingInv, SendCmd, NEW d \in Disks, Original(d)'
  PROVE  Framed(d)'
<1> DEFINE word == IF phase \in ReadPhases THEN CMD_READ ELSE CMD_WRITE
<1>1. DiskTypeOK /\ Send(Target, One(word)) /\ One(word) \in Seq(Word)
  BY OneWord, Commands DEF Typed, TypeOK, SendCmd, One
<1>2. /\ pc = "cmd" /\ pc' = "num" /\ phase' = phase
      /\ UNCHANGED <<blk, idx, restoreVars>>
  BY DEF SendCmd
<1>3. Original(d)
  BY <1>2 DEF Original, Alive, SendCmd, Send, restoreVars
<1>4. PhaseOK /\ Framed(d)
  BY <1>3 DEF FramingInv
<1>5. Waiting(d) /\ Idle(d)
  BY <1>2, <1>4, OthersWait DEF InCommand
<1>6. /\ Target' = Target
      /\ ToBeWritten(d)' <=> ToBeWritten(d)
  BY <1>2, SameTarget, SameCommand DEF restoreVars
<1>7. CASE d # Target
  <2>1. Waiting(d)'
    BY <1>1, <1>5, <1>6, <1>7, SendOthers, WaitsOn
  <2>2. QED
    BY <1>2, <1>6, <1>7, <2>1 DEF Framed
<1>8. CASE d = Target /\ phase \in ReadPhases
  <2>1. ReadBegun(d)'
    BY <1>1, <1>5, <1>8, SendReadCommand
  <2>2. QED
    BY <1>2, <1>6, <1>8, <2>1 DEF Framed
<1>9. CASE d = Target /\ phase \notin ReadPhases
  <2>1. phase # "RW"
    BY <1>3, <1>4, <1>9, RestoredIsNotOriginal
  <2>2. phase \in {"W1", "W2"}
    BY <1>9, <2>1 DEF Typed, TypeOK, ControllerTypeOK, CommandPhases,
       RestorePhases, ReadPhases
  <2>3. ToBeWritten(d)
    BY <1>9, <2>2 DEF ToBeWritten, CommandPhase, Target, Home, RestorePhases
  <2>4. WriteBegun(d)'
    BY <1>1, <1>5, <1>9, <2>3, SendWriteCommand DEF Waiting
  <2>5. QED
    BY <1>2, <1>6, <1>9, <2>4 DEF Framed
<1>10. QED
  BY <1>7, <1>8, <1>9

LEMMA SendNumFramed ==
  ASSUME Typed, FramingInv, SendNum, NEW d \in Disks, Original(d)'
  PROVE  Framed(d)'
<1>1. /\ DiskTypeOK /\ Stripe \in Stripes
      /\ Send(Target, One(IntWord(Stripe))) /\ One(IntWord(Stripe)) \in Seq(Word)
  BY OneWord, IntWordType, StripeType DEF Typed, TypeOK, SendNum, One
<1>2. /\ pc = "num" /\ pc' = (IF phase \in ReadPhases THEN "recv" ELSE "data")
      /\ phase' = phase
      /\ UNCHANGED <<blk, idx, restoreVars>>
  BY DEF SendNum
<1>3. Original(d)
  BY <1>2 DEF Original, Alive, SendNum, Send, restoreVars
<1>4. Framed(d)
  BY <1>3 DEF FramingInv
<1>5. /\ Target' = Target /\ Stripe' = Stripe
      /\ ToBeWritten(d)' <=> ToBeWritten(d)
  BY <1>2, SameTarget, SameCommand DEF restoreVars
<1>6. CASE d # Target
  <2>1. Waiting(d)
    BY <1>2, <1>4, <1>6, OthersWait DEF InCommand
  <2>2. Waiting(d)'
    BY <1>1, <1>5, <1>6, <2>1, SendOthers, WaitsOn
  <2>3. QED
    BY <1>2, <1>5, <1>6, <2>2 DEF Framed
<1>7. CASE d = Target /\ phase \in ReadPhases
  <2>1. ReadBegun(d)
    BY <1>2, <1>4, <1>7 DEF Framed
  <2>2. ReadSent(d, Stripe)'
    <3>1. PICK s \in Stripes : s = Stripe
      BY <1>1
    <3>2. ReadSent(d, s)'
      BY <1>1, <1>7, <2>1, <3>1, SendReadNumber
    <3>3. QED
      BY <1>5, <3>1, <3>2
  <2>3. QED
    BY <1>2, <1>5, <1>7, <2>2 DEF Framed
<1>8. CASE d = Target /\ phase \notin ReadPhases
  <2>1. WriteBegun(d)
    BY <1>2, <1>4, <1>8 DEF Framed
  <2>2. WriteNumbered(d, Stripe)'
    <3>1. PICK s \in Stripes : s = Stripe
      BY <1>1
    <3>2. WriteNumbered(d, s)'
      BY <1>1, <1>8, <2>1, <3>1, SendWriteNumber
    <3>3. QED
      BY <1>5, <3>1, <3>2
  <2>3. QED
    BY <1>2, <1>5, <1>8, <2>2 DEF Framed
<1>9. QED
  BY <1>6, <1>7, <1>8

(* The last part of a write leaves its disk idle, and others as they were. *)
LEMMA BlockSent ==
  ASSUME Typed, FramingInv, pc = "data", NEW b \in Block, Send(Target, b),
         gen' = gen, NEW d \in Disks, Original(d)'
  PROVE  /\ Original(d) /\ Idle(d)'
         /\ d # Target => Waiting(d) /\ Untouched(d)
         /\ d = Target => phase # "RW"
<1>1. DiskTypeOK /\ Stripe \in Stripes /\ b \in Seq(Word)
  BY StripeType, BlockIsSeq DEF Typed, TypeOK
<1>2. Original(d)
  BY DEF Original, Alive, Send
<1>3. Framed(d) /\ PhaseOK
  BY <1>2 DEF FramingInv
<1>4. CASE d = Target
  <2>1. PICK s \in Stripes : s = Stripe
    BY <1>1
  <2>2. WriteNumbered(d, s)
    BY <1>3, <1>4, <2>1 DEF Framed
  <2>3. Idle(d)'
    BY <1>1, <1>4, <2>2, SendBlock
  <2>4. phase # "RW"
    BY <1>2, <1>3, <1>4 DEF PhaseOK, Original, Target, RestorePhases
  <2>5. QED
    BY <1>2, <1>4, <2>3, <2>4
<1>5. CASE d # Target
  <2>1. Waiting(d) /\ Idle(d)
    BY <1>3, <1>5, OthersWait DEF InCommand
  <2>2. Untouched(d)
    BY <1>1, <1>5, SendOthers
  <2>3. Idle(d)'
    BY <2>1, <2>2, Undisturbed DEF Untouched
  <2>4. QED
    BY <1>2, <1>5, <2>1, <2>2, <2>3
<1>6. QED
  BY <1>4, <1>5

LEMMA SendParityFramed ==
  ASSUME Typed, FramingInv, SendParity, NEW d \in Disks, Original(d)'
  PROVE  Framed(d)'
<1>1. /\ pc = "data" /\ pblock \in Block /\ Send(Target, pblock) /\ gen' = gen
      /\ phase = "W1" /\ phase' = "W2" /\ pc' = "cmd" /\ blk' = blk
  BY DEF Typed, TypeOK, ControllerTypeOK, SendParity, restoreVars
<1>2. /\ Idle(d)'
      /\ d # Target => Waiting(d) /\ Untouched(d)
  BY <1>1, BlockSent
<1>3. Target = ParityDisk /\ Home' = Home /\ Home # ParityDisk
  BY <1>1, TargetType DEF Typed, TypeOK, Target, Home, DataDisks, ParityDisk
<1>4. CASE d = Home
  <2>1. Quiet(d)
    BY <1>1, <1>2, <1>3, <1>4 DEF Waiting, ToBeWritten, CommandPhase, RestorePhases
  <2>2. Quiet(d)'
    BY <1>2, <1>3, <1>4, <2>1, Undisturbed DEF Untouched
  <2>3. QED
    BY <1>1, <1>2, <2>2 DEF Framed, Waiting
<1>5. CASE d # Home
  <2>1. ~ToBeWritten(d)'
    BY <1>1, <1>3, <1>5 DEF ToBeWritten, CommandPhase, RestorePhases
  <2>2. QED
    BY <1>1, <1>2, <2>1 DEF Framed, Waiting
<1>6. QED
  BY <1>4, <1>5

LEMMA SendDataFramed ==
  ASSUME Typed, FramingInv, SendData, NEW d \in Disks, Original(d)'
  PROVE  Framed(d)'
<1>1. /\ pc = "data" /\ data \in Block /\ Send(Target, data) /\ gen' = gen
      /\ pc' = "shell"
  BY DEF Typed, TypeOK, ControllerTypeOK, SendData, Return, restoreVars
<1>2. QED
  BY <1>1, BlockSent, FramedAtEnd

LEMMA SendRebuiltFramed ==
  ASSUME Typed, FramingInv, SendRebuilt, NEW d \in Disks, Original(d)'
  PROVE  Framed(d)'
<1>1. /\ pc = "data" /\ phase = "RW" /\ Send(Target, rebuilt[idx])
      /\ gen' = gen /\ blk' = blk /\ rdisk' = rdisk /\ caller' = caller
      /\ pc' \in {"cmd", "num"} /\ phase' \in {"RW", caller}
      /\ pc' = "num" => phase' = caller
  BY DEF SendRebuilt, Target
<1>2. rebuilt[idx] \in Block /\ caller \in CommandPhases
  BY <1>1 DEF Typed, TypeOK, ControllerTypeOK, LoopOK, RestorePhases
<1>3. /\ Original(d)
      /\ d # Target => Waiting(d) /\ Untouched(d)
      /\ d # Target
  BY <1>1, <1>2, BlockSent
<1>4. ToBeWritten(d)' <=> ToBeWritten(d)
  BY <1>1, <1>2 DEF ToBeWritten, CommandPhase, Home, RestorePhases, CommandPhases
<1>5. Waiting(d)'
  BY <1>3, <1>4, WaitsOn
<1>6. d # Target' \/ pc' = "cmd"
  <2>1. rdisk = CallerTarget /\ gen[rdisk] # 0
    BY <1>1 DEF FramingInv, PhaseOK, RestorePhases
  <2>2. pc' = "num" => Target' = rdisk
    BY <1>1, <1>2, <2>1 DEF CallerTarget, Target, Home, CommandPhases
  <2>3. d # rdisk
    BY <1>3, <2>1 DEF Original
  <2>4. QED
    BY <1>1, <2>2, <2>3
<1>7. QED
  BY <1>1, <1>5, <1>6 DEF Framed

(* A disk that is found dead, or dies with its request, is no longer the   *)
(* process it was started as; and a pipe that is in step holds no part of  *)
(* a block.                                                                *)
LEMMA FindDeadFramed ==
  ASSUME Typed, FramingInv, FindDead, NEW d \in Disks, Original(d)'
  PROVE  Framed(d)'
<1>1. /\ pc = "cmd" /\ phase \in CommandPhases /\ pc' = "restart"
      /\ phase' = phase /\ blk' = blk /\ UNCHANGED diskVars /\ gen' = gen
  BY DEF FindDead
<1>2. Original(d) /\ Untouched(d)
  BY <1>1 DEF Original, Alive, Untouched, diskVars
<1>3. Waiting(d)
  BY <1>1, <1>2, OthersWait DEF FramingInv, InCommand
<1>4. ToBeWritten(d)' <=> ToBeWritten(d)
  BY <1>1 DEF ToBeWritten, CommandPhase, Home, CommandPhases, RestorePhases
<1>5. Waiting(d)'
  BY <1>2, <1>3, <1>4, WaitsOn
<1>6. QED
  BY <1>1, <1>5 DEF Framed

LEMMA SendFailsFramed ==
  ASSUME Typed, FramingInv, SendFails, NEW d \in Disks, Original(d)'
  PROVE  Framed(d)'
<1>1. /\ pc \in {"cmd", "num", "data"} /\ ~Alive(Target)
      /\ GiveUp /\ gen' = gen
      /\ UNCHANGED <<dpc, dnum, blocks, toDisk, fromDisk>>
  BY DEF SendFails, GiveUp, Return, restoreVars, pipeVars
<1>2. Original(d) /\ Untouched(d)
  BY <1>1 DEF Original, Alive, Untouched
<1>3. d # Target
  BY <1>1, <1>2 DEF Original
<1>4. Idle(d)
  BY <1>1, <1>2, <1>3, OthersWait DEF FramingInv, InCommand
<1>5. Idle(d)'
  BY <1>2, <1>4, Undisturbed DEF Untouched
<1>6. QED
  BY <1>1, <1>5, GiveUpFramed

LEMMA RecvFailsFramed ==
  ASSUME Typed, FramingInv, RecvFails, NEW d \in Disks, Original(d)'
  PROVE  Framed(d)'
<1>1. /\ pc = "recv" /\ ShortRead(fromDisk[Target], BlockWords, Alive(Target))
      /\ GiveUp /\ gen' = gen
      /\ fromDisk' = [fromDisk EXCEPT ![Target] = <<>>]
      /\ UNCHANGED <<dpc, dnum, blocks, toDisk>>
      /\ Stripe \in Stripes /\ DiskTypeOK
  BY StripeType DEF RecvFails, GiveUp, Return, restoreVars, Typed, TypeOK
<1>2. Original(d) /\ Framed(d)
  BY <1>1 DEF Original, Alive, FramingInv
<1>3. CASE d = Target
  <2>1. ReadSent(d, Stripe)
    BY <1>1, <1>2, <1>3 DEF Framed
  <2>2. blocks[d][Stripe] \in Block
    BY <1>1 DEF DiskTypeOK
  <2>3. fromDisk[d] = <<>> \/ Len(fromDisk[d]) = BlockWords
    BY <2>1, <2>2, BlockIsSeq DEF ReadSent, NoReply
  <2>4. Alive(d)
    BY <1>2 DEF Original
  <2>5. QED
    BY <1>1, <1>3, <2>3, <2>4 DEF ShortRead
<1>4. CASE d # Target
  <2>1. Idle(d)
    BY <1>1, <1>2, <1>4, OthersWait DEF InCommand
  <2>2. Untouched(d)
    BY <1>1, <1>4 DEF Untouched, DiskTypeOK
  <2>3. Idle(d)'
    BY <2>1, <2>2, Undisturbed DEF Untouched
  <2>4. QED
    BY <1>1, <2>3, GiveUpFramed
<1>5. QED
  BY <1>3, <1>4

(* A block that is read leaves its disk with nothing to do. *)
LEMMA BlockRead ==
  ASSUME Typed, FramingInv, TakeBlock, gen' = gen, NEW d \in Disks, Original(d)'
  PROVE  /\ Original(d) /\ Idle(d)'
         /\ d # Target => Waiting(d) /\ Untouched(d)
         /\ d = Target => Quiet(d)' /\ Received = blocks[d][Stripe]
<1>1. pc = "recv" /\ dpc' = dpc
  BY DEF TakeBlock
<1>2. Original(d) /\ Alive(d)
  BY <1>1 DEF Original, Alive
<1>3. Framed(d)
  BY <1>2 DEF FramingInv
<1>4. CASE d = Target
  <2>1. ReadSent(d, Stripe)
    BY <1>1, <1>3, <1>4 DEF Framed
  <2>2. Quiet(d)' /\ Received = blocks[d][Stripe]
    BY <1>2, <1>4, <2>1, BlockTaken
  <2>3. Idle(d)'
    BY <2>2 DEF Quiet, Idle, Whole
  <2>4. QED
    BY <1>2, <1>4, <2>2, <2>3
<1>5. CASE d # Target
  <2>1. Waiting(d) /\ Idle(d)
    BY <1>1, <1>3, <1>5, OthersWait DEF InCommand
  <2>2. Untouched(d)
    BY <1>5, TakeOthers
  <2>3. Idle(d)'
    BY <2>1, <2>2, Undisturbed DEF Untouched
  <2>4. QED
    BY <1>2, <1>5, <2>1, <2>2, <2>3
<1>6. QED
  BY <1>4, <1>5

LEMMA RecvReadFramed ==
  ASSUME Typed, FramingInv, RecvRead \/ ParityAllocFails,
         NEW d \in Disks, Original(d)'
  PROVE  Framed(d)'
<1>1. TakeBlock /\ gen' = gen /\ pc' = "shell"
  BY DEF RecvRead, ParityAllocFails, Return, restoreVars
<1>2. QED
  BY <1>1, BlockRead, FramedAtEnd

LEMMA RecvOldDataFramed ==
  ASSUME Typed, FramingInv, RecvOldData, NEW d \in Disks, Original(d)'
  PROVE  Framed(d)'
<1>1. /\ TakeBlock /\ gen' = gen /\ pc' = "cmd" /\ blk' = blk
      /\ phase = "R1" /\ phase' = "R2"
  BY DEF RecvOldData, restoreVars
<1>2. Idle(d)' /\ (d = Target => Quiet(d)')
  BY <1>1, BlockRead
<1>3. Target = Home /\ Home' = Home
  BY <1>1 DEF Target, Home
<1>4. ToBeWritten(d)' => d = Target
  BY <1>1, <1>3 DEF ToBeWritten, CommandPhase, RestorePhases
<1>5. QED
  BY <1>1, <1>2, <1>4 DEF Framed, Waiting

LEMMA RecvOldParityFramed ==
  ASSUME Typed, FramingInv, RecvOldParity, NEW d \in Disks, Original(d)'
  PROVE  Framed(d)'
<1>1. /\ TakeBlock /\ gen' = gen /\ pc' = "cmd" /\ blk' = blk
      /\ phase = "R2" /\ phase' = "W1"
  BY DEF RecvOldParity, restoreVars
<1>2. /\ Idle(d)'
      /\ d = Target => Quiet(d)'
      /\ d # Target => Waiting(d) /\ Untouched(d)
  BY <1>1, BlockRead
<1>3. Target = ParityDisk /\ Home' = Home
  BY <1>1 DEF Target, Home
<1>4. d = Home /\ d # Target => Quiet(d)'
  <2>1. d = Home /\ d # Target => Quiet(d)
    BY <1>1, <1>2 DEF Waiting, ToBeWritten, CommandPhase, RestorePhases
  <2>2. QED
    BY <1>2, <2>1, Undisturbed DEF Untouched
<1>5. ToBeWritten(d)' => d = Home \/ d = Target
  BY <1>3 DEF ToBeWritten
<1>6. QED
  BY <1>1, <1>2, <1>4, <1>5 DEF Framed, Waiting

LEMMA RecvSourceFramed ==
  ASSUME Typed, FramingInv, RecvSource, NEW d \in Disks, Original(d)'
  PROVE  Framed(d)'
<1>1. /\ TakeBlock /\ gen' = gen /\ pc' = "cmd" /\ blk' = blk /\ caller' = caller
      /\ phase = "RR" /\ phase' \in RestorePhases
  BY DEF RecvSource, SourceFrom, RestorePhases
<1>2. /\ Idle(d)'
      /\ d = Target => Quiet(d)'
      /\ d # Target => Waiting(d) /\ Untouched(d)
  BY <1>1, BlockRead
<1>3. ToBeWritten(d)' <=> ToBeWritten(d)
  BY <1>1 DEF ToBeWritten, CommandPhase, Home, RestorePhases
<1>4. Waiting(d)'
  <2>1. CASE d = Target
    BY <1>2, <2>1 DEF Waiting
  <2>2. CASE d # Target
    BY <1>2, <1>3, <2>2, WaitsOn
  <2>3. QED
    BY <2>1, <2>2
<1>5. QED
  BY <1>1, <1>4 DEF Framed

(* The disk that is restarted is not the process it was started as.        *)
LEMMA OldDisksUntouched ==
  ASSUME Typed, NewIncarnation, NEW d \in Disks, Original(d)'
  PROVE  d # rdisk /\ Original(d) /\ Untouched(d)
<1>1. rdisk \in Disks /\ gen \in [Disks -> Nat] /\ DiskTypeOK
  BY DEF Typed, TypeOK, ControllerTypeOK
<1>2. d # rdisk
  BY <1>1 DEF Original, NewIncarnation
<1>3. Untouched(d) /\ gen'[d] = gen[d]
  BY <1>1, <1>2 DEF Untouched, NewIncarnation, Spawn, DiskTypeOK
<1>4. QED
  BY <1>2, <1>3, OriginalBefore

LEMMA RestartDiskFramed ==
  ASSUME Typed, FramingInv, RestartDisk, NEW d \in Disks, Original(d)'
  PROVE  Framed(d)'
<1>1. Original(d) /\ Untouched(d)
  BY OldDisksUntouched DEF RestartDisk
<1>2. /\ pc = "restart" /\ pc' = "cmd" /\ blk' = blk /\ caller' = caller
      /\ phase' \in RestorePhases /\ caller = phase /\ caller \in CommandPhases
  BY DEF RestartDisk, SourceFrom, RestorePhases, FramingInv, PhaseOK, Typed,
     TypeOK, ControllerTypeOK
<1>3. Waiting(d)
  BY <1>1, <1>2, OthersWait DEF FramingInv, InCommand
<1>4. ToBeWritten(d)' <=> ToBeWritten(d)
  BY <1>2 DEF ToBeWritten, CommandPhase, Home, RestorePhases, CommandPhases
<1>5. Waiting(d)'
  BY <1>1, <1>3, <1>4, WaitsOn
<1>6. QED
  BY <1>2, <1>5 DEF Framed

LEMMA RestartFailsFramed ==
  ASSUME Typed, FramingInv, RestartFails, NEW d \in Disks, Original(d)'
  PROVE  Framed(d)'
<1>1. Original(d) /\ Untouched(d)
  <2>1. CASE NewIncarnation
    BY <2>1, OldDisksUntouched
  <2>2. CASE UNCHANGED <<dpc, dnum, blocks, pipeVars, holds, sigint, fileVars,
                         zombies, gen>>
    BY <2>2 DEF Original, Alive, Untouched, pipeVars
  <2>3. QED
    BY <2>1, <2>2 DEF RestartFails
<1>2. pc = "restart" /\ pc' = "gone"
  BY DEF RestartFails, ParentExits
<1>3. Idle(d)
  BY <1>1, <1>2, OthersWait DEF FramingInv, InCommand
<1>4. Idle(d)'
  BY <1>1, <1>3, Undisturbed DEF Untouched
<1>5. QED
  BY <1>2, <1>4, FramedAtEnd

(* Before the first command, and after the last. *)
LEMMA InitDiskFramed ==
  ASSUME Typed, FramingInv, InitDisk, NEW d \in Disks, Original(d)'
  PROVE  Framed(d)'
<1>1. /\ pc = "init" /\ pc' \in {"init", "shell"} /\ gen' = gen
      /\ idx \in Disks /\ Spawn(idx, KeptByInit(idx)) /\ DiskTypeOK
  BY DEF InitDisk, Typed, TypeOK, LoopOK, restoreVars
<1>2. Quiet(d)'
  <2>1. CASE d = idx
    BY <1>1, <2>1 DEF Spawn, DiskTypeOK, Quiet, At, NoReply
  <2>2. CASE d # idx
    <3>1. Untouched(d)
      BY <1>1, <2>2 DEF Spawn, DiskTypeOK, Untouched
    <3>2. Quiet(d)
      BY <1>1, <3>1, OriginalBefore DEF FramingInv, Framed
    <3>3. QED
      BY <3>1, <3>2, Undisturbed DEF Untouched
  <2>3. QED
    BY <2>1, <2>2
<1>3. Idle(d)'
  BY <1>2 DEF Quiet, Idle, Whole
<1>4. QED
  BY <1>1, <1>2, <1>3 DEF Framed

LEMMA InitFailsFramed ==
  ASSUME Typed, FramingInv, InitFails, NEW d \in Disks, Original(d)'
  PROVE  Framed(d)'
<1>1. /\ pc = "init" /\ pc' = "gone"
      /\ UNCHANGED <<dpc, dnum, blocks, toDisk, fromDisk, gen>>
  BY DEF InitFails, ParentExits, pipeVars, restoreVars
<1>2. Original(d) /\ Untouched(d)
  BY <1>1 DEF Original, Alive, Untouched
<1>3. Quiet(d)
  BY <1>1, <1>2 DEF FramingInv, Framed
<1>4. Idle(d)'
  BY <1>2, <1>3, QuietIsIdle, Undisturbed DEF Untouched
<1>5. QED
  BY <1>1, <1>4, FramedAtEnd

LEMMA SendExitFramed ==
  ASSUME Typed, FramingInv, SendExit, NEW d \in Disks, Original(d)'
  PROVE  Framed(d)'
<1>1. /\ pc = "exit" /\ idx \in Disks /\ gen' = gen /\ DiskTypeOK
      /\ dpc' = dpc
      /\ Send(idx, One(CMD_EXIT)) \/ (~Alive(idx) /\ UNCHANGED diskVars)
      /\ One(CMD_EXIT) \in Seq(Word)
  BY OneWord, Commands DEF SendExit, Typed, TypeOK, LoopOK, restoreVars, One, Send,
     diskVars
<1>2. Original(d)
  BY <1>1 DEF Original, Alive
<1>3. IF d < idx THEN ExitSent(d) ELSE Idle(d)
  BY <1>1, <1>2 DEF FramingInv, Framed
<1>4. d = idx => ExitSent(d)'
  <2>1. d = idx => Alive(idx)
    BY <1>2 DEF Original
  <2>2. QED
    BY <1>1, <1>3, <2>1, SendExitCommand DEF Disks
<1>5. d # idx => Untouched(d)
  <2>1. CASE Send(idx, One(CMD_EXIT))
    BY <1>1, <2>1, SendAppends DEF Untouched
  <2>2. CASE UNCHANGED diskVars
    BY <2>2 DEF diskVars, Untouched
  <2>3. QED
    BY <1>1, <2>1, <2>2
<1>6. d # idx => IF d < idx THEN ExitSent(d)' ELSE Idle(d)'
  BY <1>3, <1>5, Undisturbed DEF Untouched
<1>7. CASE idx = NumDisks
  <2>1. pc' = "wait" /\ ExitSent(d)'
    BY <1>4, <1>6, <1>7 DEF SendExit, Disks
  <2>2. QED
    BY <2>1 DEF Framed
<1>8. CASE idx # NumDisks
  <2>1. pc' = "exit" /\ idx' = idx + 1
    BY <1>1, <1>8 DEF SendExit
  <2>2. IF d < idx' THEN ExitSent(d)' ELSE Idle(d)'
    <3>1. d \in Int /\ idx \in Int
      BY <1>1 DEF Disks
    <3>2. d < idx' <=> d < idx \/ d = idx
      BY <2>1, <3>1
    <3>3. CASE d = idx
      BY <1>4, <3>2, <3>3
    <3>4. CASE d # idx
      BY <1>6, <3>2, <3>4
    <3>5. QED
      BY <3>3, <3>4
  <2>3. QED
    BY <2>1, <2>2 DEF Framed
<1>9. QED
  BY <1>7, <1>8

LEMMA WaitFramed ==
  ASSUME Typed, FramingInv, Wait, NEW d \in Disks, Original(d)'
  PROVE  Framed(d)'
<1>1. /\ pc = "wait" /\ pc' \in {"wait", "gone"}
      /\ UNCHANGED <<dpc, dnum, blocks, toDisk, fromDisk, gen>>
  BY DEF Wait, ParentExits, pipeVars, restoreVars
<1>2. Original(d) /\ Untouched(d)
  BY <1>1 DEF Original, Alive, Untouched
<1>3. ExitSent(d)'
  BY <1>1, <1>2, Undisturbed DEF FramingInv, Framed, Untouched
<1>4. QED
  BY <1>1, <1>3 DEF Framed

(* A command is only given to disks that are idle. *)
LEMMA CommandFramed ==
  ASSUME Typed, FramingInv, Command \/ Exit, NEW d \in Disks, Original(d)'
  PROVE  Framed(d)'
<1> DEFINE Leaves ==
      /\ pc = "shell" /\ Untouched(d) /\ gen' = gen /\ dpc' = dpc
      /\ \/ pc' = "shell"
         \/ pc' = "cmd" /\ phase' \in {"rb", "R1"}
         \/ pc' = "exit" /\ idx' = 0
<1>1. Leaves
  <2>1. ASSUME NEW b \in UserBlocks, ReadBlock(b) PROVE Leaves
    BY <2>1 DEF ReadBlock, Untouched, diskVars, restoreVars
  <2>2. ASSUME NEW b \in UserBlocks, NEW v \in Data, WriteBlock(b, v) PROVE Leaves
    BY <2>2 DEF WriteBlock, Untouched, diskVars, restoreVars
  <2>3. ASSUME NEW k \in Killable, SimulateFailure(k) PROVE Leaves
    BY <2>3 DEF SimulateFailure, Untouched, pipeVars, restoreVars
  <2>4. ASSUME Exit PROVE Leaves
    BY <2>4 DEF Exit, CheckpointAndWait, Untouched, diskVars, restoreVars
  <2>5. QED
    BY <2>1, <2>2, <2>3, <2>4 DEF Command
<1>2. Original(d)
  BY <1>1 DEF Original, Alive
<1>3. Idle(d)
  BY <1>1, <1>2 DEF FramingInv, Framed
<1>4. Idle(d)'
  BY <1>1, <1>3, Undisturbed DEF Untouched
<1>5. d \in Nat
  BY DEF Disks
<1>6. pc' = "cmd" => Waiting(d)'
  BY <1>1, <1>4 DEF Waiting, ToBeWritten, CommandPhase, RestorePhases
<1>7. QED
  BY <1>1, <1>4, <1>5, <1>6 DEF Framed

LEMMA StutterFramed ==
  ASSUME Typed, FramingInv, UNCHANGED vars, NEW d \in Disks, Original(d)'
  PROVE  Framed(d)'
<1>1. Untouched(d) /\ Original(d)
  BY DEF vars, diskVars, ctlVars, restoreVars, Untouched, Original, Alive
<1>2. /\ UNCHANGED <<pc, phase, caller, blk, src, rdisk, idx>>
      /\ Framed(d)
  BY <1>1 DEF vars, ctlVars, FramingInv
<1>3. /\ Target' = Target /\ Stripe' = Stripe
      /\ ToBeWritten(d)' <=> ToBeWritten(d)
  BY <1>2, SameTarget, SameCommand
<1>4. QED
  BY <1>1, <1>2, <1>3, Undisturbed, StripeType DEF Framed, Waiting, Untouched

LEMMA InitFraming == Init => FramingInv
BY DEF Init, DiskInit, ControllerInit, FramingInv, PhaseOK, Original, Alive,
   RestorePhases, ReadPhases

LEMMA ControllerFramed ==
  ASSUME Typed, FramingInv, ControllerStep, NEW d \in Disks, Original(d)'
  PROVE  Framed(d)'
BY InitDiskFramed, InitFailsFramed, SendCmdFramed, FindDeadFramed, SendNumFramed,
   SendFailsFramed, RecvFailsFramed, RecvReadFramed, RecvOldDataFramed,
   RecvOldParityFramed, SendParityFramed, SendDataFramed, RestartDiskFramed,
   RestartFailsFramed, RecvSourceFramed, SendRebuiltFramed, SendExitFramed,
   WaitFramed DEF ControllerStep

LEMMA FramingStep == Typed /\ FramingInv /\ [Next]_vars => FramingInv'
<1> SUFFICES ASSUME Typed, FramingInv, [Next]_vars PROVE FramingInv'
  OBVIOUS
<1>1. PhaseOK'
  BY PhaseStep DEF FramingInv
<1>2. ASSUME NEW d \in Disks, Original(d)'
      PROVE  Framed(d)'
  <2>1. CASE Command \/ Exit
    BY <1>2, <2>1, CommandFramed
  <2>2. CASE Controlled
    BY <1>2, <2>2, ControllerFramed DEF Controlled
  <2>3. ASSUME NEW e \in Disks, Disk(e) PROVE Framed(d)'
    BY <1>2, <2>3, DiskFramed
  <2>4. CASE UNCHANGED vars
    BY <1>2, <2>4, StutterFramed
  <2>5. QED
    BY <2>1, <2>2, <2>3, <2>4 DEF Next, Terminated
<1>3. QED
  BY <1>1, <1>2 DEF FramingInv

-----------------------------------------------------------------------------
(* What being in step means to a disk.                                     *)

(* Disk d takes commands for commands, and numbers for numbers. *)
Follows(d) ==
  /\ At(d, "cmd") /\ toDisk[d] # <<>> =>
       toDisk[d][1] \in {CMD_READ, CMD_WRITE, CMD_EXIT}
  /\ dpc[d] \in {"reply", "wdata"} => ~OutOfArray(d)

LEMMA WholeFollows ==
  ASSUME NEW d \in Disks, NEW t \in Seq(Word), Whole(d, t),
         t # <<>> => t[1] \in {CMD_READ, CMD_WRITE, CMD_EXIT}
  PROVE  Follows(d)
<1>1. CASE At(d, "cmd") /\ toDisk[d] = t
  BY <1>1 DEF Follows, At
<1>2. ASSUME NEW s \in Stripes, NEW b \in Block,
             \/ At(d, "cmd") /\ toDisk[d] = WriteThen(s, b, t)
             \/ At(d, "wnum") /\ toDisk[d] = InFront(IntWord(s), b \o t)
             \/ At(d, "wdata") /\ dnum[d] = IntWord(s) /\ toDisk[d] = b \o t
      PROVE  Follows(d)
  <2>1. WriteThen(s, b, t)[1] = CMD_WRITE
    BY WriteInFront
  <2>2. QED
    BY <1>2, <2>1, StripeInArray DEF Follows, At
<1>3. QED
  BY <1>1, <1>2 DEF Whole

(* Some state of a conversation, in which s is the stripe it is about. *)
Talking(d, s) ==
  \/ Idle(d) \/ Quiet(d) \/ ReadBegun(d) \/ ReadSent(d, s)
  \/ WriteBegun(d) \/ WriteNumbered(d, s) \/ ExitSent(d)

LEMMA FramedTalks ==
  ASSUME Typed, NEW d \in Disks, Framed(d)
  PROVE  Talking(d, Stripe)
<1>1. pc \in PC
  BY DEF Typed, TypeOK, ControllerTypeOK
<1>2. QED
  BY <1>1 DEF Framed, Waiting, PC, Talking

LEMMA TalkingFollows ==
  ASSUME NEW d \in Disks, NEW s \in Stripes, Talking(d, s)
  PROVE  Follows(d)
<1>1. /\ <<>> \in Seq(Word)
      /\ One(CMD_READ) \in Seq(Word) /\ One(CMD_READ)[1] = CMD_READ
      /\ One(CMD_EXIT) \in Seq(Word) /\ One(CMD_EXIT)[1] = CMD_EXIT
      /\ One(CMD_WRITE)[1] = CMD_WRITE
      /\ Two(CMD_READ, IntWord(s)) \in Seq(Word)
      /\ Two(CMD_READ, IntWord(s))[1] = CMD_READ
      /\ Two(CMD_WRITE, IntWord(s))[1] = CMD_WRITE
  <2>1. IntWord(s) \in Word
    BY IntWordType
  <2>2. CMD_READ \in Word /\ CMD_WRITE \in Word /\ CMD_EXIT \in Word
    BY Commands
  <2>3. QED
    BY <2>1, <2>2, OneWord, TwoWords
<1>2. CASE Idle(d)
  BY <1>1, <1>2, WholeFollows DEF Idle
<1>3. CASE Quiet(d)
  BY <1>3 DEF Quiet, Follows, At
<1>4. CASE ReadBegun(d)
  <2>1. CASE Whole(d, One(CMD_READ))
    BY <1>1, <2>1, WholeFollows
  <2>2. QED
    BY <1>4, <2>1 DEF ReadBegun, Follows, At
<1>5. CASE ReadSent(d, s)
  <2>1. CASE Whole(d, Two(CMD_READ, IntWord(s)))
    BY <1>1, <2>1, WholeFollows
  <2>2. QED
    BY <1>5, <2>1, StripeInArray DEF ReadSent, Follows, At
<1>6. CASE WriteBegun(d)
  BY <1>1, <1>6 DEF WriteBegun, Follows, At
<1>7. CASE WriteNumbered(d, s)
  BY <1>1, <1>7, StripeInArray DEF WriteNumbered, Follows, At
<1>8. CASE ExitSent(d)
  <2>1. CASE Whole(d, One(CMD_EXIT))
    BY <1>1, <2>1, WholeFollows
  <2>2. QED
    BY <1>8, <2>1 DEF ExitSent, Follows, At
<1>9. QED
  BY <1>2, <1>3, <1>4, <1>5, <1>6, <1>7, <1>8 DEF Talking

LEMMA FramingInStep == Typed /\ FramingInv => InStep
<1> SUFFICES ASSUME Typed, FramingInv, NEW d \in Disks, Original(d)
             PROVE  Follows(d) /\ (fromDisk[d] # <<>> => pc = "recv" /\ Target = d)
  BY DEF InStep, Follows, Sound, Original
<1>1. Framed(d) /\ Stripe \in Stripes /\ pc \in PC
  BY StripeType DEF FramingInv, Typed, TypeOK, ControllerTypeOK
<1>2. Follows(d)
  BY <1>1, FramedTalks, TalkingFollows
<1>3. \/ pc = "recv" /\ d = Target
      \/ Idle(d) \/ Quiet(d) \/ ReadBegun(d) \/ WriteBegun(d)
      \/ WriteNumbered(d, Stripe) \/ ExitSent(d)
  BY <1>1 DEF Framed, Waiting, PC
<1>4. fromDisk[d] # <<>> => pc = "recv" /\ Target = d
  BY <1>3 DEF Idle, Quiet, ReadBegun, WriteBegun, WriteNumbered, ExitSent, NoReply
<1>5. QED
  BY <1>2, <1>4

(* The two ends of a pipe never lose step on a disk that was not restarted *)
(* and not told to fail, whatever the other disks do: it finds a command   *)
(* where it expects one and a number of its own blocks where it expects    *)
(* that, and only answers a read the controller is waiting for.            *)
THEOREM Framing == Spec => []InStep
<1>1. Init => Typed /\ FramingInv
  BY InitTyped, InitFraming
<1>2. Typed /\ FramingInv /\ [Next]_vars => Typed' /\ FramingInv'
  BY StepTyped, FramingStep
<1>3. Typed /\ FramingInv => InStep
  BY FramingInStep
<1>4. QED
  BY <1>1, <1>2, <1>3, PTL DEF Spec
=============================================================================
