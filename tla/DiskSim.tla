------------------------------ MODULE DiskSim ------------------------------
(***************************************************************************)
(* The disk processes of the RAID-4 simulator (A3/src/disk_sim.c) and the  *)
(* pipes that tie them to the controller.                                  *)
(*                                                                         *)
(* Disk d < NumDisks holds data, disk NumDisks holds the parity.  Each     *)
(* disk is a process of its own that reads commands from its to_disk pipe  *)
(* one read() at a time.  Every read() and write() is a step, so a SIGINT  *)
(* may fall between any two of them.                                       *)
(*                                                                         *)
(* An operator Op_Mistake is Op with a mistake in it; no action uses it    *)
(* (see Controller).                                                       *)
(***************************************************************************)
EXTENDS RaidWords

CONSTANTS NumDisks,   \* num_disks: the data disks
          NumBlocks,  \* disk_size / block_size: blocks of one disk
          PipeCap,    \* words a pipe holds before a write() blocks
          Garbage,    \* what a read outside all_blocks may return
          Faults      \* may fork, malloc, fopen and fwrite fail?

ASSUME DiskAssumption ==
  /\ NumDisks \in Nat \ {0}
  /\ NumBlocks \in Nat \ {0}
  /\ PipeCap \in Nat /\ PipeCap >= BlockWords
  /\ Garbage \subseteq Block
  /\ Faults \in BOOLEAN
  /\ \A m, n \in 0..(NumBlocks - 1) \cup {0, 1, 2} :
       IntWord(m) = IntWord(n) => m = n

DataDisks == 0..(NumDisks - 1)
ParityDisk == NumDisks
Disks == 0..NumDisks
Stripes == 0..(NumBlocks - 1)

VARIABLES
  dpc,        \* where the process of each disk is in start_disk
  dnum,       \* its local block_num, still as the word it read
  blocks,     \* its all_blocks
  toDisk,     \* words written by the controller and not yet read
  fromDisk,   \* words written by the disk and not yet read
  holds,      \* pipes whose controller ends the process also has open
  sigint,     \* a SIGINT was sent to the process and is not yet delivered
  fileState,  \* disk_<d>.dat: "none", "partial" or "saved"
  image,      \* contents of disk_<d>.dat once it is saved
  zombies,    \* terminated children the controller has not waited for
  parentUp    \* is the controller process running?

pipeVars == <<toDisk, fromDisk>>
fileVars == <<fileState, image>>
diskVars == <<dpc, dnum, blocks, toDisk, fromDisk, holds, sigint, fileState,
              image, zombies, parentUp>>

DiskPC == {"unborn", "cmd", "rnum", "reply", "wnum", "wdata",
           "ckpt", "save", "dead"}

Alive(d) == dpc[d] \notin {"unborn", "dead"}

ZeroDisk == [s \in Stripes |-> ZeroBlock]

DiskTypeOK ==
  /\ dpc \in [Disks -> DiskPC]
  /\ dnum \in [Disks -> Word]
  /\ blocks \in [Disks -> [Stripes -> Block]]
  /\ toDisk \in [Disks -> Seq(Word)]
  /\ fromDisk \in [Disks -> Seq(Word)]
  /\ holds \in [Disks -> SUBSET Disks]
  /\ sigint \in [Disks -> BOOLEAN]
  /\ fileState \in [Disks -> {"none", "partial", "saved"}]
  /\ image \in [Disks -> [Stripes -> Block]]
  /\ zombies \in Nat
  /\ parentUp \in BOOLEAN

DiskInit ==
  /\ dpc = [d \in Disks |-> "unborn"]
  /\ dnum = [d \in Disks |-> {}]
  /\ blocks = [d \in Disks |-> ZeroDisk]
  /\ toDisk = [d \in Disks |-> <<>>]
  /\ fromDisk = [d \in Disks |-> <<>>]
  /\ holds = [d \in Disks |-> {}]
  /\ sigint = [d \in Disks |-> FALSE]
  /\ fileState = [d \in Disks |-> "none"]
  /\ image = [d \in Disks |-> ZeroDisk]
  /\ zombies = 0
  /\ parentUp = TRUE

-----------------------------------------------------------------------------
(* Pipes.  A write() of at most PIPE_BUF bytes is atomic and waits for     *)
(* room; a read() takes what it asks for when that much is there.          *)

(* Some process still has the controller's ends of disk d's pipes open, so *)
(* that the disk gets neither end-of-file nor EPIPE.                       *)
Attached(d) == parentUp \/ \E e \in Disks : Alive(e) /\ d \in holds[e]

HasRoom(pipe, n) == Len(pipe) + n <= PipeCap

First(pipe, n) == SubSeq(pipe, 1, n)
Rest(pipe, n) == SubSeq(pipe, n + 1, Len(pipe))

(* read(n words) returns, but with less: end-of-file, or only a piece. *)
ShortRead(pipe, n, writer) == Len(pipe) < n /\ (Len(pipe) > 0 \/ ~writer)

-----------------------------------------------------------------------------
(* The process of disk d. *)

At(d, label) == dpc[d] = label
Goto(d, label) == dpc' = [dpc EXCEPT ![d] = label]

(* The process terminates, whether it returns from start_disk, exits or is *)
(* killed: its descriptors close and it waits to be reaped.                *)
Terminate(d) ==
  /\ Goto(d, "dead")
  /\ sigint' = [sigint EXCEPT ![d] = FALSE]
  /\ zombies' = zombies + 1

(* read() of a command and the switch on it; an unknown one is reported    *)
(* and skipped.                                                            *)
ReadCmd(d) ==
  /\ At(d, "cmd")
  /\ Len(toDisk[d]) >= 1
  /\ toDisk' = [toDisk EXCEPT ![d] = Rest(@, 1)]
  /\ \/ toDisk[d][1] = CMD_READ /\ Goto(d, "rnum")
     \/ toDisk[d][1] = CMD_WRITE /\ Goto(d, "wnum")
     \/ toDisk[d][1] = CMD_EXIT /\ Goto(d, "ckpt")
     \/ /\ toDisk[d][1] \notin {CMD_READ, CMD_WRITE, CMD_EXIT}
        /\ UNCHANGED dpc
  /\ UNCHANGED <<dnum, blocks, fromDisk, holds, sigint, fileVars, zombies,
                 parentUp>>

(* read() of the block number that follows CMD_READ or CMD_WRITE. *)
ReadNum(d) ==
  /\ Len(toDisk[d]) >= 1
  /\ toDisk' = [toDisk EXCEPT ![d] = Rest(@, 1)]
  /\ dnum' = [dnum EXCEPT ![d] = toDisk[d][1]]
  /\ \/ At(d, "rnum") /\ Goto(d, "reply")
     \/ At(d, "wnum") /\ Goto(d, "wdata")
  /\ UNCHANGED <<blocks, fromDisk, holds, sigint, fileVars, zombies, parentUp>>

(* The number read is that of a block of this disk. *)
InArray(d, s) == dnum[d] = IntWord(s)
OutOfArray(d) == \A s \in Stripes : ~InArray(d, s)

(* What all_blocks[block_num] may denote; block_num is not checked, so it  *)
(* may be memory outside the array.                                        *)
Requested_FirstBlock(d) == {blocks[d][0]}

Requested(d) ==
  IF OutOfArray(d) THEN Garbage
                   ELSE {blocks[d][s] : s \in {t \in Stripes : InArray(d, t)}}

(* write() of the requested block to the controller. *)
Reply(d) ==
  /\ At(d, "reply")
  /\ Attached(d)
  /\ HasRoom(fromDisk[d], BlockWords)
  /\ \E block \in Requested(d) :
       fromDisk' = [fromDisk EXCEPT ![d] = @ \o block]
  /\ Goto(d, "cmd")
  /\ UNCHANGED <<dnum, blocks, toDisk, holds, sigint, fileVars, zombies,
                 parentUp>>

(* read() of a block straight into all_blocks[block_num].  Outside the     *)
(* array the bytes land elsewhere in memory.                               *)
StoreBlock(d) ==
  /\ At(d, "wdata")
  /\ Len(toDisk[d]) >= BlockWords
  /\ \/ \E s \in Stripes :
          /\ InArray(d, s)
          /\ blocks' = [blocks EXCEPT ![d][s] = First(toDisk[d], BlockWords)]
     \/ OutOfArray(d) /\ UNCHANGED blocks
  /\ toDisk' = [toDisk EXCEPT ![d] = Rest(@, BlockWords)]
  /\ Goto(d, "cmd")
  /\ UNCHANGED <<dnum, fromDisk, holds, sigint, fileVars, zombies, parentUp>>

(* An access outside all_blocks may instead be fatal to the process. *)
Segfault(d) ==
  /\ OutOfArray(d)
  /\ \/ At(d, "reply")
     \/ At(d, "wdata") /\ Len(toDisk[d]) >= BlockWords
  /\ Terminate(d)
  /\ UNCHANGED <<dnum, blocks, pipeVars, holds, fileVars, parentUp>>

(* A read() comes back short, or the reply cannot be written because       *)
(* nobody is left to read it: start_disk returns 1 and the child exits     *)
(* without a checkpoint.                                                   *)
FailDisk(d) ==
  /\ \/ /\ dpc[d] \in {"cmd", "rnum", "wnum"}
        /\ ShortRead(toDisk[d], 1, Attached(d))
     \/ /\ At(d, "wdata")
        /\ ShortRead(toDisk[d], BlockWords, Attached(d))
     \/ At(d, "reply") /\ ~Attached(d)
  /\ Terminate(d)
  /\ UNCHANGED <<dnum, blocks, pipeVars, holds, fileVars, parentUp>>

(* checkpoint_disk: fopen(.., "wb") truncates disk_<d>.dat. *)
OpenCheckpoint(d) ==
  /\ At(d, "ckpt")
  /\ fileState' = [fileState EXCEPT ![d] = "partial"]
  /\ Goto(d, "save")
  /\ UNCHANGED <<dnum, blocks, pipeVars, holds, sigint, image, zombies,
                 parentUp>>

SaveCheckpoint_NoWrite(d) ==
  /\ At(d, "save")
  /\ Terminate(d)
  /\ UNCHANGED <<dnum, blocks, pipeVars, holds, fileVars, parentUp>>

(* fwrite and fclose, then the pipes are closed and the process exits. *)
SaveCheckpoint(d) ==
  /\ At(d, "save")
  /\ fileState' = [fileState EXCEPT ![d] = "saved"]
  /\ image' = [image EXCEPT ![d] = blocks[d]]
  /\ Terminate(d)
  /\ UNCHANGED <<dnum, blocks, pipeVars, holds, parentUp>>

(* fopen, fwrite or fclose fails: the process ends, the file is whatever   *)
(* it was.                                                                 *)
FailCheckpoint(d) ==
  /\ Faults
  /\ dpc[d] \in {"ckpt", "save"}
  /\ Terminate(d)
  /\ UNCHANGED <<dnum, blocks, pipeVars, holds, fileVars, parentUp>>

(* A pending SIGINT is delivered; a disk leaves its default action alone. *)
Killed(d) ==
  /\ Alive(d)
  /\ sigint[d]
  /\ Terminate(d)
  /\ UNCHANGED <<dnum, blocks, pipeVars, holds, fileVars, parentUp>>

(* What the process of disk d does by itself. *)
DiskStep(d) ==
  \/ ReadCmd(d) \/ ReadNum(d) \/ Reply(d) \/ StoreBlock(d)
  \/ Segfault(d) \/ FailDisk(d)
  \/ OpenCheckpoint(d) \/ SaveCheckpoint(d) \/ FailCheckpoint(d)
  \/ Killed(d)
=============================================================================
