------------------------------ MODULE RaidSim ------------------------------
(***************************************************************************)
(* The whole RAID-4 simulator: the shell of A3/src/raid_sim.c on top of    *)
(* the controller, together with the disk processes.  The shell reads one  *)
(* command at a time, and hands it to the controller; the disks run        *)
(* concurrently with it.                                                   *)
(***************************************************************************)
EXTENDS Controller

CONSTANTS MaxOps,   \* commands in the transaction file
          Data      \* the blocks the user writes

ASSUME ShellAssumption == MaxOps \in Nat /\ Data \subseteq Block

VARIABLE ops        \* commands executed so far

vars == <<diskVars, ctlVars, ops>>

TypeOK ==
  /\ DiskTypeOK
  /\ ControllerTypeOK
  /\ ops \in 0..MaxOps

Init == DiskInit /\ ControllerInit /\ ops = 0

(* One block number past the end is tried as well. *)
UserBlocks == 0..(NumDisks * NumBlocks)

(* execute_command: wb, rb and kill. *)
Command ==
  /\ ops < MaxOps
  /\ ops' = ops + 1
  /\ \/ \E b \in UserBlocks : ReadBlock(b)
     \/ \E b \in UserBlocks, v \in Data : WriteBlock(b, v)
     \/ \E d \in Killable : SimulateFailure(d)

(* The exit command, or the end of the input. *)
Exit == CheckpointAndWait /\ UNCHANGED ops

Controlled == ControllerStep /\ UNCHANGED ops

Disk(d) == DiskStep(d) /\ UNCHANGED <<ctlVars, ops>>

(* Nothing is left to run. *)
Terminated ==
  /\ pc = "gone"
  /\ \A d \in Disks : ~Alive(d)
  /\ UNCHANGED vars

Next ==
  \/ Command
  \/ Exit
  \/ Controlled
  \/ \E d \in Disks : Disk(d)
  \/ Terminated

Spec == Init /\ [][Next]_vars

(* Every process that can run eventually does, and the shell, whose input  *)
(* is a transaction file (-t), always has a next command or end-of-file.   *)
FairSpec ==
  /\ Spec
  /\ WF_vars(Controlled)
  /\ WF_vars(Command \/ Exit)
  /\ \A d \in Disks : WF_vars(Disk(d))

-----------------------------------------------------------------------------
(* What a disk holds.                                                      *)

(* The words of the request disk d is in the middle of, and those behind.  *)
Request(d) ==
  CASE At(d, "cmd") -> toDisk[d]
    [] At(d, "wnum") -> <<CMD_WRITE>> \o toDisk[d]
    [] At(d, "wdata") -> <<CMD_WRITE, dnum[d]>> \o toDisk[d]
    [] OTHER -> <<>>

(* The blocks of disk d once it has read a write request that is already   *)
(* complete in its pipe.                                                   *)
Contents(d) ==
  LET r == Request(d) IN
  IF Len(r) >= BlockWords + 2 /\ r[1] = CMD_WRITE
  THEN [s \in Stripes |-> IF r[2] = IntWord(s) THEN SubSeq(r, 3, BlockWords + 2)
                                               ELSE blocks[d][s]]
  ELSE blocks[d]

(* Disk d is the process it was started as, was not told to fail, and      *)
(* either runs or has saved itself.                                        *)
Sound(d) ==
  /\ gen[d] = 0
  /\ ~sigint[d]
  /\ Alive(d) \/ fileState[d] = "saved"

Home == blk % NumDisks

(* Stripe s as it will be: once the parity is on its way, the data it      *)
(* stands for is due on the home disk.                                     *)
Due(s) ==
  [d \in DataDisks |->
     IF phase = "W2" /\ d = Home /\ s = Stripe THEN data ELSE Contents(d)[s]]

-----------------------------------------------------------------------------
(* Properties: what holds whatever disks fail.                             *)

(* As long as no disk has failed, the parity of every stripe is the XOR of *)
(* its data, at every moment: requests still in a pipe are counted, and    *)
(* between the two writes of write_block the new data is.                  *)
ParityInv ==
  pc # "init" /\ (\A d \in Disks : Sound(d)) =>
    \A s \in Stripes : Contents(ParityDisk)[s] = XorAll(DataDisks, Due(s))

(* A complete set of checkpoint files is consistent: the parity file is    *)
(* the XOR of the data files, whatever was in flight when exit came.       *)
SavedParity ==
  (\A d \in Disks : gen[d] = 0 /\ fileState[d] = "saved") =>
    \A s \in Stripes :
      image[ParityDisk][s] = XorAll(DataDisks, [d \in DataDisks |-> image[d][s]])

(* The two ends of a pipe stay in step on a disk that has not failed: it   *)
(* never sees a word that is not a command where it expects one, nor a     *)
(* block number outside all_blocks, and no reply waits for it that the     *)
(* controller is not about to read.                                        *)
InStep ==
  \A d \in Disks : Alive(d) /\ Sound(d) =>
    /\ At(d, "cmd") /\ toDisk[d] # <<>> =>
         toDisk[d][1] \in {CMD_READ, CMD_WRITE, CMD_EXIT}
    /\ dpc[d] \in {"reply", "wdata"} => ~OutOfArray(d)
    /\ fromDisk[d] # <<>> => pc = "recv" /\ Target = d

(* What restore_disk_process rebuilds from disks that have not failed is   *)
(* the XOR of the other data disks, stripe by stripe.                      *)
RebuiltFromOthers ==
  phase = "RW" /\ (\A d \in DataDisks \ {rdisk} : Sound(d)) =>
    \A s \in Stripes :
      rebuilt[s] = XorAll(DataDisks \ {rdisk}, [d \in Disks |-> Contents(d)[s]])

(* The failure of other disks never touches a data disk that has not       *)
(* failed: a block of it changes only when write_block hands it the user's *)
(* data for that block, and then to that data.                             *)
Isolated ==
  [][\A d \in DataDisks, s \in Stripes :
       Sound(d) /\ Sound(d)' /\ (Contents(d)[s])' # Contents(d)[s] =>
         /\ SendData
         /\ d = Home /\ s = Stripe
         /\ (Contents(d)[s])' = data]_vars

(* A block printed from a data disk that has not failed is the one that    *)
(* disk holds.                                                             *)
ReadsTrue ==
  [][RecvRead /\ Sound(Home) => out'.block = Contents(Home)[Stripe]]_vars

(* restore_disk_process gives the whole system up only when a second disk  *)
(* has failed as well.                                                     *)
OneFailureSurvives ==
  [][pc' = "gone" /\ phase \in RestorePhases /\ ~Faults =>
       \E d \in Disks \ {rdisk} : ~Sound(d)]_vars

(* A restarted disk that takes nothing any more: it has a reply for which  *)
(* its pipe to the controller has no room, and its other pipe is full.     *)
Jammed(d) ==
  /\ gen[d] > 0
  /\ At(d, "reply") /\ ~HasRoom(fromDisk[d], BlockWords)
  /\ ~HasRoom(toDisk[d], 1)

(* Only one thing keeps checkpoint_and_wait from its end, whatever disks   *)
(* have failed or been restarted before: that it comes to a restarted disk *)
(* which is jammed.  Any other takes its CMD_EXIT or is dead; and each     *)
(* disk ends, or has ended once already, so that every wait returns.       *)
ExitReturns == pc = "exit" ~> pc = "gone" \/ (pc = "exit" /\ Jammed(idx))

(* A data disk that was never restarted does not outlive the controller.   *)
NoOrphan ==
  \A d \in DataDisks : (pc = "gone" /\ gen[d] = 0) ~> ~Alive(d)

-----------------------------------------------------------------------------
(* What the comments and the README say of a failed disk; none of it holds. *)

(* "Returns a pointer to the data buffer on success and NULL on failure":  *)
(* a command that reaches a disk comes back, or the program ends.          *)
CommandReturns == pc = "cmd" ~> pc \in {"shell", "gone"}

(* "If a disk fails, its contents are reconstructed using the parity disk  *)
(* and remaining disks": what is written back to a disk that alone has     *)
(* failed is the XOR of all the other disks.                               *)
RestoresContents ==
  phase = "RW" /\ (\A d \in Disks \ {rdisk} : Sound(d)) =>
    \A s \in Stripes :
      rebuilt[s] = XorAll(Disks \ {rdisk}, [d \in Disks |-> Contents(d)[s]])

(* "Simulate the failure of a disk by sending the SIGINT signal to the     *)
(* process with id disk_num": a disk that is running gets it.              *)
KillReaches ==
  [][\A d \in Killable : SimulateFailure(d) /\ Alive(d) => sigint'[d]]_vars

(* "Returns when all disk processes have terminated."                      *)
ReturnsWhenAllTerminated ==
  [][Wait /\ pc' = "gone" => \A d \in Disks : ~Alive(d)]_vars

=============================================================================
