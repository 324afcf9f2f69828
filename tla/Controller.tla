----------------------------- MODULE Controller -----------------------------
(***************************************************************************)
(* The RAID controller (A3/src/controller.c): the parent process, which    *)
(* starts the disks, turns a read or a write of a RAID block into requests *)
(* to them, rebuilds a disk it finds dead, and has every disk save itself  *)
(* at the end.                                                             *)
(*                                                                         *)
(* read_block_from_disk and write_block_to_disk are called from five       *)
(* places, and restore_disk_process has its own copy of each.  The         *)
(* variable "phase" says for whom a request is made:                       *)
(*    "rb"  read_block: the block itself                                   *)
(*    "R1"  write_block: the old data          (k_block)                   *)
(*    "R2"  write_block: the old parity        (parity_block)              *)
(*    "W1"  write_block: the new parity                                    *)
(*    "W2"  write_block: the new data                                      *)
(*    "RR"  restore_disk_process: a block of another disk                  *)
(*    "RW"  restore_disk_process: a rebuilt block                          *)
(* and "pc" says which system call of the request comes next.              *)
(*                                                                         *)
(* An operator Op_Mistake is Op with a mistake in it.  Nothing uses it: a  *)
(* property is worth its name when it notices the mistake put in Op's      *)
(* place.                                                                  *)
(***************************************************************************)
EXTENDS DiskSim

CONSTANT Killable   \* the disks the user may name in a kill command

ASSUME ControllerAssumption == Killable \subseteq Disks

VARIABLES
  pc,       \* the call the controller is about to make
  phase,    \* for whom it makes a request
  caller,   \* the phase that called restore_disk_process
  blk,      \* block_num of the current command
  data,     \* the block to write
  kblock,   \* k_block
  pblock,   \* parity_block
  rdisk,    \* the disk restore_disk_process works on
  src,      \* i, its loop over the other disks
  idx,      \* the counter of the innermost loop the controller is in
  rebuilt,  \* restored_block
  pid,      \* controllers[d].pid: which incarnation of d it denotes
  gen,      \* the incarnation of d that runs, or ran last
  out       \* what the last command reported

writeVars == <<kblock, pblock>>
restoreVars == <<caller, rdisk, src, rebuilt, gen>>
ctlVars == <<pc, phase, caller, blk, data, kblock, pblock, rdisk, src, idx,
             rebuilt, pid, gen, out>>

BlockNums == 0..(NumDisks * NumBlocks - 1)

CommandPhases == {"rb", "R1", "R2", "W1", "W2"}
RestorePhases == {"RR", "RW"}
ReadPhases == {"rb", "R1", "R2", "RR"}

PC == {"init", "shell", "cmd", "num", "data", "recv", "restart", "exit",
       "wait", "gone"}

(* The outcomes of a command: the block printed, a block written, or an    *)
(* error message.                                                          *)
Printed(b) == [kind |-> "printed", block |-> b]
Written == [kind |-> "written", block |-> ZeroBlock]
Failed == [kind |-> "failed", block |-> ZeroBlock]
Silent == [kind |-> "none", block |-> ZeroBlock]

Outcome == [kind : {"printed", "written", "failed", "none"}, block : Block]

ControllerTypeOK ==
  /\ pc \in PC
  /\ phase \in CommandPhases \cup RestorePhases
  /\ caller \in CommandPhases
  /\ blk \in BlockNums
  /\ data \in Block /\ kblock \in Block /\ pblock \in Block
  /\ rdisk \in Disks /\ src \in Disks
  /\ idx \in Nat
  /\ rebuilt \in [Stripes -> Block]
  /\ pid \in [Disks -> Nat] /\ gen \in [Disks -> Nat]
  /\ out \in Outcome

ControllerInit ==
  /\ pc = "init" /\ phase = "rb" /\ caller = "rb"
  /\ blk = 0
  /\ data = ZeroBlock /\ kblock = ZeroBlock /\ pblock = ZeroBlock
  /\ rdisk = 0 /\ src = 0 /\ idx = 0
  /\ rebuilt = ZeroDisk
  /\ pid = [d \in Disks |-> 0] /\ gen = [d \in Disks |-> 0]
  /\ out = Silent

-----------------------------------------------------------------------------
(* Starting the disks. *)

(* The child that becomes incarnation g of disk d: zeroed memory, new      *)
(* pipes, and the controller ends "ends" left open.                        *)
Spawn(d, ends) ==
  /\ dpc' = [dpc EXCEPT ![d] = "cmd"]
  /\ dnum' = [dnum EXCEPT ![d] = {}]
  /\ blocks' = [blocks EXCEPT ![d] = ZeroDisk]
  /\ toDisk' = [toDisk EXCEPT ![d] = <<>>]
  /\ fromDisk' = [fromDisk EXCEPT ![d] = <<>>]
  /\ holds' = [e \in Disks |-> IF e = d THEN ends ELSE holds[e] \ {d}]
  /\ UNCHANGED <<sigint, fileVars, zombies>>

(* The controller process ends; its ends of all pipes close. *)
ParentExits ==
  /\ parentUp' = FALSE
  /\ pc' = "gone"

(* The child of init_disk closes every controller end it inherited, those  *)
(* of its own pipes included.                                              *)
KeptByInit_Own(num) == {num}
KeptByInit(num) == {}

(* init_disk(idx). *)
InitDisk ==
  /\ pc = "init"
  /\ Spawn(idx, KeptByInit(idx))
  /\ IF idx = NumDisks THEN pc' = "shell" /\ idx' = 0
                       ELSE pc' = pc /\ idx' = idx + 1
  /\ UNCHANGED <<parentUp, phase, blk, data, writeVars, restoreVars, pid, out>>

(* pipe or fork fails: main gives up and the disks already started see     *)
(* end-of-file.                                                            *)
InitFails ==
  /\ Faults
  /\ pc = "init"
  /\ ParentExits
  /\ UNCHANGED <<dpc, dnum, blocks, pipeVars, holds, sigint, fileVars,
                 zombies, phase, blk, data, writeVars, restoreVars, idx,
                 pid, out>>

-----------------------------------------------------------------------------
(* One request to one disk.                                                *)

Target_ParityToData ==
  CASE phase \in {"rb", "R1", "W1", "W2"} -> blk % NumDisks
    [] phase = "R2" -> ParityDisk
    [] phase = "RR" -> src
    [] phase = "RW" -> rdisk
Stripe_NotDivided == IF phase \in RestorePhases THEN idx ELSE blk
Stripe_Modulo == IF phase \in RestorePhases THEN idx ELSE blk % NumBlocks

(* controllers[disk_num] and the block number on that disk. *)
Target ==
  CASE phase \in {"rb", "R1", "W2"} -> blk % NumDisks
    [] phase \in {"R2", "W1"} -> ParityDisk
    [] phase = "RR" -> src
    [] phase = "RW" -> rdisk
Stripe == IF phase \in RestorePhases THEN idx ELSE blk \div NumDisks

(* write(to_disk[1], words): it waits for room, and fails with EPIPE when  *)
(* the process that reads the pipe is gone.                                *)
Send(d, words) ==
  /\ Alive(d)
  /\ HasRoom(toDisk[d], Len(words))
  /\ toDisk' = [toDisk EXCEPT ![d] = @ \o words]
  /\ UNCHANGED <<dpc, dnum, blocks, fromDisk, holds, sigint, fileVars,
                 zombies, parentUp>>

(* The command returns to the shell with outcome o; its locals are gone. *)
Return(o) ==
  /\ pc' = "shell"
  /\ phase' = "rb"
  /\ out' = o
  /\ blk' = 0
  /\ data' = ZeroBlock /\ kblock' = ZeroBlock /\ pblock' = ZeroBlock
  /\ UNCHANGED <<restoreVars, idx, pid>>

(* A request of a command that failed makes the command fail; one of       *)
(* restore_disk_process is a catastrophic failure, exit(1).                *)
GiveUp ==
  \/ /\ phase \in CommandPhases
     /\ Return(Failed)
     /\ UNCHANGED parentUp
  \/ /\ phase \in RestorePhases
     /\ ParentExits
     /\ UNCHANGED <<phase, blk, data, writeVars, restoreVars, idx, pid, out>>

SendCmd ==
  /\ pc = "cmd"
  /\ Send(Target, <<IF phase \in ReadPhases THEN CMD_READ ELSE CMD_WRITE>>)
  /\ pc' = "num"
  /\ UNCHANGED <<phase, blk, data, writeVars, restoreVars, idx, pid, out>>

(* The command cannot be sent: restore_disk_process(disk_num), after which *)
(* the request goes on with the block number.                              *)
FindDead ==
  /\ pc = "cmd"
  /\ phase \in CommandPhases
  /\ ~Alive(Target)
  /\ pc' = "restart"
  /\ rdisk' = Target
  /\ caller' = phase
  /\ UNCHANGED <<diskVars, phase, blk, data, writeVars, src, idx, rebuilt,
                 gen, pid, out>>

SendNum ==
  /\ pc = "num"
  /\ Send(Target, <<IntWord(Stripe)>>)
  /\ pc' = IF phase \in ReadPhases THEN "recv" ELSE "data"
  /\ UNCHANGED <<phase, blk, data, writeVars, restoreVars, idx, pid, out>>

(* EPIPE where it is not answered by a restart. *)
SendFails ==
  /\ \/ pc \in {"num", "data"}
     \/ pc = "cmd" /\ phase \in RestorePhases
  /\ ~Alive(Target)
  /\ GiveUp
  /\ UNCHANGED <<dpc, dnum, blocks, pipeVars, holds, sigint, fileVars,
                 zombies>>

(* read(from_disk[0], .., block_size): the block has arrived. *)
Received == First(fromDisk[Target], BlockWords)
TakeBlock ==
  /\ pc = "recv"
  /\ Len(fromDisk[Target]) >= BlockWords
  /\ fromDisk' = [fromDisk EXCEPT ![Target] = Rest(@, BlockWords)]
  /\ UNCHANGED <<dpc, dnum, blocks, toDisk, holds, sigint, fileVars, zombies,
                 parentUp>>

(* The disk is gone and left no whole block in the pipe. *)
RecvFails ==
  /\ pc = "recv"
  /\ ShortRead(fromDisk[Target], BlockWords, Alive(Target))
  /\ fromDisk' = [fromDisk EXCEPT ![Target] = <<>>]
  /\ GiveUp
  /\ UNCHANGED <<dpc, dnum, blocks, toDisk, holds, sigint, fileVars, zombies>>

-----------------------------------------------------------------------------
(* read_block and write_block.                                             *)

(* stripe_num < 0 || stripe_num >= num_blocks, for block numbers from 0    *)
(* up; a negative one is not in the commands given here.                   *)
ValidBlock_Inclusive(b) == b \div NumDisks <= NumBlocks
ValidBlock(b) == b \div NumDisks < NumBlocks

ReadBlock(b) ==
  /\ pc = "shell"
  /\ \/ /\ ValidBlock(b)
        /\ pc' = "cmd" /\ phase' = "rb"
        /\ blk' = b
        /\ UNCHANGED out
     \/ /\ ~ValidBlock(b) \/ Faults
        /\ out' = Failed
        /\ UNCHANGED <<pc, phase, blk>>
  /\ UNCHANGED <<diskVars, data, writeVars, restoreVars, idx, pid>>

(* The file may be missing or too short, and k_block may not be allocated. *)
WriteBlock(b, v) ==
  /\ pc = "shell"
  /\ \/ /\ ValidBlock(b)
        /\ pc' = "cmd" /\ phase' = "R1"
        /\ blk' = b /\ data' = v
        /\ UNCHANGED out
     \/ /\ ~ValidBlock(b) \/ Faults
        /\ out' = Failed
        /\ UNCHANGED <<pc, phase, blk, data>>
  /\ UNCHANGED <<diskVars, writeVars, restoreVars, idx, pid>>

RecvRead ==
  /\ phase = "rb"
  /\ TakeBlock
  /\ Return(Printed(Received))

RecvOldData ==
  /\ phase = "R1"
  /\ TakeBlock
  /\ kblock' = Received
  /\ pc' = "cmd" /\ phase' = "R2"
  /\ UNCHANGED <<blk, data, pblock, restoreVars, idx, pid, out>>

(* malloc of parity_block fails after the old data was read. *)
ParityAllocFails ==
  /\ Faults
  /\ phase = "R1"
  /\ TakeBlock
  /\ Return(Failed)

(* parity ^= old data; parity ^= new data. *)
NewParity_KeepsOld(parity) == XorBlock(parity, data)
NewParity_DropsNew(parity) == XorBlock(parity, kblock)
NewParity(parity) == XorBlock(XorBlock(parity, kblock), data)

RecvOldParity ==
  /\ phase = "R2"
  /\ TakeBlock
  /\ pblock' = NewParity(Received)
  /\ pc' = "cmd" /\ phase' = "W1"
  /\ UNCHANGED <<blk, data, kblock, restoreVars, idx, pid, out>>

SendParity ==
  /\ pc = "data" /\ phase = "W1"
  /\ Send(Target, pblock)
  /\ pc' = "cmd" /\ phase' = "W2"
  /\ UNCHANGED <<blk, data, writeVars, restoreVars, idx, pid, out>>

SendData ==
  /\ pc = "data" /\ phase = "W2"
  /\ Send(Target, data)
  /\ Return(Written)

-----------------------------------------------------------------------------
(* restore_disk_process(rdisk).                                            *)

(* "if (i == disk_num) continue;" *)
SkipSelf(i) == IF i = rdisk THEN i + 1 ELSE i

(* The loop over the data disks goes on at disk i, or ends. *)
SourceFrom(i) ==
  IF SkipSelf(i) < NumDisks
  THEN phase' = "RR" /\ src' = SkipSelf(i)
  ELSE phase' = "RW" /\ src' = 0

(* The child of restart_disk closes the controller ends of the data disks  *)
(* other than itself, and so keeps those of its own pipes and of the       *)
(* parity disk's.                                                          *)
KeptByRestart(num) == {num, ParityDisk}

NewIncarnation_NoFork ==
  /\ gen' = [gen EXCEPT ![rdisk] = @ + 1]
  /\ UNCHANGED <<dpc, dnum, blocks, pipeVars, holds, sigint, fileVars, zombies>>

NewIncarnation ==
  /\ gen' = [gen EXCEPT ![rdisk] = @ + 1]
  /\ Spawn(rdisk, KeptByRestart(rdisk))

(* restart_disk; controllers[].pid is assigned in the child only. *)
RestartDisk ==
  /\ pc = "restart"
  /\ NewIncarnation
  /\ rebuilt' = ZeroDisk
  /\ idx' = 0
  /\ SourceFrom(0)
  /\ pc' = "cmd"
  /\ UNCHANGED <<parentUp, caller, blk, data, writeVars, rdisk, pid, out>>

(* pipe or fork fails, or malloc once the child runs: exit(1). *)
RestartFails ==
  /\ Faults
  /\ pc = "restart"
  /\ \/ UNCHANGED <<dpc, dnum, blocks, pipeVars, holds, sigint, fileVars,
                    zombies, gen>>
     \/ NewIncarnation
  /\ ParentExits
  /\ UNCHANGED <<phase, caller, blk, data, writeVars, rdisk, src, idx,
                 rebuilt, pid, out>>

(* restored_block[j][k] ^= temp[k] *)
XorInto_Overwrite(j, block) == [rebuilt EXCEPT ![j] = block]
XorInto(j, block) == [rebuilt EXCEPT ![j] = XorBlock(@, block)]

(* A block of another disk is XORed in; blocks first, then disks. *)
RecvSource ==
  /\ phase = "RR"
  /\ TakeBlock
  /\ rebuilt' = XorInto(idx, Received)
  /\ pc' = "cmd"
  /\ \/ /\ idx + 1 < NumBlocks
        /\ idx' = idx + 1
        /\ UNCHANGED <<phase, src>>
     \/ /\ idx + 1 = NumBlocks
        /\ idx' = 0
        /\ SourceFrom(src + 1)
  /\ UNCHANGED <<caller, blk, data, writeVars, rdisk, gen, pid, out>>

(* After the last block the interrupted request resumes behind its command. *)
SendRebuilt ==
  /\ pc = "data" /\ phase = "RW"
  /\ Send(rdisk, rebuilt[idx])
  /\ \/ /\ idx + 1 < NumBlocks
        /\ idx' = idx + 1
        /\ pc' = "cmd"
        /\ UNCHANGED <<phase, rebuilt>>
     \/ /\ idx + 1 = NumBlocks
        /\ idx' = 0
        /\ pc' = "num"
        /\ phase' = caller
        /\ rebuilt' = ZeroDisk
  /\ UNCHANGED <<blk, data, writeVars, caller, rdisk, src, gen, pid, out>>

-----------------------------------------------------------------------------
(* simulate_disk_failure and checkpoint_and_wait.                          *)

(* kill(controllers[d].pid, SIGINT): it reaches the process that runs as   *)
(* disk d only while that is the one whose pid is on record; one already   *)
(* terminated is unaffected.                                               *)
SimulateFailure(d) ==
  /\ pc = "shell"
  /\ sigint' = [sigint EXCEPT ![d] = @ \/ (Alive(d) /\ pid[d] = gen[d])]
  /\ out' = Silent
  /\ UNCHANGED <<dpc, dnum, blocks, pipeVars, holds, fileVars, zombies,
                 parentUp, pc, phase, blk, data, writeVars, restoreVars, idx,
                 pid>>

CheckpointAndWait ==
  /\ pc = "shell"
  /\ pc' = "exit" /\ idx' = 0
  /\ UNCHANGED <<diskVars, phase, blk, data, writeVars, restoreVars, pid, out>>

SendExit_StopsAtDead ==
  /\ pc = "exit"
  /\ \/ /\ Send(idx, <<CMD_EXIT>>)
        /\ IF idx = NumDisks THEN pc' = "wait" /\ idx' = 0
                             ELSE pc' = pc /\ idx' = idx + 1
     \/ ~Alive(idx) /\ UNCHANGED diskVars /\ pc' = "wait" /\ idx' = 0
  /\ UNCHANGED <<phase, blk, data, writeVars, restoreVars, pid, out>>

(* CMD_EXIT to disk idx; a dead one only gets a warning. *)
SendExit ==
  /\ pc = "exit"
  /\ \/ Send(idx, <<CMD_EXIT>>)
     \/ ~Alive(idx) /\ UNCHANGED diskVars
  /\ IF idx = NumDisks THEN pc' = "wait" /\ idx' = 0
                       ELSE pc' = pc /\ idx' = idx + 1
  /\ UNCHANGED <<phase, blk, data, writeVars, restoreVars, pid, out>>

(* How often wait(NULL) is called. *)
Waits == NumDisks + 1

(* wait(NULL): it reaps any terminated child.  It waits for one, unless    *)
(* there is no child left at all; then it fails, which nobody checks.      *)
Wait ==
  /\ pc = "wait"
  /\ zombies > 0 \/ \A d \in Disks : ~Alive(d)
  /\ zombies' = IF zombies > 0 THEN zombies - 1 ELSE 0
  /\ IF idx + 1 = Waits
     THEN ParentExits /\ idx' = 0
     ELSE pc' = pc /\ idx' = idx + 1 /\ UNCHANGED parentUp
  /\ UNCHANGED <<dpc, dnum, blocks, pipeVars, holds, sigint, fileVars, phase,
                 blk, data, writeVars, restoreVars, pid, out>>

(* What the controller does once a command has been given. *)
ControllerStep ==
  \/ InitDisk \/ InitFails
  \/ SendCmd \/ FindDead \/ SendNum \/ SendFails \/ RecvFails
  \/ RecvRead \/ RecvOldData \/ ParityAllocFails \/ RecvOldParity
  \/ SendParity \/ SendData
  \/ RestartDisk \/ RestartFails \/ RecvSource \/ SendRebuilt
  \/ SendExit \/ Wait
=============================================================================
