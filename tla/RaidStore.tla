------------------------------ MODULE RaidStore -----------------------------
(***************************************************************************)
(* What the RAID simulator does for its user while no disk fails, as an    *)
(* implementation of the array of blocks of module BlockStore.             *)
(***************************************************************************)
EXTENDS RaidSim

(* The run ends with every disk saved. *)
AllSaved == <>[](pc = "gone" /\ \A d \in Disks : fileState[d] = "saved")

(* The contents of block b of the user. *)
BlockOf(b) == Contents(b % NumDisks)[b \div NumDisks]

(* The command being served, as the user sees it. *)
UserRequest ==
  IF pc \in {"init", "shell", "exit", "wait", "gone"} THEN [op |-> "idle"]
  ELSE IF phase = "rb" THEN [op |-> "read", num |-> blk]
  ELSE [op |-> "write", num |-> blk, val |-> data]

Store == INSTANCE BlockStore WITH
  BlockNum <- BlockNums, Value <- Data, Zero <- ZeroBlock,
  Printed <- Printed, Written <- Written, Failed <- Failed, Silent <- Silent,
  store <- [b \in BlockNums |-> BlockOf(b)],
  req <- UserRequest,
  out <- out

(* The system implements the block store of its user. *)
ImplementsStore == Store!Spec
=============================================================================
