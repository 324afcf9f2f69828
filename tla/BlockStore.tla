----------------------------- MODULE BlockStore -----------------------------
(***************************************************************************)
(* What the RAID system promises its user while no disk fails: one array   *)
(* of blocks, addressed by block number, in which a read returns what the  *)
(* last write to that block stored.  Striping, parity, processes and pipes *)
(* are invisible.                                                          *)
(***************************************************************************)
CONSTANTS BlockNum,   \* the valid block numbers
          Value,      \* the contents of a block
          Zero,       \* the contents of a block never written
          Printed(_), Written, Failed, Silent   \* what a command reports

VARIABLES store,   \* the contents of every block
          req,     \* the command being served, or Idle
          out      \* what the last command reported

bsVars == <<store, req, out>>

Idle == [op |-> "idle"]
ReadReq(b) == [op |-> "read", num |-> b]
WriteReq(b, v) == [op |-> "write", num |-> b, val |-> v]

Init ==
  /\ store = [b \in BlockNum |-> Zero]
  /\ req = Idle
  /\ out = Silent

Invoke ==
  /\ req = Idle
  /\ \/ \E b \in BlockNum : req' = ReadReq(b)
     \/ \E b \in BlockNum, v \in Value : req' = WriteReq(b, v)
  /\ UNCHANGED <<store, out>>

(* A command may be refused at once, and then changes nothing.  That this  *)
(* happens to those that name no block is not said here: a command that is *)
(* not served leaves no trace of its block number.                         *)
Refuse ==
  /\ req = Idle
  /\ out' = Failed
  /\ UNCHANGED <<store, req>>

AnswerRead ==
  /\ \E b \in BlockNum : req = ReadReq(b) /\ out' = Printed(store[b])
  /\ req' = Idle
  /\ UNCHANGED store

AnswerWrite ==
  /\ \E b \in BlockNum, v \in Value :
       req = WriteReq(b, v) /\ store' = [store EXCEPT ![b] = v]
  /\ out' = Written
  /\ req' = Idle

Next == Invoke \/ Refuse \/ AnswerRead \/ AnswerWrite

(* Every command that is served is answered. *)
Spec == Init /\ [][Next]_bsVars /\ WF_bsVars(AnswerRead \/ AnswerWrite)
=============================================================================
