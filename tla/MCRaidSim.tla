----------------------------- MODULE MCRaidSim -----------------------------
(* Values of the constants of RaidStore for model checking.                  *)
EXTENDS RaidStore

(* Words are two bits wide, 0 to 3, so that the commands, the block numbers *)
(* and a value that is neither all fit.  What a block reads as when it is   *)
(* taken for something else: CMD_EXIT, or first no command at all and at    *)
(* the end CMD_READ or the number of a block.                               *)
MCExitBlock == {[i \in 1..BlockWords |-> {1}]}
MCMixedBlock == {[i \in 1..BlockWords |-> IF i = BlockWords THEN {} ELSE {0, 1}]}
MCGarbage == {ZeroBlock}
=============================================================================
