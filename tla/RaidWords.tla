----------------------------- MODULE RaidWords -----------------------------
(***************************************************************************)
(* The data that travels through the pipes of the RAID simulator.          *)
(*                                                                         *)
(* Everything the controller and a disk exchange is a multiple of four     *)
(* bytes: a command (disk_command_t), a block number (int) and a block of  *)
(* block_size bytes.  A WORD is four bytes, represented by the set of its  *)
(* one-bits, so that the XOR of the C code is symmetric difference and a   *)
(* word of data can be read as a command when the two ends of a pipe lose  *)
(* step, exactly as the bytes would be.                                    *)
(***************************************************************************)
EXTENDS Integers, FiniteSets, Sequences

CONSTANTS WordBits,   \* how many bits of a word are told apart
          BlockWords  \* block_size / 4

ASSUME WordAssumption == WordBits \in Nat \ {0} /\ BlockWords \in Nat \ {0}

Bits == 0..(WordBits - 1)
Word == SUBSET Bits
Block == [1..BlockWords -> Word]

ZeroBlock == [i \in 1..BlockWords |-> {}]

Xor(v, w) == (v \ w) \cup (w \ v)

(* parity_block[i] ^= k_block[i], for every i. *)
XorBlock(x, y) == [i \in 1..BlockWords |-> Xor(x[i], y[i])]

(* The XOR of the blocks F[d], d \in S: a bit is set when an odd number of *)
(* them have it set.                                                       *)
XorAll(S, F) ==
  [i \in 1..BlockWords |->
     {b \in Bits : Cardinality({d \in S : b \in F[d][i]}) % 2 = 1}]

(* The word that holds the C int n. *)
IntWord(n) == {b \in Bits : (n \div 2^b) % 2 = 1}

(* The words of enum disk_command_t. *)
CMD_READ  == IntWord(0)
CMD_WRITE == IntWord(1)
CMD_EXIT  == IntWord(2)
=============================================================================
