----------------------------- MODULE ParityTool -----------------------------
(***************************************************************************)
(* The parity exercise of A1: compute_parity_block and reconstruct_block   *)
(* (A1/src/parity.c) as restore_block (A1/src/restore_block.c) uses them.  *)
(* The program reads rows of bytes from a file, XORs them into a parity    *)
(* block, deletes one row and rebuilds it from the rest.                   *)
(*                                                                         *)
(* A row is a block of module RaidWords; each step is one turn of the loop *)
(* over the rows.  An operator Op_Mistake is Op with a mistake in it that  *)
(* a property has to notice; no action uses it.                            *)
(***************************************************************************)
EXTENDS RaidWords

CONSTANT NumRows   \* num_blocks

ASSUME RowAssumption == NumRows \in Nat \ {0}

Rows == 0..(NumRows - 1)

VARIABLES
  pc,      \* the loop or call the program is in
  lines,   \* how many lines the file has
  file,    \* the lines of the file, cut or padded to a row
  data,    \* data[num_blocks][block_size]
  parity,  \* parity_block
  temp,    \* temp of reconstruct_block
  lost,    \* lost_block
  i        \* the loop counter

vars == <<pc, lines, file, data, parity, temp, lost, i>>

TypeOK ==
  /\ pc \in {"read", "first", "xor", "delete", "copy", "rebuild", "store",
             "done", "error"}
  /\ lines \in 0..NumRows
  /\ file \in [Rows -> Block]
  /\ data \in [Rows -> Block]
  /\ parity \in Block /\ temp \in Block
  /\ lost \in Rows
  /\ i \in 0..NumRows

(* data and temp are not initialised; every row is written before use.     *)
Init ==
  /\ pc = "read" /\ i = 0
  /\ lines \in 0..NumRows
  /\ file \in [Rows -> Block]
  /\ \A r \in Rows : r >= lines => file[r] = ZeroBlock
  /\ data = [r \in Rows |-> ZeroBlock]
  /\ parity = ZeroBlock /\ temp = ZeroBlock
  /\ lost \in Rows

(* The loop over the rows has another turn, or control goes to "after".    *)
Loop(after) ==
  IF i + 1 < NumRows THEN i' = i + 1 /\ pc' = pc
                     ELSE i' = 0 /\ pc' = after

(* get_data: one line, or an error and exit(1) when there is none left. *)
ReadRow ==
  /\ pc = "read"
  /\ i < lines
  /\ data' = [data EXCEPT ![i] = file[i]]
  /\ Loop("first")
  /\ UNCHANGED <<lines, file, parity, temp, lost>>

ReadFails ==
  /\ pc = "read"
  /\ i >= lines
  /\ pc' = "error"
  /\ UNCHANGED <<lines, file, data, parity, temp, lost, i>>

(* compute_parity_block: a copy of row 0, then the XOR with the others.    *)
FirstXored_Zero == 0
FirstXored == 1

CopyFirstRow ==
  /\ pc = "first"
  /\ parity' = data[0]
  /\ i' = FirstXored
  /\ pc' = IF FirstXored < NumRows THEN "xor" ELSE "delete"
  /\ UNCHANGED <<lines, file, data, temp, lost>>

XorRow ==
  /\ pc = "xor"
  /\ parity' = XorBlock(parity, data[i])
  /\ Loop("delete")
  /\ UNCHANGED <<lines, file, data, temp, lost>>

(* delete_data_block. *)
DeleteRow ==
  /\ pc = "delete"
  /\ data' = [data EXCEPT ![lost] = ZeroBlock]
  /\ pc' = "copy"
  /\ UNCHANGED <<lines, file, parity, temp, lost, i>>

(* reconstruct_block: the parity, XORed with every row but the lost one.   *)
CopyParity ==
  /\ pc = "copy"
  /\ temp' = parity
  /\ i' = 0
  /\ pc' = "rebuild"
  /\ UNCHANGED <<lines, file, data, parity, lost>>

RebuildRow_SkipsFirst ==
  /\ pc = "rebuild"
  /\ temp' = IF i # 0 THEN XorBlock(temp, data[i]) ELSE temp
  /\ Loop("store")
  /\ UNCHANGED <<lines, file, data, parity, lost>>

RebuildRow ==
  /\ pc = "rebuild"
  /\ temp' = IF i # lost THEN XorBlock(temp, data[i]) ELSE temp
  /\ Loop("store")
  /\ UNCHANGED <<lines, file, data, parity, lost>>

StoreRow ==
  /\ pc = "store"
  /\ data' = [data EXCEPT ![lost] = temp]
  /\ pc' = "done"
  /\ UNCHANGED <<lines, file, parity, temp, lost, i>>

(* The program has ended. *)
Ended ==
  /\ pc \in {"done", "error"}
  /\ UNCHANGED vars

Next ==
  \/ ReadRow \/ ReadFails
  \/ CopyFirstRow \/ XorRow \/ DeleteRow
  \/ CopyParity \/ RebuildRow \/ StoreRow
  \/ Ended

Spec == Init /\ [][Next]_vars

-----------------------------------------------------------------------------
(* compute_parity_block leaves the XOR of all the rows of the file. *)
ParityOfRows ==
  pc \in {"delete", "copy", "rebuild", "store", "done"} =>
    parity = XorAll(Rows, file)

(* Whichever row was deleted, the program ends with the file's rows.  *)
RestoresRow == pc = "done" => data = file
=============================================================================
