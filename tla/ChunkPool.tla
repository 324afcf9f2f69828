----------------------------- MODULE ChunkPool ------------------------------
(***************************************************************************)
(* What the mark-and-sweep collector promises the program it serves: the   *)
(* program sees a pool of chunks of memory, of which it can reach some.  A *)
(* collection frees chunks that cannot be reached, never another one, and  *)
(* is over when none is left.  Lists, trees, marks and stacks are          *)
(* invisible.                                                              *)
(***************************************************************************)
CONSTANT Chunk

VARIABLES chunks,      \* allocated and not freed
          reach,       \* what the program can still reach
          collecting   \* is a collection under way?

poolVars == <<chunks, reach, collecting>>

Init ==
  /\ chunks = {} /\ reach = {}
  /\ collecting = FALSE

(* An operation of the program: what it newly reaches is newly allocated,  *)
(* and the other way round.  It may lose sight of anything.                *)
Mutate ==
  /\ ~collecting
  /\ chunks' \in SUBSET Chunk /\ reach' \in SUBSET Chunk
  /\ chunks \subseteq chunks'
  /\ chunks' \ chunks = reach' \ reach
  /\ UNCHANGED collecting

Begin ==
  /\ ~collecting
  /\ collecting' = TRUE
  /\ reach' \in SUBSET reach
  /\ UNCHANGED chunks

Release ==
  /\ collecting
  /\ \E c \in chunks \ reach : chunks' = chunks \ {c}
  /\ UNCHANGED <<reach, collecting>>

End ==
  /\ collecting
  /\ chunks = reach
  /\ collecting' = FALSE
  /\ UNCHANGED <<chunks, reach>>

Next == Mutate \/ Begin \/ Release \/ End

(* Every collection comes to its end. *)
Spec == Init /\ [][Next]_poolVars /\ WF_poolVars(Release \/ End)
=============================================================================
