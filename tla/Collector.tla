----------------------------- MODULE Collector ------------------------------
(***************************************************************************)
(* The mark-and-sweep collector of A2 (A2/src/gc.c), which keeps a list of *)
(* every chunk it has handed out, and frees those that the client's marker *)
(* does not mark.                                                          *)
(*                                                                         *)
(* The program is sequential: the client executes transactions, and        *)
(* mark_and_sweep runs to its end before the next.  Marking is the         *)
(* client's (GcList, GcTree); it advances "gc" from "mark" to "sweep".     *)
(*                                                                         *)
(* An operator Op_Mistake is Op with a mistake in it that a property has   *)
(* to notice; no action uses it.                                           *)
(***************************************************************************)
EXTENDS Integers, FiniteSets, Sequences

CONSTANT HeapSize   \* chunks that fit in memory

ASSUME HeapAssumption == HeapSize \in Nat \ {0}

Addr == 1..HeapSize
NULL == 0
Pointer == Addr \cup {NULL}

VARIABLES
  mem,     \* the contents of every chunk
  memory,  \* memory_list_head: the addresses on record, from sweep on
  passed,  \* during a sweep, the ones before: prev is the last of them
  inUse,   \* in_use of the chunk with that address
  gc       \* "run", "mark", "sweep"; "done", "exit" or "crash" at the end

gcVars == <<mem, memory, passed, inUse, gc>>

Free == [kind |-> "free"]

Used == {a \in Addr : mem[a] # Free}

CollectorInit ==
  /\ mem = [a \in Addr |-> Free]
  /\ memory = <<>> /\ passed = <<>>
  /\ inUse = [a \in Addr |-> FALSE]
  /\ gc = "run"

-----------------------------------------------------------------------------
(* gc_malloc.                                                              *)

(* malloc: an address that is not taken.  Programs that only compare       *)
(* addresses cannot tell which one, so it is the lowest.                   *)
Malloc(taken) ==
  CHOOSE a \in Addr \ taken : \A b \in Addr \ taken : a <= b

HasMemory(n) == Cardinality(Addr \ Used) >= n

(* New chunks go to the head of the list, the latest first, as USED.       *)
Recorded_Lost(latest) == memory' = <<Head(latest)>> \o memory
Recorded(latest) == memory' = latest \o memory

Allocate(latest, contents) ==
  /\ Recorded(latest)
  /\ inUse' = [a \in Addr |-> inUse[a] \/ \E i \in DOMAIN latest : latest[i] = a]
  /\ mem' = contents
  /\ UNCHANGED <<passed, gc>>

(* malloc returned NULL: exit(1). *)
OutOfMemory ==
  /\ gc' = "exit"
  /\ UNCHANGED <<mem, memory, passed, inUse>>

-----------------------------------------------------------------------------
(* mark_and_sweep.                                                         *)

(* Every chunk is set to NOT_USED before the marker is called. *)
Cleared_Kept == inUse
Cleared == [a \in Addr |-> FALSE]

(* fopen(LOGFILE, "a") fails: exit(1). *)
LogFails ==
  /\ gc = "run"
  /\ gc' = "exit"
  /\ UNCHANGED <<mem, memory, passed, inUse>>

OnRecord(a) == \E i \in DOMAIN memory : memory[i] = a

(* mark_one(a), where "marks" are the chunks in use so far: it returns 0   *)
(* when a is marked by this call, 1 when it was already, 2 when it is not  *)
(* on the list.                                                            *)
MarkOne(marks, a) == IF ~OnRecord(a) THEN 2 ELSE IF marks[a] THEN 1 ELSE 0
Marked(marks, a) == [b \in Addr |-> marks[b] \/ (b = a /\ OnRecord(a))]

(* The chunk at sweep is not marked: it is unlinked, at the head or behind *)
(* prev, and freed.                                                        *)
AfterFreeing_SkipsNext ==
  IF Len(memory) > 1
  THEN /\ memory' = Tail(Tail(memory))
       /\ passed' = Append(passed, memory[2])
  ELSE memory' = <<>> /\ UNCHANGED passed
AfterFreeing == memory' = Tail(memory) /\ UNCHANGED passed

FreeChunk ==
  /\ gc = "sweep"
  /\ memory # <<>>
  /\ ~inUse[Head(memory)]
  /\ mem' = [mem EXCEPT ![Head(memory)] = Free]
  /\ AfterFreeing
  /\ UNCHANGED <<inUse, gc>>

KeepChunk ==
  /\ gc = "sweep"
  /\ memory # <<>>
  /\ inUse[Head(memory)]
  /\ passed' = Append(passed, Head(memory))
  /\ memory' = Tail(memory)
  /\ UNCHANGED <<mem, inUse, gc>>

(* The end of the list; control returns to the client at "back". *)
EndSweep(back) ==
  /\ gc = "sweep"
  /\ memory = <<>>
  /\ memory' = passed /\ passed' = <<>>
  /\ gc' = back
  /\ UNCHANGED <<mem, inUse>>
=============================================================================
