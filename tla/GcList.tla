------------------------------- MODULE GcList -------------------------------
(***************************************************************************)
(* The linked list of A2 on top of the collector: the list (A2/src/list.c),*)
(* the program that executes operations on it (A2/src/do_list.c), and its  *)
(* marker (A2/src/gc_list.c).  A node of the list is one chunk.            *)
(*                                                                         *)
(* An operator Op_Mistake is Op with a mistake in it that a property has   *)
(* to notice; no action uses it.                                           *)
(***************************************************************************)
EXTENDS Collector

CONSTANTS Values,   \* what a node holds
          MaxOps    \* operations in the file

ASSUME MaxOpsAssumption == MaxOps \in Nat

VARIABLES
  list_head,   \* of main
  curr,        \* of mark_list: the node to mark next
  atEnd,       \* has the file been read?
  ops          \* operations executed

vars == <<gcVars, list_head, curr, atEnd, ops>>

CellAt(v, n) == [kind |-> "cell", value |-> v, next |-> n]

Init ==
  /\ CollectorInit
  /\ list_head = NULL /\ curr = NULL
  /\ atEnd = FALSE
  /\ ops = 0

-----------------------------------------------------------------------------
(* list.c.                                                                 *)

Operation ==
  /\ gc = "run" /\ ~atEnd
  /\ ops < MaxOps
  /\ ops' = ops + 1
  /\ UNCHANGED <<curr, atEnd>>

AddNode(v) ==
  LET n == Malloc(Used) IN
  /\ Operation
  /\ \/ /\ HasMemory(1)
        /\ Allocate(<<n>>, [mem EXCEPT ![n] = CellAt(v, list_head)])
        /\ list_head' = n
     \/ /\ ~HasMemory(1)
        /\ OutOfMemory
        /\ UNCHANGED list_head

(* The nodes from a on: the pointer that curr is after n steps, until it   *)
(* is NULL.                                                                *)
Walk(a) ==
  LET at[n \in 0..HeapSize] ==
        IF n = 0 THEN a
        ELSE LET node == at[n - 1]
             IN IF node = NULL THEN NULL ELSE mem[node].next
  IN at

Least(S) == CHOOSE n \in S : \A k \in S : n <= k

(* The node before the first one with value v, behind node a, or the last: *)
(* where the walk stops.                                                   *)
Before_ToTheLast(a, v) ==
  LET node == Walk(a)
      next(n) == mem[node[n]].next
      stops == {n \in 0..HeapSize : /\ node[n] # NULL
                                    /\ next(n) = NULL \/ mem[next(n)].next = NULL}
  IN node[Least(stops)]
Before(a, v) ==
  LET node == Walk(a)
      next(n) == mem[node[n]].next
      stops == {n \in 0..HeapSize : /\ node[n] # NULL
                                    /\ next(n) = NULL \/ mem[next(n)].value = v}
  IN node[Least(stops)]

RemoveNode(v) ==
  /\ Operation
  /\ UNCHANGED <<memory, passed, inUse, gc>>
  /\ \/ /\ list_head = NULL
        /\ UNCHANGED <<mem, list_head>>
     \/ /\ list_head # NULL /\ mem[list_head].value = v
        /\ list_head' = mem[list_head].next
        /\ UNCHANGED mem
     \/ /\ list_head # NULL /\ mem[list_head].value # v
        /\ LET prev == Before(list_head, v)
               next == mem[prev].next
           IN mem' = IF next = NULL THEN mem
                     ELSE [mem EXCEPT ![prev].next = mem[next].next]
        /\ UNCHANGED list_head

-----------------------------------------------------------------------------
(* gc_list.c: mark_list, which also marks again what is marked already.    *)

FirstToMark_SkipsHead(head) == IF head = NULL THEN NULL ELSE mem[head].next
FirstToMark(head) == head

MarkCell ==
  /\ gc = "mark"
  /\ curr # NULL
  /\ inUse' = Marked(inUse, curr)
  /\ curr' = mem[curr].next
  /\ UNCHANGED <<mem, memory, passed, gc, list_head, atEnd, ops>>

MarkingDone ==
  /\ gc = "mark"
  /\ curr = NULL
  /\ gc' = "sweep"
  /\ UNCHANGED <<mem, memory, passed, inUse, list_head, curr, atEnd, ops>>

-----------------------------------------------------------------------------
(* do_list.c.                                                              *)

(* mark_and_sweep(head, mark_list). *)
MarkAndSweep(head) ==
  /\ gc = "run"
  /\ gc' = "mark"
  /\ inUse' = Cleared
  /\ curr' = FirstToMark(head)
  /\ UNCHANGED <<mem, memory, passed>>

(* The operation g. *)
Collect ==
  /\ ~atEnd /\ ops < MaxOps
  /\ \/ MarkAndSweep(list_head)
     \/ LogFails /\ UNCHANGED curr
  /\ ops' = ops + 1
  /\ UNCHANGED <<list_head, atEnd>>

(* The end of the file: list_head = NULL, and all memory is collected. *)
EndOfFile ==
  /\ ~atEnd
  /\ atEnd' = TRUE
  /\ list_head' = NULL
  /\ \/ MarkAndSweep(NULL)
     \/ LogFails /\ UNCHANGED curr
  /\ UNCHANGED ops

Sweep ==
  /\ FreeChunk \/ KeepChunk \/ EndSweep(IF atEnd THEN "done" ELSE "run")
  /\ UNCHANGED <<list_head, curr, atEnd, ops>>

Stopped ==
  /\ gc \in {"done", "exit"}
  /\ UNCHANGED vars

Next ==
  \/ \E v \in Values : AddNode(v) \/ RemoveNode(v)
  \/ Collect \/ EndOfFile
  \/ MarkCell \/ MarkingDone \/ Sweep
  \/ Stopped

Spec == Init /\ [][Next]_vars

(* One process that nothing ever holds up, on a file that ends. *)
FairSpec == Spec /\ WF_vars(Next)

-----------------------------------------------------------------------------
(* The list as its users see it.                                           *)

(* The nodes from a on, and their values. *)
NodesFrom(a) == {Walk(a)[n] : n \in 0..HeapSize} \ {NULL}
ValuesFrom(a) ==
  [i \in 1..Cardinality(NodesFrom(a)) |-> mem[Walk(a)[i - 1]].value]

Listed == ValuesFrom(list_head)

(* s without the first v in it, or s. *)
Without(s, v) ==
  LET found == {i \in DOMAIN s : s[i] = v}
      first == Least(found)
  IN IF found = {} THEN s
     ELSE SubSeq(s, 1, first - 1) \o SubSeq(s, first + 1, Len(s))

-----------------------------------------------------------------------------
(* Properties.                                                             *)

(* A node that stays leads to a node that stays or to none, garbage        *)
(* included while it is there; the marker marks exactly the list before    *)
(* the node it has come to; and the collector has on record exactly the    *)
(* chunks that exist, each of them once.                                   *)
ListOK ==
  /\ \A a \in Used : ~(gc = "sweep" /\ ~inUse[a]) => mem[a].next \in Used \cup {NULL}
  /\ list_head \in Used \cup {NULL}
  /\ gc = "mark" =>
       {a \in Addr : inUse[a]} = NodesFrom(list_head) \ NodesFrom(curr)
  /\ LET list == passed \o memory IN
     /\ {list[i] : i \in DOMAIN list} = Used
     /\ Len(list) = Cardinality(Used)

(* "Insert a new node with the value v at the front of the list", "Remove  *)
(* the first node in the list h that has the value v": to the program the  *)
(* list is a sequence that nothing else changes, a collection least of     *)
(* all, until it is given up at the end of the file.                       *)
IsSequence ==
  [][/\ \A v \in Values :
          /\ AddNode(v) /\ gc' = "run" => Listed' = <<v>> \o Listed
          /\ RemoveNode(v) => Listed' = Without(Listed, v)
     /\ \/ Listed' = Listed
        \/ \E v \in Values : AddNode(v) \/ RemoveNode(v)
        \/ EndOfFile]_vars

(* "This should free all allocated memory": it does, and the program ends. *)
ListFreed == (atEnd /\ gc = "mark") ~> (gc = "done" /\ Used = {})

(* The collector does what ChunkPool says. *)
Pool == INSTANCE ChunkPool WITH
  Chunk <- Addr,
  chunks <- Used,
  reach <- NodesFrom(list_head),
  collecting <- gc \in {"mark", "sweep"}

ListImplementsPool == Pool!Spec
=============================================================================
