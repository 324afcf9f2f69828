------------------------------- MODULE GcTree -------------------------------
(***************************************************************************)
(* The file-system tree of A2 on top of the collector: the tree            *)
(* (A2/src/fstree.c), the program that executes transactions on it         *)
(* (A2/src/do_fstree.c), and its marker (A2/src/gc_fstree.c).              *)
(*                                                                         *)
(* A node of the tree, its name and each link to a child are chunks of the *)
(* collector.  A link belongs to the list of links of one node; a hard     *)
(* link is a second link to the same node, so that nodes are shared and    *)
(* the tree may contain cycles.                                            *)
(*                                                                         *)
(* An operator Op_Mistake is Op with a mistake in it that a property has   *)
(* to notice; no action uses it.                                           *)
(***************************************************************************)
EXTENDS Collector

CONSTANTS Names,     \* names of nodes, other than "root"
          MaxDepth,  \* elements of the longest path in a transaction
          MaxOps     \* transactions in the file

ASSUME TreeAssumption ==
  /\ "root" \notin Names
  /\ MaxDepth \in Nat /\ MaxOps \in Nat

VARIABLES
  root,    \* root of main: the node, NULL before and after
  atEnd,   \* has the transaction file been read?
  stack,   \* curr_link of every active call of mark_fstree
  ops      \* transactions executed

vars == <<gcVars, root, atEnd, stack, ops>>

Paths == UNION {[1..n -> Names] : n \in 0..MaxDepth}

NodeAt(n, l) == [kind |-> "node", name |-> n, links |-> l]
LinkAt(f, n) == [kind |-> "link", fptr |-> f, next |-> n]
NameAt(t) == [kind |-> "name", text |-> t]

ChunksOf(kind) == {a \in Addr : mem[a].kind = kind}
Nodes == ChunksOf("node")
Links == ChunksOf("link")

Init ==
  /\ CollectorInit
  /\ root = NULL
  /\ atEnd = FALSE
  /\ stack = <<>>
  /\ ops = 0

-----------------------------------------------------------------------------
(* fstree.c: looking up.                                                   *)

(* The name of the node that link l leads to. *)
ChildName(l) == mem[mem[mem[l].fptr].name].text

(* find_child: the child behind the first link with that name. *)
FindChild(p, nm) ==
  LET from[l \in Links \cup {NULL}] ==
        IF l = NULL THEN NULL
        ELSE IF ChildName(l) = nm THEN mem[l].fptr
        ELSE from[mem[l].next]
  IN from[mem[p].links]

(* find_node; the empty path and "root" are the root. *)
FindNode(path) ==
  LET at[n \in 0..Len(path)] ==
        IF n = 0 THEN root
        ELSE LET p == at[n - 1]
             IN IF p = NULL THEN NULL ELSE FindChild(p, path[n])
  IN at[Len(path)]

-----------------------------------------------------------------------------
(* What can be reached.                                                    *)

Targets(a) ==
  CASE mem[a].kind = "node" -> {mem[a].name, mem[a].links} \ {NULL}
    [] mem[a].kind = "link" -> {mem[a].fptr, mem[a].next} \ {NULL}
    [] OTHER -> {}

(* The chunks at most n pointers away from "start", n as large as the heap. *)
From(start) ==
  LET within[n \in 0..HeapSize] ==
        IF n = 0 THEN start
        ELSE UNION {{a} \cup Targets(a) : a \in within[n - 1]}
  IN within[HeapSize]

Reach == From({root} \ {NULL})

-----------------------------------------------------------------------------
(* fstree.c: transactions.                                                 *)

Transaction ==
  /\ gc = "run"
  /\ root # NULL
  /\ ops < MaxOps
  /\ ops' = ops + 1
  /\ UNCHANGED <<root, atEnd, stack>>

(* main: root = create_node("root"). *)
CreateRoot ==
  LET n == Malloc(Used)
      t == Malloc(Used \cup {n})
  IN
  /\ gc = "run"
  /\ root = NULL /\ ~atEnd
  /\ IF HasMemory(2)
     THEN /\ Allocate(<<t, n>>,
               [mem EXCEPT ![n] = NodeAt(t, NULL), ![t] = NameAt("root")])
          /\ root' = n
     ELSE OutOfMemory /\ UNCHANGED root
  /\ UNCHANGED <<atEnd, stack, ops>>

(* create_node and create_link, and the link at the front of the node at   *)
(* the path.                                                               *)
AddNode(path, nm) ==
  LET n == Malloc(Used)
      t == Malloc(Used \cup {n})
      l == Malloc(Used \cup {n, t})
  IN
  /\ Transaction
  /\ \E fp \in Nodes \cap {FindNode(path)} :
       \/ /\ HasMemory(3)
          /\ Allocate(<<l, t, n>>,
               [mem EXCEPT ![n] = NodeAt(t, NULL), ![t] = NameAt(nm),
                           ![l] = LinkAt(n, mem[fp].links), ![fp].links = l])
       \/ ~HasMemory(3) /\ OutOfMemory

(* A second link, at the front of the node at "dest", to the child of that *)
(* name of the node at "src".                                              *)
AddHardLink(dest, src, nm) ==
  LET l == Malloc(Used) IN
  /\ Transaction
  /\ \E srcp \in Nodes \cap {FindNode(src)} :
     \E fp \in Nodes \cap {FindChild(srcp, nm)} :
     \E destp \in Nodes \cap {FindNode(dest)} :
       \/ /\ HasMemory(1)
          /\ Allocate(<<l>>,
               [mem EXCEPT ![l] = LinkAt(fp, mem[destp].links),
                           ![destp].links = l])
       \/ ~HasMemory(1) /\ OutOfMemory

(* The error messages of add_node and add_hard_link. *)
AddFails ==
  /\ Transaction
  /\ \/ \E path \in Paths : FindNode(path) = NULL
     \/ \E path \in Paths, nm \in Names :
          FindNode(path) # NULL /\ FindChild(FindNode(path), nm) = NULL
  /\ UNCHANGED gcVars

(* The link before the first one with that name, or the last of the list;  *)
(* the link l itself is not looked at.                                     *)
Before_OneFurther(l, nm) == IF mem[l].next = NULL THEN l ELSE mem[l].next
Before(l, nm) ==
  LET from[k \in Links] ==
        IF mem[k].next = NULL \/ ChildName(mem[k].next) = nm
        THEN k ELSE from[mem[k].next]
  IN from[l]

(* remove_node: the first link of the list goes if it has that name; the   *)
(* search then goes on behind it, and another one goes in any case.        *)
RemoveNode(path, nm) ==
  /\ Transaction
  /\ \E fp \in Nodes \cap {FindNode(path)} :
       \/ mem[fp].links = NULL /\ UNCHANGED mem
       \/ \E first \in Links \cap {mem[fp].links} :
          \E prev \in Links \cap {Before(first, nm)} :
            LET next == mem[prev].next
                unlinked == IF ChildName(first) = nm
                            THEN [mem EXCEPT ![fp].links = mem[first].next]
                            ELSE mem
            IN mem' = IF next = NULL THEN unlinked
                      ELSE [unlinked EXCEPT ![prev].next = mem[next].next]
  /\ UNCHANGED <<memory, passed, inUse, gc>>

(* find_node returned NULL, and remove_node reads fp->links. *)
RemoveCrashes ==
  /\ Transaction
  /\ \E path \in Paths : FindNode(path) = NULL
  /\ gc' = "crash"
  /\ UNCHANGED <<mem, memory, passed, inUse>>

(* print_tree does not return from a cycle: its calls exhaust the stack.   *)
(* Anywhere else it only reads.                                            *)
PrintCrashes ==
  /\ Transaction
  /\ \E a \in Reach : a \in From(Targets(a))
  /\ gc' = "crash"
  /\ UNCHANGED <<mem, memory, passed, inUse>>

-----------------------------------------------------------------------------
(* gc_fstree.c: mark_fstree.                                               *)

(* The call mark_fstree(p): it returns at once when p is marked already,   *)
(* and else marks the node and its name and turns to its links.            *)
VisitNode_ForgetsName(p, marks, calls) ==
  IF p = NULL \/ MarkOne(marks, p) = 1
  THEN inUse' = marks /\ stack' = calls
  ELSE inUse' = Marked(marks, p) /\ stack' = Append(calls, mem[p].links)

VisitNode(p, marks, calls) ==
  IF p = NULL \/ MarkOne(marks, p) = 1
  THEN inUse' = marks /\ stack' = calls
  ELSE /\ inUse' = Marked(Marked(marks, p), mem[p].name)
       /\ stack' = Append(calls, mem[p].links)

Top == stack[Len(stack)]
Callers == SubSeq(stack, 1, Len(stack) - 1)

(* A link that is marked is passed over, any other is marked and followed; *)
(* when that call returns the loop goes on with the next link.             *)
MarkLink ==
  /\ gc = "mark"
  /\ stack # <<>> /\ Top # NULL
  /\ LET calls == Append(Callers, mem[Top].next)
     IN IF MarkOne(inUse, Top) = 1
        THEN stack' = calls /\ UNCHANGED inUse
        ELSE VisitNode(mem[Top].fptr, Marked(inUse, Top), calls)
  /\ UNCHANGED <<mem, memory, passed, gc, root, atEnd, ops>>

(* The end of the list of links: the call returns. *)
LeaveNode ==
  /\ gc = "mark"
  /\ stack # <<>> /\ Top = NULL
  /\ stack' = Callers
  /\ UNCHANGED <<gcVars, root, atEnd, ops>>

(* The call from mark_and_sweep returns. *)
MarkingDone ==
  /\ gc = "mark"
  /\ stack = <<>>
  /\ gc' = "sweep"
  /\ UNCHANGED <<mem, memory, passed, inUse, root, atEnd, stack, ops>>

-----------------------------------------------------------------------------
(* do_fstree.c.                                                            *)

(* mark_and_sweep(r, mark_fstree). *)
MarkAndSweep(r) ==
  /\ gc = "run"
  /\ gc' = "mark"
  /\ VisitNode(r, Cleared, <<>>)
  /\ UNCHANGED <<mem, memory, passed>>

(* The transaction g. *)
Collect ==
  /\ root # NULL /\ ops < MaxOps
  /\ \/ MarkAndSweep(root)
     \/ LogFails /\ UNCHANGED stack
  /\ ops' = ops + 1
  /\ UNCHANGED <<root, atEnd>>

(* The end of the file: root = NULL, and all memory is collected. *)
EndOfFile ==
  /\ root # NULL
  /\ root' = NULL
  /\ atEnd' = TRUE
  /\ \/ MarkAndSweep(NULL)
     \/ LogFails /\ UNCHANGED stack
  /\ UNCHANGED ops

Sweep ==
  /\ FreeChunk \/ KeepChunk \/ EndSweep(IF atEnd THEN "done" ELSE "run")
  /\ UNCHANGED <<root, atEnd, stack, ops>>

Stopped ==
  /\ gc \in {"done", "exit", "crash"}
  /\ UNCHANGED vars

Next ==
  \/ CreateRoot
  \/ \E path \in Paths, nm \in Names : AddNode(path, nm) \/ RemoveNode(path, nm)
  \/ \E dest, src \in Paths, nm \in Names : AddHardLink(dest, src, nm)
  \/ AddFails \/ RemoveCrashes \/ PrintCrashes
  \/ Collect \/ EndOfFile
  \/ MarkLink \/ LeaveNode \/ MarkingDone \/ Sweep
  \/ Stopped

Spec == Init /\ [][Next]_vars

(* One process that nothing ever holds up, on a file that ends. *)
FairSpec == Spec /\ WF_vars(Next)

-----------------------------------------------------------------------------
(* What a node's list of links contains.                                   *)

(* The links of node p that are in S, in order. *)
LinksIn(S, p) ==
  LET from[l \in Links \cup {NULL}] ==
        IF l = NULL THEN <<>>
        ELSE IF l \in S THEN <<l>> \o from[mem[l].next]
        ELSE from[mem[l].next]
  IN from[mem[p].links]

Called(nm) == {l \in Links : ChildName(l) = nm}

(* All links of node p, and those with, and without, that name. *)
LinksOf(p) == LinksIn(Links, p)
Named(p, nm) == LinksIn(Called(nm), p)
Others(p, nm) == LinksIn(Links \ Called(nm), p)

-----------------------------------------------------------------------------
(* Properties.                                                             *)

(* Is pointer p NULL, or does it lead to a chunk of that kind? *)
To(kind, p) == p = NULL \/ p \in ChunksOf(kind)

(* Chunk a is not about to be freed. *)
Stays(a) == gc = "sweep" => inUse[a]

(* Nothing dangles: every chunk that is kept has pointers to chunks of the *)
(* right kind that are not freed, garbage included while it is there, and  *)
(* the records of the collector are of exactly the chunks that exist.      *)
HeapOK ==
  /\ \A a \in Nodes : Stays(a) =>
       mem[a].name \in ChunksOf("name") /\ To("link", mem[a].links)
  /\ \A a \in Links : Stays(a) =>
       mem[a].fptr \in Nodes /\ To("link", mem[a].next)
  /\ To("node", root)
  /\ LET list == passed \o memory IN
     /\ {list[i] : i \in DOMAIN list} = Used
     /\ Len(list) = Cardinality(Used)

(* The marker leaves nothing behind: a chunk that is marked has its        *)
(* pointers marked, except for the list of links that some call of         *)
(* mark_fstree has yet to go through; and it marks nothing that cannot be  *)
(* reached, whatever hard links and cycles there are.                      *)
Frontier ==
  gc = "mark" =>
    /\ root # NULL => inUse[root]
    /\ \A a \in Addr : inUse[a] =>
         /\ a \in Reach
         /\ \A b \in Targets(a) : inUse[b] \/ \E i \in DOMAIN stack : stack[i] = b

(* remove_node takes away one or two links of that name, if there is any,  *)
(* from the node at the path, leaves its other links in their order, and   *)
(* touches no other node.                                                  *)
RemoveIsLocal ==
  [][\A path \in Paths, nm \in Names : \A p \in Nodes \cap {FindNode(path)} :
       RemoveNode(path, nm) =>
         /\ Others(p, nm)' = Others(p, nm)
         /\ Named(p, nm) # <<>> =>
              Len(Named(p, nm)) - Len(Named(p, nm)') \in {1, 2}
         /\ \A q \in Nodes \ {p} : LinksOf(q)' = LinksOf(q)]_vars

(* "Set the root to NULL so that the garbage collector can clean up all    *)
(* the memory": it does, cycles included, and the program ends.            *)
AllFreed == (atEnd /\ gc = "mark") ~> (gc = "done" /\ Used = {})

(* The collector does what ChunkPool says. *)
Pool == INSTANCE ChunkPool WITH
  Chunk <- Addr,
  chunks <- Used,
  reach <- Reach,
  collecting <- gc \in {"mark", "sweep"}

ImplementsPool == Pool!Spec
=============================================================================
