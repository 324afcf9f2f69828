# Formal models of the CSC209 programs

The repository is a collection of C programs written for a course on systems
programming: three assignments (A1 parity blocks, A2 a mark-and-sweep
collector, A3 a RAID-4 simulator) and eleven labs.  This directory holds TLA+
models of the ones whose behaviour is hard to test, the TLC runs that check
them on small instances, and theorems proved with TLAPS for all instances.

The RAID simulator comes first.  It is the only program made of several
processes that share state through pipes and that must survive the death of
one of them, and everything else in the repository is sequential or reacts to
one event at a time.

## 1. Inventory

### RAID-4 simulator (`src/A3/src`)

| part | state | operations |
|---|---|---|
| disk process (`disk_sim.c`) | `all_blocks`, the command it is in the middle of, its checkpoint file | read a command, read a block number, reply with a block, store a block, checkpoint and exit; return 1 on a short read |
| pipes (kernel) | the bytes under way in both directions, who has which end open | `write` blocks when full and fails with EPIPE when nobody can read, `read` blocks when empty and returns 0 when nobody can write |
| controller (`controller.c`) | `controllers[]` (pids, descriptors), the locals of `write_block` and `restore_disk_process` | `init_all_controllers`, `read_block`, `write_block`, `restore_disk_process`, `simulate_disk_failure`, `checkpoint_and_wait` |
| shell (`raid_sim.c`) | the transaction file | `wb`, `rb`, `kill`, `exit`, end of input |

The parent process is the shell and the controller; it forks one child per
disk, `num_disks` for data and one for parity.  A command of the shell becomes
one request (`rb`) or four (`wb`: read the old data, read the old parity, write
the new parity, write the new data) to the disks.  `kill` sends SIGINT and does
not wait; the failure is noticed when a later write fails with EPIPE, and
`restore_disk_process` then starts a new disk and fills it.

What is hard here: SIGINT falls between any two system calls of any process; a
pipe carries an unframed stream of words, so that after one lost or extra word
a disk reads data as commands; a write of two pipes has no atomicity; and the
end of the whole depends on who has which descriptor open and on how many
children were ever started.

What makes it correct: the parity of a stripe is the XOR of its data; a read
returns what was last written; the failure of one disk does not touch the data
of another and does not take the system down; `exit` comes to an end, and then
no disk is left and the files are consistent.

### Parity exercise (`src/A1/src`)

One process, three arrays (`data`, `parity_block`, `temp`).  It reads rows,
computes their XOR, deletes one row and rebuilds it.  Correct when the parity
is the XOR of all rows and the rebuilt row is the deleted one.

### Mark-and-sweep collector and its two clients (`src/A2/src`)

| part | state | operations |
|---|---|---|
| collector (`gc.c`) | `memory_list_head`: a list with the address and `in_use` of every chunk | `gc_malloc`, `mark_one`, `mark_and_sweep` |
| list (`list.c`, `do_list.c`, `gc_list.c`) | `list_head` and the nodes | add at the front, remove the first with a value, `g`; `mark_list` walks the list |
| tree (`fstree.c`, `do_fstree.c`, `gc_fstree.c`) | `root`, nodes, names, and the list of links of each node | add a node, add a hard link, remove, print, `g`; `mark_fstree` recurses |

A program calls `mark_and_sweep(root, marker)`; the collector calls the marker
back, which calls `mark_one` for what it finds.  Hard links share nodes and
make cycles, so that the marker must stop at what is marked.  What is hard: a
chunk that the marker misses is freed under the program's feet, and shows only
when something reads it.  Correct when a collection frees exactly the chunks
that cannot be reached, the marker comes to an end, and nothing that is freed
is used again.

### Chat server (`src/Labs/lab11`)

One process with a table `users` (descriptor and name per slot), a set
`all_fds` of descriptors for `select`, and a loop: accept one connection, then
read once from each client that is readable; the first thing a client sends is
its name, the rest is broadcast.  Clients connect, write and quit between any
two system calls of the server.  Correct when table, set and connections
agree, when clients hear what was written and from whom, and when one client
going away does not disturb the others.

### Line server (`src/Labs/lab10`)

`bufserver.c` serves one connection at a time and reassembles lines out of
partial reads in a buffer of 30 bytes; `randclient.c` writes a message several
times in pieces of random size.  Correct when no byte of a line is lost,
repeated or reordered, whatever the pieces.  `readserver.c` prints what a read
returns.

### The rest

`Labs/lab8` (a fork, an exec and a pipe), `Labs/lab5` (image filters) and labs
1 to 6 (functions on strings, digits, arrays, files) are short and sequential;
`Midterms`, the handouts and the binaries are not code.

## 2. Plan

In order of importance:

1. `RaidWords`, `DiskSim`, `Controller`, `RaidSim`: the simulator, system call
   by system call.  *Done.*
2. `BlockStore` (abstract) and `RaidStore`: the simulator implements an array
   of blocks while no disk fails.  *Done.*
3. `ParityTool`: the parity exercise, whose algebra is that of the RAID.
   *Done, and proved.*
4. `ChunkPool` (abstract: what a collection may free), `Collector`, and on top
   of it `GcList` and `GcTree`, which compose the collector with its two
   clients.  *Done.*
5. `ChatServer` with its clients as environment, and `LineServer`.  *Done.*
6. Proofs, in the same order: the parity exercise; types, framing, parity,
   checkpoints, isolation and `OneFailureSurvives` of the simulator; the safety part of
   `ImplementsStore`; the table and the relaying of the chat server; the heap
   of the tree, the safety part of its `ImplementsPool` and `RemoveIsLocal`;
   the list, its safety part of `ListImplementsPool` and `IsSequence`; the
   buffer of the line server.  *Done*: every safety invariant and every action
   property that a passing run checks is proved, and the safety part of every
   refinement.

## 3. Modules

| module | models | extends |
|---|---|---|
| `RaidWords` | words, blocks, XOR, the command words | |
| `DiskSim` | the disk processes and the pipes | `RaidWords` |
| `Controller` | the controller | `DiskSim` |
| `RaidSim` | shell, controller and disks together; the properties | `Controller` |
| `BlockStore` | abstract: one array of blocks | |
| `RaidStore` | the refinement of `BlockStore` by `RaidSim` | `RaidSim` |
| `MCRaidSim` | values of constants for TLC | `RaidStore` |
| `ParityTool` | the parity exercise | `RaidWords` |
| `ChunkPool` | abstract: what a collector promises | |
| `Collector` | the collector of A2 | |
| `GcList` | the list, its marker and its program | `Collector` |
| `GcTree` | the tree, its marker and its program | `Collector` |
| `ChatServer` | the chat server and its clients | |
| `MCChatServer` | values of constants for TLC | `ChatServer` |
| `LineServer` | the line server and the client that tests it | |
| `XorTheorems` | lemmas on the XOR of blocks | `RaidWords` |
| `ParityProofs` | proofs about `ParityTool` | `ParityTool`, `XorTheorems` |
| `RaidProofs` | types of the simulator, and the streams between controller and disks | `RaidSim`, `XorTheorems` |
| `DataProofs` | what the disks and their files hold; the simulator implements `BlockStore` | `RaidStore`, `RaidProofs` |
| `ChatProofs` | proofs about `ChatServer` | `ChatServer` |
| `ListProofs` | proofs about `GcList` and `Collector` | `GcList` |
| `TreeProofs` | proofs about `GcTree` and `Collector` | `GcTree` |
| `LineProofs` | proofs about `LineServer` | `LineServer` |

**Data.**  Everything that travels through a pipe of the simulator is a
multiple of four bytes: a command, a block number, a block.  A word is four
bytes, kept as the set of its one-bits, of which `WordBits` are told apart.
XOR is symmetric difference, bit by bit as in the code, and any word can be
read as a command or as a block number, as any four bytes can.  That matters:
it is what happens once the two ends of a pipe are out of step.

**Disks.**  `dpc[d]` is the `read` or `write` the process of disk `d` is about
to make, `dnum[d]` and `blocks[d]` are its `block_num` and `all_blocks`.
`toDisk[d]` and `fromDisk[d]` are the contents of its two pipes.  An access
with a block number that no block has is undefined in C: it reads one of the
blocks of `Garbage`, stores nothing in the array, or kills the process.
`holds[d]` says of whose pipes the process has the controller's ends open,
because that decides whether a disk ever sees end-of-file.  `zombies` counts
the terminated children that the controller has not waited for; `wait` takes one
of them, waits for one, or fails at once when no child is left.

**Controller.**  `pc` is the next system call and `phase` says for whom; the
same four calls (command, number, data, reply) serve five callers.  `FindDead`
is the EPIPE that leads to `restore_disk_process`, and `SendRebuilt` returns
from it, as the code does, to the call after the one that failed.  `gen[d]`
counts the incarnations of disk `d` and `pid[d]` the one the controller knows.
Locals are reset when a function returns, so that they do not tell states
apart.

**Collector.**  Memory is `HeapSize` chunks, `mem[a]` what is in the chunk at
address `a`: a node, a name, a link, a cell, or nothing.  No program does more
with an address than compare it, so `malloc` takes the lowest that is free.
`memory` is the collector's list; during a sweep it is cut in two, what `prev`
has passed (`passed`) and what is still to come.  The sweep frees or keeps one
chunk a step and the marker marks one node a step, so that the properties look
at every stage of a collection.  `stack` of `GcTree` holds `curr_link` of every
active call of `mark_fstree`.  `mark_one` returning 2 is in `MarkOne`, although
the markers go on as if it had returned 0.  `FindChild`, `Before` and `LinksIn`,
which follow a list of links, are recursive functions on the links and `NULL`;
`Walk` of `GcList`, which follows the list, is one on the number of steps.  A
transaction file is any sequence of at most `MaxOps` transactions.  `gc` becomes
`"exit"` where the program exits (no memory, no log file) and `"crash"` where it cannot go on: the null
pointer of `remove_node`, and `print_tree` in a cycle.

**Chat.**  What a client writes is a sequence of units; a read returns any
number of those that have arrived, so that reads and writes need not match.
The server never closes a descriptor, so every connection has one of its own
and the descriptor stands for the client.  The snapshot `read_fds` loses a
client when it is served; what is left of it is what the loop over the table
has still to come to.  A client that has quit is `"closed"`, or `"reset"` if it
left output unread: then the next read of the server fails, as the first write
does.  A write to a closed connection may succeed or fail, depending on whether
the answer to an earlier one has come back.  `got` (what a client has been
sent) and `taken` are there for the properties.  With a full table
`FD_SET(-1, &all_fds)` is undefined; compiled as it is here it sets bit 63 of
the set, which `select` ignores below 64 descriptors, and so does `TableFull`.

**Lines.**  A byte is its position in what the client has written, and
`written` says of each position whether it is `\r`, `\n` or another.  `message`
is any short sequence, `Read` takes any number of bytes that have arrived and
that there is room for.  `accept` failing leads back to `accept` and is not a
step.

**What is left out.**  The command line, printing, and `debug`.  Negative block
numbers and disk numbers that do not exist lead outside `controllers[]`, and
the commands of the model do not use them.  Blocks fit a pipe and are written
at once.  A `disk_size` that is not a multiple of `block_size` makes
`checkpoint_disk` read past its buffer.  Descriptors that a restart leaks are
not counted.  The stdio buffer of the parent, which a restarted disk inherits
and prints a second time, is not modelled.  SIGINT is sent by `kill` only.
Sockets of the chat have room for all that is written to them, so that no write
blocks.  Of the lists and trees, parsing and printing.  The log of the
collector.  Setting up sockets.

Names of the form `Op_Mistake` are copies of an operator with a mistake of a
kind one makes in such code (a dropped operand, an index off by one, a missing
division).  Putting it in the place of the operator makes TLC report the
property listed with it in `PROJECT.json`, which is how one knows that the
property looks at that code at all.

## 4. Runs

| run | configuration | shows |
|---|---|---|
| `faultfree` | 2 data disks, 2 stripes, 3 commands, pipes of 3 words | `ParityInv` at every moment, `ImplementsStore`, `AllSaved`, no deadlock |
| `kills` | the same, pipes of 6 words, a data disk and the parity disk may be killed | `ParityInv`, `SavedParity`, `InStep`, `Isolated`, `ReadsTrue`, `RebuiltFromOthers`, `OneFailureSurvives` |
| `faults` | 1 stripe of blocks of 2 words, 3 commands, pipes of 3 words, a data disk and the parity disk may be killed, every library call may fail | `SavedParity`, `ExitReturns`, `NoOrphan` |
| `parity_tool` | up to 3 rows of 2 bits | `ParityOfRows`, `RestoresRow` |
| `gc_list` | 7 operations, 2 values, 5 chunks of memory | `ListOK`, `IsSequence`, `ListImplementsPool`, `ListFreed`, no deadlock |
| `gc_tree` | 5 transactions, 2 names, paths of up to 2 elements, 12 chunks | `HeapOK`, `Frontier`, `RemoveIsLocal`, `ImplementsPool`, `AllFreed`, no deadlock |
| `chat` | 3 clients, 2 slots, one client writes a name and 2 messages, one a name and 1, one nothing | `TableAgrees`, `Relayed`, `AllHear`, `DroppedForAnother`, `Served`, `Admitted` |
| `lines` | all messages of up to 5 bytes, twice, in pieces of 2 or 3; a buffer of 4 | `LinesOfRead`, `OnlyLongLinesLost`, `ConnectionEnds`, no deadlock |
| `doc_returns`, `doc_restores`, `doc_terminated`, `doc_kill` | as `kills`, smaller | that four things the comments and the README of A3 say of a failed disk do not happen |

The properties, in words:

* `ParityInv`: while no disk has failed, the parity of every stripe is the XOR
  of its data.  A disk holds what it will hold once it has read the write
  request that is complete in its pipe (`Contents`), and between the two
  writes of `write_block` the data on its way counts as there (`Due`).
* `ImplementsStore`: seen by the user, the simulator is `BlockStore`; a command
  takes effect when its last word is sent, every command is answered.
* `SavedParity`: if every disk has saved itself and none was ever restarted,
  the files are consistent, wherever SIGINT, `exit` and errors fell.
* `InStep`: a disk that did not fail never reads anything but a command where
  it expects one, or a block number outside its array, and no reply is left in
  its pipe.
* `Isolated`: a block of a data disk that did not fail changes only to the
  user's data, when `write_block` sends it there.  This holds although the
  controller and a restarted disk are out of step.
* `ReadsTrue`: what `rb` prints from a disk that did not fail is what it holds.
* `RebuiltFromOthers`: what is written to a restarted disk is the XOR of the
  *data* disks other than it.
* `OneFailureSurvives`: `restore_disk_process` exits only if a second disk has
  failed too.
* `ExitReturns`: once `exit` was given, the controller ends, or it is stuck at
  a restarted disk that is `Jammed`: blocked in a reply, with both its pipes
  full.  That does happen (section 5); the property says that nothing
  else can happen, whatever was killed when and whichever disks are dead, out of
  step or still being told to fail.
* `NoOrphan`: a data disk that was never restarted ends once the controller
  has.  The restriction is needed: a restarted disk keeps both ends of its own
  pipes open, and those of the parity disk.
* `ImplementsPool`, `ListImplementsPool`: seen from outside, the collector and
  its client are `ChunkPool`: a chunk that can be reached is never freed, a
  collection ends, and when it does no chunk is left that cannot be reached.
* `HeapOK`, `ListOK`: at every stage no chunk that stays has a pointer to one
  that is gone or is about to go, and the list of the collector has every chunk
  once.  `ListOK` adds how far `mark_list` has come.
* `Frontier`: while `mark_fstree` runs, what a marked chunk leads to is marked
  or is a list of links that an active call has still to follow, and nothing
  that cannot be reached is marked.
* `IsSequence`: the list is the sequence that adding and removing make of it,
  and a collection leaves it as it is.
* `RemoveIsLocal`: `remove_node` takes one link of that name or two (the code
  does search on), leaves the other links in their order and other nodes alone.
* `AllFreed`, `ListFreed`: the collection at the end frees everything, cycles
  included.
* `TableAgrees`: `all_fds` holds exactly the descriptors in the table, each of
  them once, and nobody is both served and waiting.
* `Relayed` (in terms of `Heard`, the positions of what a client was sent under
  a name): what goes out under a name is what the client of that name wrote
  after it, without gaps, repetitions or changes of order, although slots are
  reused and broadcasts break off.  It excepts clients whose connection was
  reset: see section 5.
* `AllHear`: as long as nobody has left, a client hears all it wrote, and any
  two hear the same from when the later of them was accepted.
* `DroppedForAnother`: a client that is there loses its slot only while one
  that has gone is in the table.
* `Served`, `Admitted`: who is in the table is read from, and leaves it when it
  has gone; who waits to be accepted is, or finds the table full.  They are
  about the order of arrivals, reads and departures.  Two things they do not
  cover, because the model has neither: a write that blocks, and a client that
  never stops writing.
* `LinesOfRead`: between two reads, the lines printed are those of what has
  been read, and the buffer holds the rest of it.
* `OnlyLongLinesLost`: a connection that did not break ends with all lines
  printed, unless one with its end is longer than the buffer.
* `ConnectionEnds`: a connection that was closed or broke comes to an end.

**Bounds.**  `MaxOps` bounds the commands of the transaction file; nothing else
is cut.  Three commands are the least that allow write, kill, access and, in
between, a second write; a stripe with two data disks is the least in which
"the others" differ from "all"; two stripes tell a block number from a stripe
number, and the third stripe of `doc_terminated` is the one whose number reads
as `CMD_EXIT`.  `PipeCap` is 3 in `faultfree`, just a write request, so that
each `write` may block; with 6 in `kills` the controller can run ahead of a
disk by two requests.  In `faults` a pipe holds one reply and less than a write
request, so that three commands suffice to fill both pipes of a restarted disk;
with the 64 KiB of a real pipe that takes some thousand writes.  The user writes
one value, other than zero, that reads as `CMD_EXIT` (`MCExitBlock`), or in
`faults` as no command and then `CMD_READ` (`MCMixedBlock`), and `UserBlocks` has
one number past the end.

Five transactions on a tree are enough to build a node, link it below itself
into a cycle, remove it, collect it and use its memory again; 12 chunks are
three nodes and a link, so that memory does run out in `AddNode` and in
`AddHardLink`.  Three clients and two slots are the least with a full table and
a reused slot; a name and two messages are the least that can change their
order, and with a second client that writes one, the messages of the two are sent
in either order, which `AllHear` is about.  A message missed between two others
needs a third, which is too much for the temporal properties of the same run;
that it does not happen is part of theorem `Relaying`.  Five bytes have a line that just fits the buffer of four, one that does not, empty lines and a line end split
between two pieces, and writing the message twice puts two lines and parts of
lines into the buffer at once.

**Fairness.**  `FairSpec` of `RaidSim` has weak fairness for the controller, for each disk
and for the shell.  The processes are scheduled by the kernel, so one that can
take a step takes it; no fairness is assumed about failures (`Command` as a
whole is fair, not `kill`), and the delivery of a pending SIGINT is one of the
steps of its disk.  The shell reads a file, so there always is a next command
or its end.  `kills`, `faults` and the `doc_` runs do not check for deadlock,
because the system does stop: see below.  The programs of A2 and A1 are
sequential, so that weak fairness of `Next` only says that they run.  Of the
servers only the server process is fair; nobody has to connect, write or quit.
`chat` does not check for deadlock: when all clients have quit, the server
waits in `select` for ever.

## 5. What the runs found

1. *A command to a dead disk never returns* (`doc_returns`).  After the restart
   the request goes on with the block number (`controller.c:252`, `306`); the
   new disk reads it as a command.  `kill 0`, `rb 0` hangs.
2. *The parity disk is never used to restore* (`doc_restores`).  The loop at
   `controller.c:504` visits data disks only.
3. *Exit may leave a disk behind* (`doc_terminated`).  The process that was
   replaced counts among the `num_disks + 1` that are waited for.
4. *A restarted disk cannot be killed* (`doc_kill`).  Its pid is stored in the
   child's copy of `controllers[]`.

Modelled, and stated in a property as what the code does:

* `exit` may hang.  The parity disk dies between the read of the old parity and
  the write of the new one; the disk put in its place gets the number and the
  data without the command, reads zeros as `CMD_READ`, and sends replies nobody
  asked for.  Further writes fill its pipes, and the write of `CMD_EXIT`
  (`controller.c:442`) waits for room for ever.  TLC finds this state in `faults`,
  and `ExitReturns` excepts it and nothing else (`Jammed`).
* `remove_node` of the tree (`fstree.c:147`) follows a null pointer when the
  path does not exist, where its comment says it does nothing (`RemoveCrashes`);
  and it may remove two links of the name, where the comment speaks of a node
  (`RemoveIsLocal`).
* When a client quits with output unread, `read` returns -1, which
  `read_from` (`chat_server.c:80`) does not check.  `buf` still holds the last
  message of anyone, and it is sent once more under the name of the one that
  quit, to the clients before it in the table (`ReadFails`).  Observed with the
  server compiled from this source: after `bob: hello`, bob gets `anna: hello`.
* When a message cannot be written because its recipient has quit, its *sender*
  is dropped (`chat_server.c:115`): no longer read from nor written to, and not
  closed either, so that it waits for ever; and the clients behind in the table
  miss the message.  The comment (line 60) says "Return the fd if it has been
  closed or 0 otherwise" (`AfterFailure`, `DroppedForAnother`).

A consequence of finding 1 that no property states: when the home disk dies
before the last request of `write_block`, the disk put in its place gets the
number and the data without the command (`controller.c:306`), and `write_block`
returns 0 although nothing was stored.

Seen while reading, without a run: `read_block(-1)` passes the check at
`controller.c:343`, since C division truncates; `k_block` is not freed when
`parity_block` cannot be allocated (`controller.c:367`); `README.md` gives the
option `-s` for the disk size, the program takes `-d`; `find_nth` of
`A2/src/list.c:38` returns the last value, not -1, for an index past the end;
the descriptor and the name of a client that left are neither closed nor freed
(`chat_server.c:82`, against the comment at line 67); `checkpasswd.c` does not
compile.

## 6. Proofs

The proofs hold for any number of disks, stripes, bits, words per block, rows,
commands, clients, slots, chunks and names, and for any messages, pieces and
buffer of the line server.  They assume of the constants only
what is named beside them: `WordAssumption`, `DiskAssumption`,
`ControllerAssumption`, `ShellAssumption`, `RowAssumption`, `ChatAssumption`,
`HeapAssumption`, `TreeAssumption`, `LineAssumption`.  TLC evaluates these in every run.
`Refinement` alone assumes more, see there.

| theorem | module | states |
|---|---|---|
| `ParityComputed`, `RowRestored` | `ParityProofs` | `[]ParityOfRows`, `[]RestoresRow` |
| `Typing` | `RaidProofs` | `[]TypeOK` of the simulator |
| `Framing` | `RaidProofs` | `[]InStep` |
| `Parity`, `Checkpoints` | `DataProofs` | `[]ParityInv`, `[]SavedParity` |
| `TrueReads`, `Isolation`, `Rebuilding` | `DataProofs` | `ReadsTrue`, `Isolated`, `[]RebuiltFromOthers` |
| `Surviving` | `DataProofs` | `OneFailureSurvives` |
| `Refinement` | `DataProofs` | the safety part of `ImplementsStore` |
| `Table`, `Drops` | `ChatProofs` | `[]TableAgrees`, `DroppedForAnother` |
| `Relaying`, `Hearing` | `ChatProofs` | `[]Relayed`, `[]AllHear` |
| `HeapIntegrity`, `Marker` | `TreeProofs` | `[]HeapOK`, `[]Frontier` |
| `PoolRefinement` | `TreeProofs` | the safety part of `ImplementsPool` |
| `RemovalIsLocal` | `TreeProofs` | `RemoveIsLocal` |
| `ListIntegrity`, `ListIsSequence` | `ListProofs` | `[]ListOK`, `IsSequence` |
| `ListPoolRefinement` | `ListProofs` | the safety part of `ListImplementsPool` |
| `Buffering`, `Losses` | `LineProofs` | `[]LinesOfRead`, `[]OnlyLongLinesLost` |

### Parity exercise

`ParityInvariant` says what each loop has done so far: after `i` turns the
parity is the XOR of the first `i` rows, and in `reconstruct_block` `temp` is
the XOR of the parity and of the first `i` rows without the lost one.  At its
end that is the lost row, by `XorAllMissing`.  `XorTheorems` holds the algebra
that this and the simulator share: `XorAllInsert` is the lemma that touches
cardinalities, `XorAllUpdate` (a change of one block changes the XOR by the old
and the new block) is what `write_block` relies on, `XorAllMissing` what
rebuilding relies on.

### RAID-4 simulator

With kills and faults, except for `Refinement`.

* `Typed == TypeOK /\ LoopOK`.  `TypeOK` alone is not inductive:
  `restore_disk_process` sends `restored_block[idx]`, which is a block only
  while `idx` is within the disk, and the loops over the disks use `idx` as a
  disk.
* `FramingInv`.  For a disk that is `Original` (still runs, and was never
  restarted) the call the controller is at determines what the disk is doing
  and what is in its pipes: nothing or one complete write request that it has
  not finished (`Idle`), followed by the part of the current request that has
  been sent; and a reply exactly when the controller waits for one
  (`ReadSent`).  `InStep` follows.  It needs `PhaseOK`, that
  `restore_disk_process` works on the disk whose write failed, and `Waiting`:
  between the two reads and the two writes of `write_block` both disks have
  nothing else to do.  Nothing is said of restarted disks, which do get out of
  step (finding 1), and the proof shows that they do not pull the others
  along.
* `SavedOK`.  A disk that was never restarted writes its file only at the end,
  and the file is what it held.
* `DataInv`.  While no disk has failed, the parity of each stripe is the XOR
  of what is `Due`, and `kblock` and `pblock` are still right when they are
  used.  With `FramingInv` and `SavedOK` this gives `ParityInv`, and
  `SavedParity` at every point at which the processes may end.
* `RebuildInv`.  `restored_block` is the XOR of the blocks read so far from the
  data disks other than the one that failed (`Done`), if those have not failed.
* `RebornInv`, for `OneFailureSurvives`.  The disk that is being rebuilt is sent
  nothing but writes: its request is any number of whole writes followed by the
  words of one more that the controller has sent so far (`Writes`, `Begun`).  So
  it reads no other command, no number outside its array and no piece of a
  block; nobody has told it to fail; and the controller is there.  It therefore
  runs until it has been rebuilt, however far it lags behind.  Hence the request
  that makes `restore_disk_process` give up went to another disk, which cannot be
  `Original` by `FramingInv`: it was restarted before, or ended without saving
  itself by `SavedOK` (`Lost`), and stays so after the controller has gone
  (`LostInv`).  Where one write begins and the next is a set of positions, so
  that nothing is multiplied or divided.
* `Calm`.  Without faults and kills every disk that was started is fresh, and
  the controller outlives them.  So the failing branches of `Next` are not
  taken, and each other step is a step of `BlockStore` or leaves `StoreNow`,
  the request and the answer alone: the write of the last word of a request is
  the step at which the command takes effect.  `Refinement` assumes `~Faults`
  and `Killable = {}`, as the run `faultfree` has it: with a failure the
  simulator does not implement an array of blocks, which is what
  `doc_returns` shows.

### Chat server

`TypeOK`, then four invariants, each inductive with the ones before it.

* `TableInv`: `TableAgrees`, that nobody who is waiting to be accepted has a
  slot, and that the broadcast visits only slots that are taken.
* `NamesInv`: the name in a slot is the first thing its client wrote, and what
  is being sent is what its sender wrote last; or the client was reset, when it
  may be neither.
* `RelayInv`: how far user `j` has been sent what user `i` wrote (`UpTo`) is
  where `i` has got to, or one message behind while a broadcast is under way
  that has `j` still to come (`Covered`).  `Relayed` is not inductive because
  it says nothing of what comes next.
* `SuffixInv`: as long as nobody has left, of any two users one has been sent
  the end of what the other was sent, once the current broadcast is through
  (`Full`).

`Relayed` and `AllHear` speak of the positions of messages rather than of
filtered sequences, so that an appended message adds one position and changes
no other.

### Tree and collector

* `Inv == TypeOK /\ RecordInv /\ PointersInv /\ MarkInv`.  `RecordInv`: the two
  parts of the collector's list have every chunk in use once.  `PointersInv`:
  the pointers of a chunk that stays lead to chunks of the right kind that
  stay.  `MarkInv`: what is marked points to what is marked or to something on
  the stack of `mark_fstree`; `passed` holds only what is marked.  So the sweep,
  which frees what is not marked, never frees what a marked chunk points to.
  `HeapOK` follows.
* `ReachInv`: only what can be reached from `root` is marked or on the stack.
  With `MarkInv` this is `Frontier`, and when the stack is empty the marked
  chunks are exactly the reachable ones.  It uses that `Reach`, which TLC
  computes by iteration, is the least set that contains `root` and is closed
  under following pointers (`ReachFacts`, from `FromIsLeast`).
* `RankInv`: the list of links of a node ends, in spite of the cycles that hard
  links make of the nodes: there is a rank that falls along `next`.  `FindChild`
  and the walk of `remove_node` are defined by recursion along such a list, and
  without an end nothing could be said of them.
* `PoolRefinement`: every step is a step of `ChunkPool` or invisible.  A
  transaction only adds chunks that it reaches, or gives up some that were
  reachable; marking is invisible; the sweep frees only what cannot be reached;
  and at the end of a collection no such chunk is left.
* `OwnerInv`, for `RemoveIsLocal`: every link belongs to one node, which is the
  node whose list leads to it, and keeps belonging to it when it has been taken
  out.  So the lists of two nodes share no link, and what `remove_node` does to
  one list cannot show in another.  Where its walk ends, and what each list is
  afterwards, is shown along the ranks of `RankInv`.

### List and collector

`Inv == TypeOK /\ RecordInv /\ PointersInv /\ ListInv`.  The first three are as for
the tree.  `ListInv`: there is a sequence of addresses without repetition that
spells the list from `head` to `NULL`; the marker has marked those before the
k-th and is at the k-th; and during the sweep exactly the nodes of the list are
marked.  `ListOK` alone is not inductive: a list that is whole now may lose a
node in the sweep, unless marking has got round.  `Walk` from `head` is that
sequence and then `NULL`, so that the walk of `remove_node` stops before the
first node with the value, or at the last; this gives `IsSequence`, that
`add_node` and `remove_node` do to the list what they would do to a sequence
and nothing else changes it.  For `ListPoolRefinement` the chunks the pool has are
those in memory, and those it can reach are the sequence.

### Line server

`Base` is where the buffer starts in the stream.

* `ClientInv`: the client has written the first `current_byte` bytes of what
  it means to write.
* `BufferInv`: the buffer holds the bytes from `Base` to `nread`, the stream up
  to `Base` ends with the end of a line, and when the server goes back to
  `read` no end of a line is left behind `Base`.  `LinesOfRead` says this only
  at `read`; while lines are printed it is false.
* `PrintedInv`: what has been printed is the lines of the stream up to `Base`.
  Printing one more line is `OneMoreLine`: an end of a line behind all others
  leaves the lines before it as they are.  `Lines` picks the ends by how many
  there are before each, so that the proof carries along that there is one for
  every number (`Ranked`).

For `OnlyLongLinesLost`: the server is back in `accept` after a full buffer or
at the end of the client's output.  The first end of a line of `Stream` behind
`Base`, if there is one, lies behind `nread`, so that its line fills more than
the buffer; if there is none, all lines have been printed.

### Recursive functions

Statements about recursive functions (`Reach`, `FindChild`, `FindNode`, `LinksIn`,
`Before`, `Walk`) are not proved by an induction theorem but by taking the least
argument for which they fail, with `LeastNat`, which follows from the
well-foundedness of `<` on `Nat`.  For those that follow a list of links the
argument is the rank.

### Model-checked only

* Everything under fairness: `AllSaved`, `ExitReturns`, `NoOrphan`, `AllFreed`,
  `ListFreed`, `Served`, `Admitted`, `ConnectionEnds`, and the fairness part of
  `ImplementsStore`, `ImplementsPool` and `ListImplementsPool` (an abstract
  command is answered, a collection ends).  TLAPS has no rules for `ENABLED`.

## 7. Not modelled

* `checkpasswd.c` (lab 8) does not compile: line 120 applies `WIFEXITED` to the
  address of the status.  `validate.c` searches a file.
* `readserver.c` keeps nothing between two reads.
* `bitmap.c`, `bitmap_printer.c` (lab 5) and the exercises of labs 1 to 6 are
  functions of their input, without state that outlives a call;
  `overflow.c` is undefined on purpose.
* `mktrans.c` generates random transaction files.
* What is left out of the programs that are modelled is in section 3.
