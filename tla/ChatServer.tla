----------------------------- MODULE ChatServer -----------------------------
(***************************************************************************)
(* The chat server of lab 11 (Labs/lab11/chat_server.c): one process, a    *)
(* table of users and a select loop; each system call at which the clients *)
(* (Labs/lab11/chat_client.c) can interleave is a step.                    *)
(*                                                                         *)
(* What a client writes is a sequence of units, the first ones its name; a *)
(* read returns some of those that have arrived.  The server never closes  *)
(* a client's descriptor, so that no two connections have the same one and *)
(* the descriptor stands for the client.                                   *)
(*                                                                         *)
(* An operator Op_Mistake is Op with a mistake in it that a property has   *)
(* to notice; no action uses it.                                           *)
(***************************************************************************)
EXTENDS Integers, FiniteSets, Sequences

CONSTANTS Clients,
          MAX_CONNECTIONS,
          Units             \* at most so many does a client write

ASSUME ChatAssumption ==
  /\ MAX_CONNECTIONS \in Nat \ {0}
  /\ Units \in [Clients -> Nat]
  /\ -1 \notin Clients

VARIABLES
  client,    \* "out", "in"; "closed", or "reset" if it left output unread
  sent,      \* units that it has written
  got,       \* what the server has sent it, as long as it is there
  backlog,   \* connections to accept
  taken,     \* units that the server has read from it
  error,     \* is the error of its reset still to be reported?
  sock_fd, username,   \* of every slot of the table "users"
  all_fds, read_fds,
  pc,        \* "loop", "accept", "write"; "exit" at the end
  sender,    \* client_index of read_from
  rest,      \* slots that the broadcast has yet to come to
  buf

clientVars == <<client, sent>>
table == <<sock_fd, username, all_fds>>
vars == <<clientVars, got, backlog, taken, error, table, read_fds, pc,
          sender, rest, buf>>

Slots == 1..MAX_CONNECTIONS

(* Units first..last of what a client has written. *)
Text(c, first, last) == [of |-> c, first |-> first, last |-> last]
NULL == Text(-1, 0, 0)
Junk == Text(-1, 1, 1)

Taken == {i \in Slots : sock_fd[i] # -1}
Fds == {sock_fd[i] : i \in Taken}

Lowest(slots) == CHOOSE i \in slots : \A j \in slots : i <= j

Init ==
  /\ client = [c \in Clients |-> "out"]
  /\ sent = [c \in Clients |-> 0]
  /\ got = [c \in Clients |-> <<>>]
  /\ backlog = <<>>
  /\ taken = [c \in Clients |-> 0]
  /\ error = [c \in Clients |-> FALSE]
  /\ sock_fd = [i \in Slots |-> -1]
  /\ username = [i \in Slots |-> NULL]
  /\ all_fds = {} /\ read_fds = {}
  /\ pc = "loop"
  /\ sender = 0 /\ rest = {}
  /\ buf = NULL

-----------------------------------------------------------------------------
(* Clients.                                                                *)

Connect(c) ==
  /\ client[c] = "out" /\ pc # "exit"
  /\ client' = [client EXCEPT ![c] = "in"]
  /\ backlog' = Append(backlog, c)
  /\ UNCHANGED <<sent, got, taken, error, table, read_fds, pc,
                 sender, rest, buf>>

ClientWrites(c) ==
  /\ client[c] = "in" /\ pc # "exit"
  /\ sent[c] < Units[c]
  /\ sent' = [sent EXCEPT ![c] = @ + 1]
  /\ UNCHANGED <<client, got, backlog, taken, error, table, read_fds,
                 pc, sender, rest, buf>>

(* End of the client's input.  Closing a socket with unread data resets    *)
(* the connection; how far the client has read by then is its own affair.  *)
ClientCloses(c) ==
  /\ client[c] = "in" /\ pc # "exit"
  /\ \E unread \in IF got[c] = <<>> THEN {FALSE} ELSE BOOLEAN :
       /\ client' = [client EXCEPT ![c] = IF unread THEN "reset" ELSE "closed"]
       /\ error' = [error EXCEPT ![c] = unread]
  /\ got' = [got EXCEPT ![c] = <<>>]
  /\ UNCHANGED <<sent, backlog, taken, table, read_fds, pc, sender, rest, buf>>

-----------------------------------------------------------------------------
(* main: the loop.  The listening socket is always in all_fds, which here  *)
(* holds the others.                                                       *)

Gone(c) == client[c] \in {"closed", "reset"}
Readable == {c \in all_fds : taken[c] < sent[c] \/ Gone(c)}

(* The users still to be looked at in this turn of the loop, in order.     *)
ToServe == {i \in Taken : sock_fd[i] \in read_fds}
Index == Lowest(ToServe)

Select ==
  /\ pc = "loop" /\ ToServe = {}
  /\ backlog # <<>> \/ Readable # {}
  /\ read_fds' = Readable
  /\ pc' = IF backlog # <<>> THEN "accept" ELSE "loop"
  /\ UNCHANGED <<clientVars, got, backlog, taken, error, table, sender, rest,
                 buf>>

IsFull_OneEarly == Cardinality(Taken) >= MAX_CONNECTIONS - 1
IsFull == Taken = Slots

FreeSlot_First == 1
FreeSlot == Lowest(Slots \ Taken)

NewName_Inherited(i) == username
NewName(i) == [username EXCEPT ![i] = NULL]

(* accept_connection, and FD_SET of the result. *)
Accept ==
  /\ pc = "accept"
  /\ ~IsFull
  /\ LET c == Head(backlog)
         i == FreeSlot
     IN /\ sock_fd' = [sock_fd EXCEPT ![i] = c]
        /\ username' = NewName(i)
        /\ all_fds' = all_fds \cup {c}
  /\ backlog' = Tail(backlog)
  /\ pc' = "loop"
  /\ UNCHANGED <<clientVars, got, taken, error, read_fds, sender, rest, buf>>

(* No slot is free: the connection is left where it is, and the -1 that    *)
(* goes to FD_SET names no descriptor that select looks at.                *)
TableFull ==
  /\ pc = "accept"
  /\ IsFull
  /\ pc' = "loop"
  /\ UNCHANGED <<clientVars, got, backlog, taken, error, table, read_fds,
                 sender, rest, buf>>

(* accept fails, for want of a descriptor or because of the connection.    *)
AcceptFails ==
  /\ pc = "accept"
  /\ ~IsFull
  /\ pc' = "exit"
  /\ UNCHANGED <<clientVars, got, backlog, taken, error, table, read_fds,
                 sender, rest, buf>>

-----------------------------------------------------------------------------
(* read_from.                                                              *)

(* Slot i is freed, and the descriptor that was in it no longer watched.   *)
DropUser_KeepsFd(i) ==
  /\ sock_fd' = [sock_fd EXCEPT ![i] = -1]
  /\ UNCHANGED <<username, all_fds>>
DropUser_KeepsSlot(i) ==
  /\ all_fds' = all_fds \ {sock_fd[i]}
  /\ UNCHANGED <<sock_fd, username>>
DropUser(i) ==
  /\ sock_fd' = [sock_fd EXCEPT ![i] = -1]
  /\ all_fds' = all_fds \ {sock_fd[i]}
  /\ UNCHANGED username

(* read returned 0. *)
Disconnected ==
  /\ pc = "loop" /\ ToServe # {}
  /\ LET c == sock_fd[Index] IN
     /\ taken[c] = sent[c] /\ ~error[c]
     /\ Gone(c)
     /\ DropUser(Index)
     /\ read_fds' = read_fds \ {c}
  /\ UNCHANGED <<clientVars, got, backlog, taken, error, pc, sender, rest, buf>>

(* What has been read into buf becomes the name of the user, or is sent to *)
(* every client; of a name, none is.                                       *)
Deal(i, text, name) ==
  IF username[i] = NULL
  THEN /\ username' = [username EXCEPT ![i] = name]
       /\ UNCHANGED <<pc, sender, rest>>
  ELSE /\ pc' = "write"
       /\ sender' = i
       /\ rest' = Taken
       /\ UNCHANGED username

Message ==
  /\ pc = "loop" /\ ToServe # {}
  /\ LET c == sock_fd[Index] IN
     \E last \in (taken[c] + 1)..sent[c] :
       LET text == Text(c, taken[c] + 1, last) IN
       /\ taken' = [taken EXCEPT ![c] = last]
       /\ read_fds' = read_fds \ {c}
       /\ buf' = text
       /\ Deal(Index, text, text)
  /\ UNCHANGED <<clientVars, got, backlog, error, sock_fd, all_fds>>

(* read returned -1, for which there is no check.  buf holds what the      *)
(* last call has left in it, or something that looks empty; a name has no  *)
(* contents at all.                                                        *)
ReadFails ==
  /\ pc = "loop" /\ ToServe # {}
  /\ LET c == sock_fd[Index] IN
     /\ taken[c] = sent[c] /\ error[c]
     /\ error' = [error EXCEPT ![c] = FALSE]
     /\ read_fds' = read_fds \ {c}
     /\ buf' \in {buf, NULL}
     /\ Deal(Index, buf', Junk)
  /\ UNCHANGED <<clientVars, got, backlog, taken, sock_fd, all_fds>>

-----------------------------------------------------------------------------
(* The broadcast.                                                          *)

EndBroadcast == pc' = "loop" /\ sender' = 0 /\ rest' = {}

(* The slots still to be written to after slot i. *)
WriteNext_OnlyOne(i) == EndBroadcast
WriteNext(i) ==
  IF rest = {i} THEN EndBroadcast
  ELSE rest' = rest \ {i} /\ UNCHANGED <<pc, sender>>

(* The name and the message are written to a client that is there.  *)
Deliver ==
  /\ pc = "write"
  /\ LET d == sock_fd[Lowest(rest)] IN
     /\ ~Gone(d)
     /\ got' = [got EXCEPT ![d] =
                  Append(@, [name |-> username[sender], text |-> buf])]
     /\ WriteNext(Lowest(rest))
  /\ UNCHANGED <<clientVars, backlog, taken, error, table, read_fds, buf>>

(* The client has closed the connection, and write succeeds all the same.  *)
WriteIsLost ==
  /\ pc = "write"
  /\ client[sock_fd[Lowest(rest)]] = "closed"
  /\ WriteNext(Lowest(rest))
  /\ UNCHANGED <<clientVars, got, backlog, taken, error, table, read_fds, buf>>

(* The message cannot be written: it is its sender that is dropped.  The   *)
(* error of a reset is reported by the first write, that of the name.      *)
AfterFailure == EndBroadcast /\ DropUser(sender)

WriteFails ==
  /\ pc = "write"
  /\ LET d == sock_fd[Lowest(rest)] IN
     /\ Gone(d)
     /\ error' = [error EXCEPT ![d] = FALSE]
     /\ AfterFailure
  /\ UNCHANGED <<clientVars, got, backlog, taken, read_fds, buf>>

-----------------------------------------------------------------------------
Server ==
  \/ Select \/ Accept \/ TableFull \/ AcceptFails
  \/ Disconnected \/ Message \/ ReadFails
  \/ Deliver \/ WriteIsLost \/ WriteFails

Client(c) == Connect(c) \/ ClientWrites(c) \/ ClientCloses(c)

Next == Server \/ \E c \in Clients : Client(c)

Spec == Init /\ [][Next]_vars

(* The server runs when it can; clients do as they please. *)
FairSpec == Spec /\ WF_vars(Server)

-----------------------------------------------------------------------------
(* Properties.                                                             *)

(* Table, descriptor set and connections agree: a connection has one slot  *)
(* at most, select watches those that have one and no other, and nobody is *)
(* both served and waiting to be accepted.                                 *)
TableAgrees ==
  /\ all_fds = Fds
  /\ \A i, j \in Taken : sock_fd[i] = sock_fd[j] => i = j
  /\ \A c \in Fds : client[c] # "out" /\ \A i \in DOMAIN backlog : backlog[i] # c

(* The positions, in what client d has been sent, of the messages under    *)
(* the name of client c.                                                   *)
Heard(d, c) == {k \in DOMAIN got[d] : got[d][k].name.of = c}

IsFirst(k, heard) == k \in heard /\ \A j \in heard : k <= j
IsLast(k, heard) == k \in heard /\ \A j \in heard : j <= k

(* The messages that d has been sent under the name of c are what c has    *)
(* written after its name, without a gap and in that order.                *)
InOrder(d, c) ==
  \A k \in Heard(d, c) :
    LET m == got[d][k] IN
    /\ m.name.first = 1
    /\ m.text.of = c
    /\ m.text.first > m.name.last
    /\ \A j \in DOMAIN got[d] : IsLast(j, Heard(d, c) \cap 1..(k - 1)) =>
         m.text.first = got[d][j].text.last + 1

(* This is so however slots are reused, reads cut what was written, and    *)
(* broadcasts break off.  The exception is a client whose connection is    *)
(* reset.                                                                  *)
Relayed ==
  \A d \in Clients :
    /\ \A k \in DOMAIN got[d] : got[d][k].name.of \in Clients
    /\ \A c \in Clients : client[c] # "reset" => InOrder(d, c)

IsSuffix(s, t) ==
  /\ Len(s) <= Len(t)
  /\ \A i \in DOMAIN s : s[i] = t[Len(t) - Len(s) + i]

(* Has the user of slot i been sent back all that it has written?          *)
Echoed(i) ==
  LET c == sock_fd[i]
      heard == Heard(c, c)
  IN IF taken[c] = username[i].last THEN heard = {}
     ELSE /\ heard # {}
          /\ \A k \in heard :
               /\ IsFirst(k, heard) => got[c][k].text.first = username[i].last + 1
               /\ IsLast(k, heard) => got[c][k].text.last = taken[c]

(* "Echo it back to them", "broadcast to all connected clients": as long   *)
(* as nobody has gone, every client hears all of its own messages, and all *)
(* clients hear the same, each since it was accepted.                      *)
AllHear ==
  pc # "write" /\ (\A c \in Clients : ~Gone(c)) =>
    /\ \A i \in Taken : Echoed(i)
    /\ \A c, d \in Fds : IsSuffix(got[c], got[d]) \/ IsSuffix(got[d], got[c])

(* A client that has not gone keeps its slot, unless one that has gone is  *)
(* still in the table.                                                     *)
DroppedForAnother ==
  [][\A c \in Fds \ Fds' : Gone(c) \/ \E d \in Fds : Gone(d)]_vars

(* While the server runs, what a client in the table writes is read, and   *)
(* one that has gone leaves the table, in whatever order the others        *)
(* connect, write and go.  No write blocks, and nobody writes for ever.    *)
Served ==
  \A c \in Clients :
    (c \in Fds /\ (taken[c] < sent[c] \/ Gone(c))) ~>
      (c \notin Fds \/ (taken[c] = sent[c] /\ ~Gone(c)) \/ pc = "exit")

(* Who waits to be accepted is, unless the table is full or fills again    *)
(* and again.                                                              *)
Admitted ==
  \A c \in Clients :
    (client[c] # "out" /\ \E i \in DOMAIN backlog : backlog[i] = c) ~>
      (c \in Fds \/ Taken = Slots \/ pc = "exit")
=============================================================================
