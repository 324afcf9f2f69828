----------------------------- MODULE LineServer -----------------------------
(***************************************************************************)
(* The buffered line server of lab 10 (Labs/lab10/bufserver.c) and the     *)
(* client that is there to test it (Labs/lab10/randclient.c), which writes *)
(* a message several times, in pieces of random size.                      *)
(*                                                                         *)
(* A byte is known by its position in what the client has written, so that *)
(* no two are confused; what it is, is one of three kinds.                 *)
(*                                                                         *)
(* An operator Op_Mistake is Op with a mistake in it that a property has   *)
(* to notice; no action uses it.                                           *)
(***************************************************************************)
EXTENDS Integers, FiniteSets, Sequences

CONSTANTS BUFSIZE,
          TIMES, MINCHARS, MAXCHARS,
          MaxMessage            \* length of the longest message

ASSUME LineAssumption ==
  /\ BUFSIZE \in Nat \ {0}
  /\ TIMES \in Nat /\ MaxMessage \in Nat
  /\ MINCHARS \in Nat \ {0} /\ MAXCHARS \in Nat /\ MINCHARS <= MAXCHARS

VARIABLES
  message,       \* of the client that is connected, or was
  current_byte,  \* bytes of all it has to write that it has written
  written,       \* what it has written, the kind of every byte
  client,        \* "writing", "closed"; "lost" when the connection broke
  nread,         \* how much of it the server has read
  buf,           \* the inbuf bytes in the buffer, as positions
  printed,       \* the lines printed, as positions
  pc             \* "accept", "read" or "lines"

vars == <<message, current_byte, written, client, nread, buf, printed, pc>>

CR == "\\r"
LF == "\\n"
Kinds == {CR, LF, "other"}

Messages == UNION {[1..n -> Kinds] : n \in 1..MaxMessage}

Smaller(a, b) == IF a < b THEN a ELSE b

Init ==
  /\ message = <<>> /\ current_byte = 0
  /\ written = <<>> /\ client = "closed"
  /\ nread = 0 /\ buf = <<>> /\ printed = <<>>
  /\ pc = "accept"

-----------------------------------------------------------------------------
(* randclient.c.                                                           *)

TotalBytes == TIMES * Len(message)

(* Byte i, from 0, of all that is to be written. *)
MessageByte(i) == message[(i % Len(message)) + 1]

(* write_random_pieces: one turn of its loop. *)
Piece_FromTheStart(size) == [i \in 1..size |-> MessageByte(i - 1)]
Piece(size) == [i \in 1..size |-> MessageByte(current_byte + i - 1)]

WritePiece ==
  /\ client = "writing"
  /\ current_byte < TotalBytes
  /\ \E random \in MINCHARS..MAXCHARS :
       LET size == Smaller(random, TotalBytes - current_byte) IN
       /\ written' = written \o Piece(size)
       /\ current_byte' = current_byte + size
  /\ UNCHANGED <<message, client, nread, buf, printed, pc>>

CloseSocket ==
  /\ client = "writing"
  /\ current_byte = TotalBytes
  /\ client' = "closed"
  /\ UNCHANGED <<message, current_byte, written, nread, buf, printed, pc>>

(* The client or the network fails. *)
ConnectionBreaks ==
  /\ client = "writing"
  /\ client' = "lost"
  /\ UNCHANGED <<message, current_byte, written, nread, buf, printed, pc>>

-----------------------------------------------------------------------------
(* bufserver.c.                                                            *)

(* accept_connection: the buffer starts empty.  A client that the server   *)
(* has left earlier plays no part any more.                                *)
Accept ==
  /\ pc = "accept"
  /\ message' \in Messages
  /\ current_byte' = 0 /\ written' = <<>> /\ client' = "writing"
  /\ nread' = 0 /\ buf' = <<>> /\ printed' = <<>>
  /\ pc' = "read"

Room_OneLess == BUFSIZE - Len(buf) - 1
Room == BUFSIZE - Len(buf)

(* read brings at least one byte, and at most as many as there is room for. *)
(* What arrived before the connection was lost may be read or not.         *)
Read ==
  /\ pc = "read"
  /\ \E n \in 1..Smaller(Room, Len(written) - nread) :
       /\ buf' = buf \o [i \in 1..n |-> nread + i]
       /\ nread' = nread + n
  /\ pc' = "lines"
  /\ UNCHANGED <<message, current_byte, written, client, printed>>

(* read returns 0 when it is asked for no bytes and at the end of the       *)
(* client's output, -1 when the connection is lost: the server closes it   *)
(* and goes on to accept.                                                  *)
AfterRead_ZeroIgnored == IF client = "lost" THEN "accept" ELSE "read"
AfterRead == "accept"

NoMoreToRead ==
  /\ pc = "read"
  /\ \/ Room = 0
     \/ client = "closed" /\ nread = Len(written)
     \/ client = "lost"
  /\ pc' = AfterRead
  /\ UNCHANGED <<message, current_byte, written, client, nread, buf, printed>>

(* find_network_newline: the number of bytes up to the end of the first    *)
(* line, "\r\n" included, or -1.                                           *)
NewlinesIn(s) ==
  {i \in 1..(Len(s) - 1) : written[s[i]] = CR /\ written[s[i + 1]] = LF}

FindNetworkNewline_TooShort(s) ==
  LET found == NewlinesIn(s) \ {Len(s) - 1} IN
  IF found = {} THEN -1
  ELSE (CHOOSE i \in found : \A j \in found : i <= j) + 1
FindNetworkNewline(s) ==
  LET found == NewlinesIn(s) IN
  IF found = {} THEN -1
  ELSE (CHOOSE i \in found : \A j \in found : i <= j) + 1

(* The bytes after the line move to the front of the buffer. *)
AfterLine_All(where) == <<>>
AfterLine(where) == SubSeq(buf, where + 1, Len(buf))

PrintLine ==
  /\ pc = "lines"
  /\ FindNetworkNewline(buf) > 0
  /\ LET where == FindNetworkNewline(buf) IN
     /\ printed' = Append(printed, SubSeq(buf, 1, where - 2))
     /\ buf' = AfterLine(where)
  /\ UNCHANGED <<message, current_byte, written, client, nread, pc>>

NoMoreLines ==
  /\ pc = "lines"
  /\ ~(FindNetworkNewline(buf) > 0)
  /\ pc' = "read"
  /\ UNCHANGED <<message, current_byte, written, client, nread, buf, printed>>

-----------------------------------------------------------------------------
Serve == Read \/ NoMoreToRead \/ PrintLine \/ NoMoreLines

Next ==
  \/ Accept \/ Serve
  \/ WritePiece \/ CloseSocket \/ ConnectionBreaks

Spec == Init /\ [][Next]_vars

(* The server runs while there is something to read; nobody has to connect *)
(* or to write.                                                            *)
FairSpec == Spec /\ WF_vars(Serve)

-----------------------------------------------------------------------------
(* The lines of a stream.                                                  *)

(* What the client means to write, in full. *)
Stream == [i \in 1..TotalBytes |-> MessageByte(i - 1)]

(* The positions of the line feeds that end the lines of s, from 0. *)
Ends(s) == {0} \cup {i \in 2..Len(s) : s[i - 1] = CR /\ s[i] = LF}

(* Of the line that ends at e, where it starts. *)
StartOf(s, e) ==
  1 + CHOOSE b \in Ends(s) : b < e /\ \A x \in Ends(s) : x < e => x <= b

(* The line that ends at e, without its end. *)
LineTo(s, e) == [i \in 1..(e - StartOf(s, e) - 1) |-> StartOf(s, e) + i - 1]

(* The end of the line number k: there are k - 1 before it. *)
NthEnd(ends, k) ==
  CHOOSE e \in ends : Cardinality({x \in ends : x < e}) = k - 1

(* The lines of s, in order. *)
Lines(s) ==
  LET ends == Ends(s) \ {0}
  IN [k \in 1..Cardinality(ends) |-> LineTo(s, NthEnd(ends, k))]

Fits(s, e) == e - StartOf(s, e) + 1 <= BUFSIZE

-----------------------------------------------------------------------------
(* Properties.                                                             *)

(* However the reads cut the stream, between two reads the lines that have *)
(* been printed are those of what has been read, each once and in order,   *)
(* and the buffer holds the rest of it, no more and no less.               *)
LinesOfRead ==
  pc = "read" =>
    LET s == SubSeq(written, 1, nread)
        end == CHOOSE e \in Ends(s) : \A x \in Ends(s) : x <= e
    IN /\ printed = Lines(s)
       /\ buf = [i \in 1..(nread - end) |-> end + i]

(* When a connection is over, every line of the client's messages has been *)
(* printed, if no line with its end is longer than the buffer and the      *)
(* connection held.                                                        *)
OnlyLongLinesLost ==
  pc = "accept" /\ client # "lost" =>
    \/ printed = Lines(Stream)
    \/ \E e \in Ends(Stream) \ {0} : ~Fits(Stream, e)

(* Every connection comes to an end once the client has closed it or it    *)
(* broke.                                                                  *)
ConnectionEnds == (pc # "accept" /\ client # "writing") ~> (pc = "accept")
=============================================================================
