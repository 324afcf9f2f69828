----------------------------- MODULE ChatProofs -----------------------------
(***************************************************************************)
(* Proofs about the chat server: its table of users (TableInv), who has    *)
(* which name and what is being sent (NamesInv), how far everybody has     *)
(* heard everybody else (RelayInv), and that all hear the same (SuffixInv).*)
(* Each of these is inductive relative to the ones before it.              *)
(***************************************************************************)
EXTENDS ChatServer, SequenceTheorems, WellFoundedInduction, TLAPS

-----------------------------------------------------------------------------
(* The lowest of some slots.                                               *)

LEMMA LeastNat ==
  ASSUME NEW S, S \subseteq Nat, S # {}
  PROVE  \E m \in S : \A n \in S : m <= n
<1> DEFINE R == {ss \in Nat \X Nat : ss[1] < ss[2]}
<1>1. IsWellFoundedOn(R, Nat)
  BY NatLessThanWellFounded DEF OpToRel
<1> HIDE DEF R
<1>2. PICK m \in S : \A n \in S : ~ (<<n, m>> \in R)
  BY <1>1, WFMin
<1>3. ASSUME NEW n \in S PROVE m <= n
  <2>1. ~ (<<n, m>> \in R)
    BY <1>2
  <2>2. <<n, m>> \in Nat \X Nat
    OBVIOUS
  <2>3. ~ (n < m)
    BY <2>1, <2>2 DEF R
  <2>4. QED
    BY <2>3
<1>4. QED
  BY <1>3

LEMMA LowestOf ==
  ASSUME NEW S, S \subseteq Slots, S # {}
  PROVE  Lowest(S) \in S
<1>1. S \subseteq Nat
  BY DEF Slots
<1>2. QED
  BY <1>1, LeastNat DEF Lowest

-----------------------------------------------------------------------------
(* Types.                                                                  *)

Texts == [of : Clients \cup {-1}, first : Nat, last : Nat]
Messages == [name : Texts, text : Texts]

TypeOK ==
  /\ client \in [Clients -> {"out", "in", "closed", "reset"}]
  /\ sent \in [Clients -> Nat]
  /\ got \in [Clients -> Seq(Messages)]
  /\ backlog \in Seq(Clients)
  /\ taken \in [Clients -> Nat]
  /\ error \in [Clients -> BOOLEAN]
  /\ sock_fd \in [Slots -> Clients \cup {-1}]
  /\ username \in [Slots -> Texts]
  /\ all_fds \subseteq Clients
  /\ read_fds \subseteq Clients
  /\ pc \in {"loop", "accept", "write", "exit"}
  /\ sender \in Slots \cup {0}
  /\ rest \subseteq Slots
  /\ buf \in Texts

LEMMA TextType ==
  ASSUME NEW c \in Clients \cup {-1}, NEW f \in Nat, NEW l \in Nat
  PROVE  Text(c, f, l) \in Texts
BY DEF Text, Texts

LEMMA NoText == NULL \in Texts /\ Junk \in Texts /\ NULL # Junk
BY TextType DEF NULL, Junk, Text

(* No two connections in one slot, nor one in two; the ones that wait are  *)
(* in none.                                                                *)
New(c) == client[c] = "out" \/ \E i \in DOMAIN backlog : backlog[i] = c

TableInv ==
  /\ all_fds = Fds
  /\ \A i, j \in Taken : sock_fd[i] = sock_fd[j] => i = j
  /\ \A i \in Taken : ~New(sock_fd[i])
  /\ \A k \in DOMAIN backlog : client[backlog[k]] # "out"
  /\ \A k, l \in DOMAIN backlog : backlog[k] = backlog[l] => k = l
  /\ pc = "accept" => backlog # <<>>
  /\ pc = "write" => rest \subseteq Taken /\ rest # {} /\ sender \in Taken

LEMMA Serving ==
  ASSUME TypeOK, ToServe # {}
  PROVE  /\ Index \in Taken
         /\ sock_fd[Index] \in Clients
         /\ sock_fd[Index] \in read_fds
<1>1. Index \in ToServe
  BY LowestOf DEF Index, ToServe, Taken
<1>2. QED
  BY <1>1 DEF ToServe, Taken, TypeOK

LEMMA Writing ==
  ASSUME TypeOK, TableInv, pc = "write"
  PROVE  /\ Lowest(rest) \in rest
         /\ Lowest(rest) \in Taken
         /\ sock_fd[Lowest(rest)] \in Clients
         /\ sender \in Taken
         /\ sock_fd[sender] \in Clients
<1>1. Lowest(rest) \in rest
  BY LowestOf DEF TypeOK, TableInv
<1>2. QED
  BY <1>1 DEF TableInv, Taken, TypeOK

LEMMA Accepting ==
  ASSUME TypeOK, TableInv, pc = "accept", ~IsFull
  PROVE  /\ FreeSlot \in Slots \ Taken
         /\ sock_fd[FreeSlot] = -1
         /\ Head(backlog) \in Clients
         /\ backlog # <<>>
<1>1. Slots \ Taken # {}
  BY DEF IsFull, Taken
<1>2. FreeSlot \in Slots \ Taken
  BY <1>1, LowestOf DEF FreeSlot
<1>3. QED
  BY <1>2, HeadTailProperties DEF TypeOK, TableInv, Taken

LEMMA TypeStep ==
  ASSUME TypeOK, TableInv, [Next]_vars
  PROVE  TypeOK'
<1> USE TextType, NoText, ChatAssumption DEF TypeOK
<1>1. ASSUME NEW c \in Clients, Connect(c) PROVE TypeOK'
  BY <1>1 DEF Connect, table
<1>2. ASSUME NEW c \in Clients, ClientWrites(c) PROVE TypeOK'
  BY <1>2 DEF ClientWrites, table
<1>3. ASSUME NEW c \in Clients, ClientCloses(c) PROVE TypeOK'
  <2>1. <<>> \in Seq(Messages)
    OBVIOUS
  <2>2. got' \in [Clients -> Seq(Messages)]
    BY <1>3, <2>1 DEF ClientCloses
  <2>3. client' \in [Clients -> {"out", "in", "closed", "reset"}]
    BY <1>3 DEF ClientCloses
  <2>4. error' \in [Clients -> BOOLEAN]
    BY <1>3 DEF ClientCloses
  <2>5. QED
    BY <1>3, <2>2, <2>3, <2>4 DEF ClientCloses, table
<1>4. CASE Select
  BY <1>4 DEF Select, table, clientVars, Readable
<1>5. CASE Accept
  <2>1. Tail(backlog) \in Seq(Clients)
    BY <1>5, Accepting, HeadTailProperties DEF Accept
  <2>2. QED
    BY <1>5, <2>1, Accepting DEF Accept, clientVars, NewName
<1>6. CASE TableFull \/ AcceptFails
  BY <1>6 DEF TableFull, AcceptFails, table, clientVars
<1>7. CASE Disconnected
  BY <1>7, Serving DEF Disconnected, clientVars, DropUser
<1>8. CASE Message
  <2>1. PICK last \in (taken[sock_fd[Index]] + 1)..sent[sock_fd[Index]] :
           LET c == sock_fd[Index]
               text == Text(c, taken[c] + 1, last) IN
           /\ taken' = [taken EXCEPT ![c] = last]
           /\ read_fds' = read_fds \ {c}
           /\ buf' = text
           /\ Deal(Index, text, text)
    BY <1>8 DEF Message
  <2>2. last \in Nat /\ taken[sock_fd[Index]] + 1 \in Nat /\ Index \in Slots
    BY <1>8, Serving DEF Message, Taken
  <2>3. buf' \in Texts
    BY <1>8, <2>1, <2>2, Serving DEF Message
  <2>4. /\ username' \in [Slots -> Texts]
        /\ pc' \in {"loop", "accept", "write", "exit"}
        /\ sender' \in Slots \cup {0}
        /\ rest' \subseteq Slots
    <3>1. Deal(Index, buf', buf')
      BY <2>1
    <3>2. QED
      BY <2>2, <2>3, <3>1 DEF Deal, Taken
  <2>5. QED
    BY <1>8, <2>1, <2>2, <2>3, <2>4, Serving DEF Message, clientVars
<1>9. CASE ReadFails
  <2>1. Index \in Slots
    BY <1>9, Serving DEF ReadFails, Taken
  <2>2. QED
    BY <1>9, <2>1 DEF ReadFails, clientVars, Deal, Taken
<1>10. CASE Deliver
  <2> DEFINE d == sock_fd[Lowest(rest)]
             m == [name |-> username[sender], text |-> buf]
  <2>1. d \in Clients /\ sender \in Slots
    BY <1>10, Writing DEF Deliver, Taken
  <2>2. m \in Messages
    BY <2>1 DEF Messages
  <2>3. Append(got[d], m) \in Seq(Messages)
    BY <2>1, <2>2, AppendProperties
  <2>4. got' \in [Clients -> Seq(Messages)]
    BY <1>10, <2>1, <2>3 DEF Deliver
  <2>5. QED
    BY <1>10, <2>4 DEF Deliver, clientVars, table, WriteNext, EndBroadcast
<1>11. CASE WriteIsLost
  BY <1>11 DEF WriteIsLost, clientVars, table, WriteNext, EndBroadcast
<1>12. CASE WriteFails
  BY <1>12 DEF WriteFails, clientVars, AfterFailure, EndBroadcast, DropUser
<1>13. CASE UNCHANGED vars
  BY <1>13 DEF vars, clientVars, table
<1>14. QED
  BY <1>1, <1>2, <1>3, <1>4, <1>5, <1>6, <1>7, <1>8, <1>9, <1>10, <1>11, <1>12, <1>13
  DEF Next, Server, Client

LEMMA ArriveStep ==
  ASSUME TypeOK, TableInv, NEW c \in Clients, Connect(c)
  PROVE  TableInv'
<1>1. /\ client[c] = "out"
      /\ client' = [client EXCEPT ![c] = "in"]
      /\ backlog' = Append(backlog, c)
      /\ UNCHANGED <<sock_fd, all_fds, pc, rest, sender>>
  BY DEF Connect, table
<1>2. /\ client \in [Clients -> {"out", "in", "closed", "reset"}]
      /\ backlog \in Seq(Clients)
  BY DEF TypeOK
<1>3. /\ DOMAIN backlog = 1..Len(backlog)
      /\ Len(backlog) \in Nat
      /\ \A k \in DOMAIN backlog : backlog[k] \in Clients
  BY <1>2
<1>4. /\ DOMAIN backlog' = 1..(Len(backlog) + 1)
      /\ \A k \in DOMAIN backlog : backlog'[k] = backlog[k]
      /\ backlog'[Len(backlog) + 1] = c
      /\ backlog' # <<>>
  BY <1>1, <1>2, AppendProperties
<1>5. \A k \in DOMAIN backlog : client[backlog[k]] # "out" /\ backlog[k] # c
  BY <1>1 DEF TableInv
<1>6. \A k, l \in DOMAIN backlog : backlog[k] = backlog[l] => k = l
  BY DEF TableInv
<1>7. \A k \in DOMAIN backlog' : k \in DOMAIN backlog \/ k = Len(backlog) + 1
  BY <1>3, <1>4
<1>8. \A k, l \in DOMAIN backlog' : backlog'[k] = backlog'[l] => k = l
  BY <1>4, <1>5, <1>6, <1>7
<1>9. \A k \in DOMAIN backlog' : client'[backlog'[k]] # "out"
  BY <1>1, <1>2, <1>3, <1>4, <1>5, <1>7
<1>10. ASSUME NEW i \in Taken PROVE ~New(sock_fd[i])'
  <2>1. ~New(sock_fd[i])
    BY DEF TableInv
  <2>2. client[sock_fd[i]] # "out" /\ sock_fd[i] # c
    BY <1>1, <2>1 DEF New
  <2>3. \A k \in DOMAIN backlog' : backlog'[k] # sock_fd[i]
    BY <1>4, <1>7, <2>1, <2>2 DEF New
  <2>4. client'[sock_fd[i]] # "out"
    BY <1>1, <1>2, <2>2
  <2>5. QED
    BY <1>1, <2>3, <2>4 DEF New
<1>11. Taken' = Taken /\ Fds' = Fds
  BY <1>1 DEF Taken, Fds
<1>12. QED
  BY <1>1, <1>4, <1>8, <1>9, <1>10, <1>11 DEF TableInv

LEMMA AcceptStep ==
  ASSUME TypeOK, TableInv, Accept
  PROVE  /\ TableInv'
         /\ Taken' = Taken \cup {FreeSlot}
         /\ \A i \in Taken : sock_fd'[i] = sock_fd[i]
         /\ sock_fd'[FreeSlot] = Head(backlog)
         /\ \A c : New(c)' => New(c) /\ c # Head(backlog)
<1> DEFINE c == Head(backlog)
           i == FreeSlot
<1>1. /\ i \in Slots /\ i \notin Taken /\ sock_fd[i] = -1
      /\ c \in Clients /\ backlog # <<>>
  BY Accepting DEF Accept
<1>2. /\ sock_fd' = [sock_fd EXCEPT ![i] = c]
      /\ all_fds' = all_fds \cup {c}
      /\ UNCHANGED client /\ pc' = "loop"
      /\ backlog' = Tail(backlog)
  BY DEF Accept, clientVars
<1>3. /\ backlog \in Seq(Clients)
      /\ sock_fd \in [Slots -> Clients \cup {-1}]
  BY DEF TypeOK
<1>4. /\ DOMAIN backlog = 1..Len(backlog)
      /\ Len(backlog) \in Nat /\ Len(backlog) > 0
      /\ DOMAIN backlog' = 1..(Len(backlog) - 1)
      /\ \A k \in DOMAIN backlog' : backlog'[k] = backlog[k + 1]
      /\ c = backlog[1]
  BY <1>1, <1>2, <1>3, HeadTailProperties, EmptySeq
<1> HIDE DEF c, i
<1>5. Taken' = Taken \cup {i}
  BY <1>1, <1>2, <1>3, ChatAssumption DEF Taken
<1>6. (\A j \in Taken : sock_fd'[j] = sock_fd[j]) /\ sock_fd'[i] = c
  BY <1>1, <1>2, <1>3
<1>7. Fds' = Fds \cup {c}
  BY <1>5, <1>6 DEF Fds
<1>8. 1 \in DOMAIN backlog /\ \A k \in DOMAIN backlog' : k + 1 \in DOMAIN backlog /\ k + 1 # 1
  BY <1>4
<1>9. New(c) /\ client[c] # "out"
  BY <1>4, <1>8 DEF New, TableInv
<1>10. \A j \in Taken : sock_fd[j] # c
  BY <1>9 DEF TableInv
<1>11. \A j, k \in Taken' : sock_fd'[j] = sock_fd'[k] => j = k
  BY <1>5, <1>6, <1>10 DEF TableInv
<1>12. \A k, l \in DOMAIN backlog' : backlog'[k] = backlog'[l] => k = l
  <2> TAKE k, l \in DOMAIN backlog'
  <2>1. k \in Int /\ l \in Int
    BY <1>4
  <2>2. backlog[k + 1] = backlog[l + 1] => k + 1 = l + 1
    BY <1>8 DEF TableInv
  <2>3. QED
    BY <1>4, <2>1, <2>2
<1>13. \A k \in DOMAIN backlog' : client'[backlog'[k]] # "out" /\ backlog'[k] # c
  BY <1>2, <1>4, <1>8 DEF TableInv
<1>14. ASSUME NEW e, New(e)' PROVE New(e) /\ e # c
  BY <1>2, <1>4, <1>8, <1>9, <1>13, <1>14 DEF New
<1>15. \A j \in Taken' : ~New(sock_fd[j])'
  BY <1>5, <1>6, <1>14 DEF TableInv
<1>16. TableInv'
  BY <1>2, <1>7, <1>11, <1>12, <1>13, <1>15 DEF TableInv
<1>17. QED
  BY <1>5, <1>6, <1>14, <1>16 DEF c, i

LEMMA DropStep ==
  ASSUME TypeOK, TableInv, NEW i \in Taken, DropUser(i),
         UNCHANGED <<client, backlog>>, pc' = "loop"
  PROVE  /\ TableInv'
         /\ Taken' = Taken \ {i}
         /\ \A j \in Taken' : sock_fd'[j] = sock_fd[j]
         /\ Fds' = Fds \ {sock_fd[i]}
<1>1. /\ sock_fd' = [sock_fd EXCEPT ![i] = -1]
      /\ all_fds' = all_fds \ {sock_fd[i]}
      /\ sock_fd \in [Slots -> Clients \cup {-1}]
  BY DEF DropUser, TypeOK
<1>2. Taken' = Taken \ {i} /\ \A j \in Taken' : sock_fd'[j] = sock_fd[j]
  BY <1>1, ChatAssumption DEF Taken
<1>3. \A j, k \in Taken : sock_fd[j] = sock_fd[k] => j = k
  BY DEF TableInv
<1>4. Fds' = Fds \ {sock_fd[i]}
  BY <1>2, <1>3 DEF Fds
<1>5. \A c : New(c)' <=> New(c)
  BY DEF New
<1>6. QED
  BY <1>1, <1>2, <1>3, <1>4, <1>5 DEF TableInv

LEMMA TableStep ==
  ASSUME TypeOK, TableInv, [Next]_vars
  PROVE  TableInv'
<1>1. ASSUME NEW c \in Clients, Connect(c) PROVE TableInv'
  BY <1>1, ArriveStep
<1>2. ASSUME UNCHANGED <<client, backlog, sock_fd, all_fds, sender, rest>>,
             pc' = "accept" => backlog # <<>>,
             pc' = "write" => pc = "write"
      PROVE  TableInv'
  <2>1. Taken' = Taken /\ Fds' = Fds /\ \A c : New(c)' <=> New(c)
    BY <1>2 DEF Taken, Fds, New
  <2>2. QED
    BY <1>2, <2>1 DEF TableInv
<1>3. ASSUME NEW c \in Clients, ClientWrites(c) PROVE TableInv'
  BY <1>2, <1>3 DEF ClientWrites, table, TableInv
<1>4. ASSUME NEW c \in Clients, ClientCloses(c) PROVE TableInv'
  <2>1. /\ \E s \in {"closed", "reset"} : client' = [client EXCEPT ![c] = s]
        /\ client[c] # "out"
        /\ client \in [Clients -> {"out", "in", "closed", "reset"}]
        /\ UNCHANGED <<backlog, sock_fd, all_fds, sender, rest, pc>>
    BY <1>4 DEF ClientCloses, table, TypeOK
  <2>2. \A e : client'[e] = "out" <=> client[e] = "out"
    BY <2>1
  <2>3. Taken' = Taken /\ Fds' = Fds /\ \A e : New(e)' <=> New(e)
    BY <2>1, <2>2 DEF Taken, Fds, New
  <2>4. \A k \in DOMAIN backlog' : client'[backlog'[k]] # "out"
    BY <2>1, <2>2 DEF TableInv
  <2>5. QED
    BY <2>1, <2>3, <2>4 DEF TableInv
<1>5. CASE Select
  BY <1>2, <1>5 DEF Select, table, clientVars
<1>6. CASE Accept
  BY <1>6, AcceptStep
<1>7. CASE TableFull \/ AcceptFails
  BY <1>2, <1>7 DEF TableFull, AcceptFails, table, clientVars
<1>8. CASE Disconnected
  <2>1. /\ DropUser(Index) /\ UNCHANGED <<client, backlog>> /\ pc' = "loop"
        /\ Index \in Taken
    BY <1>8, Serving DEF Disconnected, clientVars
  <2>2. QED
    BY <2>1, DropStep
<1>9. CASE Message \/ ReadFails
  <2>1. /\ UNCHANGED <<client, backlog, sock_fd, all_fds>>
        /\ \/ UNCHANGED <<pc, sender, rest>>
           \/ pc' = "write" /\ rest' = Taken /\ sender' = Index
        /\ ToServe # {} /\ pc = "loop"
    BY <1>9 DEF Message, ReadFails, Deal, clientVars
  <2>2. Index \in Taken
    BY <2>1, Serving
  <2>3. Taken' = Taken /\ Fds' = Fds /\ \A c : New(c)' <=> New(c)
    BY <2>1 DEF Taken, Fds, New
  <2>4. QED
    BY <2>1, <2>2, <2>3 DEF TableInv
<1>10. CASE Deliver \/ WriteIsLost
  <2>1. /\ UNCHANGED <<client, backlog, sock_fd, all_fds>>
        /\ \/ pc' = "loop"
           \/ /\ rest' = rest \ {Lowest(rest)} /\ rest # {Lowest(rest)}
              /\ UNCHANGED <<pc, sender>>
        /\ pc = "write"
    BY <1>10 DEF Deliver, WriteIsLost, WriteNext, EndBroadcast, clientVars, table
  <2>2. Lowest(rest) \in rest
    BY <2>1, Writing
  <2>3. Taken' = Taken /\ Fds' = Fds /\ \A c : New(c)' <=> New(c)
    BY <2>1 DEF Taken, Fds, New
  <2>4. QED
    BY <2>1, <2>2, <2>3 DEF TableInv
<1>11. CASE WriteFails
  <2>1. /\ DropUser(sender) /\ UNCHANGED <<client, backlog>> /\ pc' = "loop"
        /\ sender \in Taken
    BY <1>11, Writing DEF WriteFails, AfterFailure, EndBroadcast, clientVars
  <2>2. QED
    BY <2>1, DropStep
<1>12. CASE UNCHANGED vars
  BY <1>2, <1>12 DEF vars, clientVars, table, TableInv
<1>13. QED
  BY <1>1, <1>3, <1>4, <1>5, <1>6, <1>7, <1>8, <1>9, <1>10, <1>11, <1>12
  DEF Next, Server, Client

LEMMA InitTable == Init => TypeOK /\ TableInv
<1> SUFFICES ASSUME Init PROVE TypeOK /\ TableInv
  OBVIOUS
<1>1. TypeOK
  <2>1. <<>> \in Seq(Clients) /\ <<>> \in Seq(Messages)
    OBVIOUS
  <2>2. QED
    BY <2>1, NoText DEF Init, TypeOK
<1>2. Taken = {} /\ Fds = {}
  BY DEF Init, Taken, Fds
<1>3. DOMAIN backlog = {}
  BY DEF Init
<1>4. QED
  BY <1>1, <1>2, <1>3 DEF Init, TableInv

LEMMA TableInvariance == Spec => [](TypeOK /\ TableInv)
<1>1. TypeOK /\ TableInv /\ [Next]_vars => (TypeOK /\ TableInv)'
  BY TypeStep, TableStep
<1>2. QED
  BY InitTable, <1>1, PTL DEF Spec

(* The table of users, the set of descriptors for select and the queue of  *)
(* connections agree, whatever slots are given up and used again.          *)
THEOREM Table == Spec => []TableAgrees
<1>1. TypeOK /\ TableInv => TableAgrees
  BY DEF TableInv, TableAgrees, New, Fds
<1>2. QED
  BY TableInvariance, <1>1, PTL

(* A user is only dropped when it has gone, or when somebody else has and  *)
(* is still in the table.                                                  *)
THEOREM Drops == Spec => DroppedForAnother
<1>1. ASSUME TypeOK, TableInv, [Next]_vars, NEW c \in Fds \ Fds'
      PROVE  Gone(c) \/ \E d \in Fds : Gone(d)
  <2>1. CASE Disconnected
    <3>1. /\ DropUser(Index) /\ UNCHANGED <<client, backlog>> /\ pc' = "loop"
          /\ Index \in Taken /\ Gone(sock_fd[Index])
      BY <1>1, <2>1, Serving DEF Disconnected, clientVars
    <3>2. Fds' = Fds \ {sock_fd[Index]}
      BY <1>1, <3>1, DropStep
    <3>3. QED
      BY <3>1, <3>2
  <2>2. CASE WriteFails
    <3>1. Lowest(rest) \in Taken /\ Gone(sock_fd[Lowest(rest)])
      BY <1>1, <2>2, Writing DEF WriteFails
    <3>2. QED
      BY <3>1 DEF Fds
  <2>3. CASE Accept
    <3>1. Taken' = Taken \cup {FreeSlot} /\ \A i \in Taken : sock_fd'[i] = sock_fd[i]
      BY <1>1, <2>3, AcceptStep
    <3>2. QED
      BY <3>1 DEF Fds
  <2>4. CASE UNCHANGED sock_fd
    BY <2>4 DEF Fds, Taken
  <2>5. QED
    BY <1>1, <2>1, <2>2, <2>3, <2>4
    DEF Next, Server, Client, Connect, ClientWrites, ClientCloses, Select,
      TableFull, AcceptFails, Message, ReadFails, Deliver, WriteIsLost, vars, table
<1>2. TypeOK /\ TableInv /\ [Next]_vars =>
        [\A c \in Fds \ Fds' : Gone(c) \/ \E d \in Fds : Gone(d)]_vars
  BY <1>1
<1>3. QED
  BY TableInvariance, <1>2, PTL DEF Spec, DroppedForAnother

-----------------------------------------------------------------------------
(* Names and messages.                                                     *)

(* Nothing has been read from c, nor sent under its name.                  *)
Unheard(c) == taken[c] = 0 /\ \A d \in Clients : Heard(d, c) = {}

ConnectionInv(c) ==
  /\ taken[c] <= sent[c]
  /\ error[c] => client[c] = "reset"
  /\ New(c) => Unheard(c)
  /\ New(c) \/ Gone(c) => got[c] = <<>>

(* The user c of slot i has no name yet, or one that could not be read, or *)
(* the first units that it has written.                                    *)
UserInv(i, c) ==
  /\ username[i] = NULL => Unheard(c)
  /\ username[i] = Junk => client[c] = "reset" /\ ~error[c] /\ taken[c] = sent[c]
  /\ username[i] \notin {NULL, Junk} =>
       /\ username[i].of = c
       /\ username[i].first = 1
       /\ username[i].last <= taken[c]

(* What is being sent, under the name of c, is what c wrote last.          *)
MessageInv(c) ==
  /\ username[sender] \notin {NULL, Junk}
  /\ client[c] # "reset" =>
       /\ buf.of = c
       /\ username[sender].last < buf.first
       /\ buf.first <= buf.last
       /\ buf.last = taken[c]

NamesInv ==
  /\ \A c \in Clients : ConnectionInv(c)
  /\ \A i \in Taken : UserInv(i, sock_fd[i])
  /\ pc = "write" => MessageInv(sock_fd[sender])

LEMMA NamedText ==
  ASSUME NEW c \in Clients, NEW f \in Nat, NEW l \in Nat
  PROVE  /\ Text(c, f, l) \notin {NULL, Junk}
         /\ Text(c, f, l) \in Texts
         /\ Text(c, f, l).of = c
         /\ Text(c, f, l).first = f
         /\ Text(c, f, l).last = l
<1>1. NULL.of = -1 /\ Junk.of = -1 /\ Text(c, f, l).of = c /\ c # -1
  BY ChatAssumption DEF Text, NULL, Junk
<1>2. QED
  BY <1>1, TextType DEF Text

LEMMA SlotType ==
  ASSUME TypeOK, NEW i \in Taken
  PROVE  i \in Slots /\ sock_fd[i] \in Clients
BY DEF TypeOK, Taken

LEMMA UnheardKept ==
  ASSUME UNCHANGED got
  PROVE  /\ \A d, c : Heard(d, c)' = Heard(d, c)
         /\ \A c : taken'[c] = taken[c] => (Unheard(c)' <=> Unheard(c))
BY DEF Heard, Unheard

(* A step of the server that neither reads nor writes. *)
LEMMA NamesQuiet ==
  ASSUME NamesInv, UNCHANGED <<client, sent, got, backlog, taken, error, sock_fd,
                              username, buf>>,
         pc' = "write" => pc = "write" /\ sender' = sender
  PROVE  NamesInv'
<1>1. ASSUME NEW c \in Clients PROVE ConnectionInv(c)'
  <2>1. ConnectionInv(c)
    BY DEF NamesInv
  <2>2. QED
    BY <2>1, UnheardKept DEF ConnectionInv, New, Gone
<1>2. ASSUME NEW i \in Taken' PROVE UserInv(i, sock_fd[i])'
  <2>1. UserInv(i, sock_fd[i])
    BY DEF NamesInv, Taken
  <2>2. QED
    BY <2>1, UnheardKept DEF UserInv
<1>3. ASSUME pc' = "write" PROVE MessageInv(sock_fd[sender])'
  <2>1. MessageInv(sock_fd[sender])
    BY <1>3 DEF NamesInv
  <2>2. QED
    BY <1>3, <2>1 DEF MessageInv
<1>4. QED
  BY <1>1, <1>2, <1>3 DEF NamesInv

LEMMA NamesConnect ==
  ASSUME TypeOK, TableInv, NamesInv, NEW c \in Clients, Connect(c)
  PROVE  NamesInv'
<1>1. /\ client[c] = "out"
      /\ client' = [client EXCEPT ![c] = "in"]
      /\ client \in [Clients -> {"out", "in", "closed", "reset"}]
      /\ backlog \in Seq(Clients)
      /\ backlog' = Append(backlog, c)
      /\ UNCHANGED <<sent, got, taken, error, sock_fd, username, pc, sender, buf>>
  BY DEF Connect, table, TypeOK
<1>2. /\ DOMAIN backlog = 1..Len(backlog)
      /\ Len(backlog) \in Nat
      /\ DOMAIN backlog' = 1..(Len(backlog) + 1)
      /\ \A k \in DOMAIN backlog : backlog'[k] = backlog[k]
      /\ backlog'[Len(backlog) + 1] = c
  BY <1>1, AppendProperties
<1>3. \A k \in DOMAIN backlog' : k \in DOMAIN backlog \/ k = Len(backlog) + 1
  BY <1>2
<1>4. \A e \in Clients : (Gone(e)' <=> Gone(e)) /\ (client'[e] = "reset" <=> client[e] = "reset")
  BY <1>1 DEF Gone
<1>5. ASSUME NEW e \in Clients, New(e)' PROVE New(e)
  BY <1>1, <1>2, <1>3, <1>5 DEF New
<1>6. ASSUME NEW e \in Clients PROVE ConnectionInv(e)'
  <2>1. ConnectionInv(e)
    BY DEF NamesInv
  <2>2. QED
    BY <1>1, <1>4, <1>5, <2>1, UnheardKept DEF ConnectionInv
<1>7. ASSUME NEW i \in Taken' PROVE UserInv(i, sock_fd[i])'
  <2>1. UserInv(i, sock_fd[i]) /\ i \in Taken
    BY <1>1 DEF NamesInv, Taken
  <2>2. QED
    BY <1>1, <1>4, <2>1, UnheardKept, SlotType DEF UserInv
<1>8. ASSUME pc' = "write" PROVE MessageInv(sock_fd[sender])'
  <2>1. MessageInv(sock_fd[sender]) /\ sender \in Taken
    BY <1>1, <1>8 DEF NamesInv, TableInv
  <2>2. QED
    BY <1>1, <1>4, <2>1, SlotType DEF MessageInv
<1>9. QED
  BY <1>6, <1>7, <1>8 DEF NamesInv

LEMMA NamesWrites ==
  ASSUME TypeOK, TableInv, NamesInv, NEW c \in Clients, ClientWrites(c)
  PROVE  NamesInv'
<1>1. /\ client[c] = "in"
      /\ sent' = [sent EXCEPT ![c] = @ + 1]
      /\ sent \in [Clients -> Nat] /\ taken \in [Clients -> Nat]
      /\ UNCHANGED <<client, backlog, got, taken, error, sock_fd, username, pc, sender, buf>>
  BY DEF ClientWrites, table, TypeOK
<1>2. ASSUME NEW e \in Clients PROVE ConnectionInv(e)'
  <2>1. ConnectionInv(e)
    BY DEF NamesInv
  <2>2. New(e)' <=> New(e)
    BY <1>1 DEF New
  <2>3. taken'[e] <= sent'[e]
    BY <1>1, <2>1 DEF ConnectionInv
  <2>4. QED
    BY <1>1, <2>1, <2>2, <2>3, UnheardKept DEF ConnectionInv, Gone
<1>3. ASSUME NEW i \in Taken' PROVE UserInv(i, sock_fd[i])'
  <2>1. UserInv(i, sock_fd[i]) /\ i \in Taken
    BY <1>1 DEF NamesInv, Taken
  <2>2. sock_fd[i] \in Clients
    BY <2>1, SlotType
  <2>3. client[sock_fd[i]] = "reset" => sent'[sock_fd[i]] = sent[sock_fd[i]]
    BY <1>1, <2>2
  <2>4. QED
    BY <1>1, <2>1, <2>3, UnheardKept DEF UserInv
<1>4. ASSUME pc' = "write" PROVE MessageInv(sock_fd[sender])'
  <2>1. MessageInv(sock_fd[sender])
    BY <1>1, <1>4 DEF NamesInv
  <2>2. QED
    BY <1>1, <2>1 DEF MessageInv
<1>5. QED
  BY <1>2, <1>3, <1>4 DEF NamesInv

LEMMA NamesCloses ==
  ASSUME TypeOK, TableInv, NamesInv, NEW c \in Clients, ClientCloses(c)
  PROVE  NamesInv'
<1>1. PICK s \in {"closed", "reset"} :
           /\ client' = [client EXCEPT ![c] = s]
           /\ error' = [error EXCEPT ![c] = (s = "reset")]
  BY DEF ClientCloses
<1>2. /\ client[c] = "in"
      /\ got' = [got EXCEPT ![c] = <<>>]
      /\ client \in [Clients -> {"out", "in", "closed", "reset"}]
      /\ got \in [Clients -> Seq(Messages)]
      /\ error \in [Clients -> BOOLEAN]
      /\ UNCHANGED <<backlog, sent, taken, sock_fd, username, pc, sender, buf>>
  BY DEF ClientCloses, table, TypeOK
<1>3. ASSUME NEW e PROVE New(e)' <=> New(e)
  BY <1>1, <1>2 DEF New
<1>4. ASSUME NEW d \in Clients, NEW e PROVE Heard(d, e)' \subseteq Heard(d, e)
  <2>1. DOMAIN <<>> = {}
    OBVIOUS
  <2>2. CASE d = c
    BY <1>2, <2>1, <2>2 DEF Heard
  <2>3. CASE d # c
    BY <1>2, <2>3 DEF Heard
  <2>4. QED
    BY <2>2, <2>3
<1>5. ASSUME NEW e, Unheard(e) PROVE Unheard(e)'
  BY <1>2, <1>4, <1>5 DEF Unheard
<1>6. ASSUME NEW e \in Clients PROVE ConnectionInv(e)'
  <2>1. ConnectionInv(e)
    BY DEF NamesInv
  <2>2. error'[e] => client'[e] = "reset"
    BY <1>1, <1>2, <2>1 DEF ConnectionInv
  <2>3. New(e)' \/ Gone(e)' => got'[e] = <<>>
    BY <1>1, <1>2, <1>3, <2>1 DEF ConnectionInv, Gone
  <2>4. QED
    BY <1>2, <1>3, <1>5, <2>1, <2>2, <2>3 DEF ConnectionInv
<1>7. ASSUME NEW i \in Taken' PROVE UserInv(i, sock_fd[i])'
  <2>1. UserInv(i, sock_fd[i]) /\ i \in Taken
    BY <1>2 DEF NamesInv, Taken
  <2>2. PICK e \in Clients : e = sock_fd[i]
    BY <2>1, SlotType
  <2>3. client[e] = "reset" => client'[e] = "reset" /\ error'[e] = error[e]
    BY <1>1, <1>2
  <2>5. UserInv(i, e)'
    <3>1. UserInv(i, e) /\ UNCHANGED <<username, taken, sent>>
      BY <1>2, <2>1, <2>2
    <3>2. username'[i] = NULL => Unheard(e)'
      BY <1>5, <3>1 DEF UserInv
    <3>3. username'[i] = Junk => client'[e] = "reset" /\ ~error'[e] /\ taken'[e] = sent'[e]
      <4> SUFFICES ASSUME username[i] = Junk
                   PROVE  client'[e] = "reset" /\ ~error'[e] /\ taken'[e] = sent'[e]
        BY <3>1
      <4>1. client[e] = "reset" /\ ~error[e] /\ taken[e] = sent[e]
        BY <3>1 DEF UserInv
      <4>2. client'[e] = "reset" /\ ~error'[e]
        BY <2>3, <4>1
      <4>3. QED
        BY <3>1, <4>1, <4>2
    <3>4. QED
      BY <3>1, <3>2, <3>3 DEF UserInv
  <2>4. QED
    BY <1>2, <2>2, <2>5
<1>8. ASSUME pc' = "write" PROVE MessageInv(sock_fd[sender])'
  <2>1. MessageInv(sock_fd[sender]) /\ sender \in Taken
    BY <1>2, <1>8 DEF NamesInv, TableInv
  <2>2. client'[sock_fd[sender]] # "reset" => client[sock_fd[sender]] # "reset"
    BY <1>1, <1>2, <2>1, SlotType
  <2>3. QED
    BY <1>2, <2>1, <2>2 DEF MessageInv
<1>9. QED
  BY <1>6, <1>7, <1>8 DEF NamesInv

LEMMA NamesAccept ==
  ASSUME TypeOK, TableInv, NamesInv, Accept
  PROVE  NamesInv'
<1>0. PICK i \in Slots, c \in Clients : i = FreeSlot /\ c = Head(backlog)
  BY Accepting DEF Accept
<1>1. /\ Taken' = Taken \cup {i}
      /\ \A j \in Taken : sock_fd'[j] = sock_fd[j]
      /\ sock_fd'[i] = c
      /\ \A e : New(e)' => New(e) /\ e # c
  BY <1>0, AcceptStep
<1>2. i \in Slots \ Taken /\ c \in Clients /\ New(c)
  <2>1. i \in Slots \ Taken /\ c \in Clients /\ backlog # <<>>
    BY <1>0, Accepting DEF Accept
  <2>2. 1 \in DOMAIN backlog /\ c = backlog[1]
    BY <1>0, <2>1, EmptySeq DEF TypeOK
  <2>3. QED
    BY <2>1, <2>2 DEF New
<1>3. /\ username' = [username EXCEPT ![i] = NULL]
      /\ username \in [Slots -> Texts]
      /\ UNCHANGED <<client, sent, got, taken, error>>
      /\ pc' = "loop"
  BY <1>0 DEF Accept, NewName, clientVars, TypeOK
<1>4. ASSUME NEW e \in Clients PROVE ConnectionInv(e)'
  <2>1. ConnectionInv(e)
    BY DEF NamesInv
  <2>2. QED
    BY <1>1, <1>3, <2>1, UnheardKept DEF ConnectionInv, Gone
<1>5. ASSUME NEW j \in Taken' PROVE UserInv(j, sock_fd[j])'
  <2>1. CASE j = i
    <3>1. username'[j] = NULL /\ sock_fd'[j] = c
      BY <1>1, <1>2, <1>3, <2>1
    <3>2. Unheard(c)
      BY <1>2 DEF NamesInv, ConnectionInv
    <3>3. Unheard(c)'
      BY <1>3, <3>2, UnheardKept
    <3>4. QED
      BY <3>1, <3>3, NoText DEF UserInv
  <2>2. CASE j # i
    <3>1. j \in Taken /\ UserInv(j, sock_fd[j])
      BY <1>1, <2>2 DEF NamesInv
    <3>2. PICK e \in Clients : e = sock_fd[j]
      BY <3>1, SlotType
    <3>3. username'[j] = username[j] /\ sock_fd'[j] = e
      BY <1>1, <1>3, <2>2, <3>1, <3>2
    <3>4. UserInv(j, e)'
      BY <1>3, <3>1, <3>2, <3>3, UnheardKept DEF UserInv
    <3>5. QED
      BY <3>3, <3>4
  <2>3. QED
    BY <2>1, <2>2
<1>6. QED
  BY <1>3, <1>4, <1>5 DEF NamesInv

(* A user is dropped; the error of a connection may have been reported. *)
LEMMA NamesDrop ==
  ASSUME TypeOK, TableInv, NamesInv, NEW i \in Taken, DropUser(i),
         UNCHANGED <<client, sent, got, backlog, taken>>, pc' = "loop",
         \A c \in Clients : error'[c] => error[c]
  PROVE  NamesInv'
<1>1. Taken' = Taken \ {i} /\ \A j \in Taken' : sock_fd'[j] = sock_fd[j]
  BY DropStep
<1>2. username' = username
  BY DEF DropUser
<1>3. ASSUME NEW c \in Clients PROVE ConnectionInv(c)'
  <2>1. ConnectionInv(c) /\ (error'[c] => error[c])
    BY DEF NamesInv
  <2>2. New(c)' <=> New(c)
    BY DEF New
  <2>3. QED
    BY <2>1, <2>2, UnheardKept DEF ConnectionInv, Gone
<1>4. ASSUME NEW j \in Taken' PROVE UserInv(j, sock_fd[j])'
  <2>1. j \in Taken /\ UserInv(j, sock_fd[j])
    BY <1>1 DEF NamesInv
  <2>2. PICK e \in Clients : e = sock_fd[j]
    BY <2>1, SlotType
  <2>3. error'[e] => error[e]
    OBVIOUS
  <2>4. UserInv(j, e)'
    BY <1>2, <2>1, <2>2, <2>3, UnheardKept DEF UserInv
  <2>5. QED
    BY <1>1, <2>2, <2>4
<1>5. QED
  BY <1>3, <1>4 DEF NamesInv

LEMMA NamesMessage ==
  ASSUME TypeOK, TableInv, NamesInv, Message
  PROVE  NamesInv'
<1>1. PICK i \in Taken : i = Index
  BY Serving DEF Message
<1>2. PICK c \in Clients : c = sock_fd[i]
  BY <1>1, SlotType
<1>3. PICK last \in (taken[c] + 1)..sent[c] :
         /\ taken' = [taken EXCEPT ![c] = last]
         /\ buf' = Text(c, taken[c] + 1, last)
         /\ Deal(Index, buf', buf')
  BY <1>1, <1>2 DEF Message
<1>4. Deal(i, buf', buf')
  BY <1>1, <1>3
<1>5. /\ taken \in [Clients -> Nat] /\ sent \in [Clients -> Nat]
      /\ username \in [Slots -> Texts]
      /\ UNCHANGED <<client, sent, got, backlog, error, sock_fd>>
      /\ pc = "loop"
  BY DEF Message, clientVars, TypeOK
<1>6. last \in Nat /\ taken[c] \in Nat /\ last > taken[c] /\ last <= sent[c]
  BY <1>3, <1>5
<1>7. /\ buf' \notin {NULL, Junk}
      /\ buf'.of = c /\ buf'.first = taken[c] + 1 /\ buf'.last = last
  <2>1. taken[c] + 1 \in Nat
    BY <1>6
  <2>2. QED
    BY <1>3, <1>6, <2>1, NamedText
<1>8. ~New(c) /\ UserInv(i, c) /\ ConnectionInv(c)
  BY <1>2 DEF TableInv, NamesInv
<1>9. \A e \in Clients : e # c => (Unheard(e)' <=> Unheard(e)) /\ taken'[e] = taken[e]
  BY <1>3, <1>5, UnheardKept
<1>10. taken'[c] = last
  BY <1>3, <1>5
<1>11. ASSUME NEW e \in Clients PROVE ConnectionInv(e)'
  <2>1. ConnectionInv(e) /\ (New(e)' <=> New(e))
    BY <1>5 DEF NamesInv, New
  <2>2. CASE e = c
    BY <1>5, <1>6, <1>8, <1>10, <2>1, <2>2 DEF ConnectionInv, Gone
  <2>3. CASE e # c
    BY <1>5, <1>9, <2>1, <2>3 DEF ConnectionInv, Gone
  <2>4. QED
    BY <2>2, <2>3
<1>12. username[i] # Junk
  BY <1>6, <1>8 DEF UserInv
<1>13. username' = [username EXCEPT ![i] = IF username[i] = NULL THEN buf' ELSE @]
  BY <1>4, <1>5 DEF Deal
<1>14. ASSUME NEW j \in Taken' PROVE UserInv(j, sock_fd[j])'
  <2>1. j \in Taken /\ sock_fd'[j] = sock_fd[j]
    BY <1>5 DEF Taken
  <2>2. PICK e \in Clients : e = sock_fd[j]
    BY <2>1, SlotType
  <2>3. CASE j = i
    <3>1. username[i] = NULL => taken[c] = 0
      BY <1>8 DEF UserInv, Unheard
    <3>2. /\ username'[i] \notin {NULL, Junk}
          /\ username'[i].of = c /\ username'[i].first = 1
          /\ username'[i].last <= last
      <4>1. CASE username[i] = NULL
        <5>1. username'[i] = buf'
          BY <1>5, <1>13, <4>1, SlotType
        <5>2. QED
          BY <1>6, <1>7, <3>1, <4>1, <5>1
      <4>2. CASE username[i] # NULL
        <5>1. username'[i] = username[i]
          BY <1>5, <1>13, <4>2, SlotType
        <5>2. username[i] \in Texts
          BY <1>5, SlotType
        <5>3. QED
          BY <1>6, <1>8, <1>12, <4>2, <5>1, <5>2 DEF UserInv, Texts
      <4>3. QED
        BY <4>1, <4>2
    <3>3. QED
      BY <1>2, <1>10, <2>1, <2>3, <3>2 DEF UserInv
  <2>4. CASE j # i
    <3>1. UserInv(j, e) /\ username'[j] = username[j]
      BY <1>13, <2>1, <2>2, <2>4, SlotType DEF NamesInv
    <3>2. e # c
      BY <1>2, <2>1, <2>2, <2>4 DEF TableInv
    <3>3. UserInv(j, e)'
      BY <1>5, <1>9, <3>1, <3>2 DEF UserInv
    <3>4. QED
      BY <2>1, <2>2, <3>3
  <2>5. QED
    BY <2>3, <2>4
<1>15. ASSUME pc' = "write" PROVE MessageInv(sock_fd[sender])'
  <2>1. username[i] # NULL /\ sender' = i /\ username' = username
    BY <1>4, <1>5, <1>15 DEF Deal
  <2>2. username[i].last <= taken[c] /\ username[i].last \in Nat
    BY <1>5, <1>8, <1>12, <2>1, SlotType DEF UserInv, Texts
  <2>3. username[i].last < buf'.first /\ buf'.first <= buf'.last
    BY <1>6, <1>7, <2>2
  <2>4. MessageInv(c)'
    BY <1>7, <1>10, <1>12, <2>1, <2>3 DEF MessageInv
  <2>5. QED
    BY <1>2, <1>5, <2>1, <2>4
<1>16. QED
  BY <1>11, <1>14, <1>15 DEF NamesInv

LEMMA NamesReadFails ==
  ASSUME TypeOK, TableInv, NamesInv, ReadFails
  PROVE  NamesInv'
<1>1. PICK i \in Taken : i = Index
  BY Serving DEF ReadFails
<1>2. PICK c \in Clients : c = sock_fd[i]
  BY <1>1, SlotType
<1>3. /\ taken[c] = sent[c] /\ error[c]
      /\ error' = [error EXCEPT ![c] = FALSE]
      /\ error \in [Clients -> BOOLEAN]
      /\ Deal(Index, buf', Junk)
      /\ username \in [Slots -> Texts]
      /\ UNCHANGED <<client, sent, got, backlog, taken, sock_fd>>
      /\ pc = "loop"
  BY <1>1, <1>2 DEF ReadFails, clientVars, TypeOK
<1>4. Deal(i, buf', Junk)
  BY <1>1, <1>3
<1>5. UserInv(i, c) /\ ConnectionInv(c)
  BY <1>2 DEF NamesInv
<1>6. client[c] = "reset" /\ username[i] # Junk
  BY <1>3, <1>5 DEF UserInv, ConnectionInv
<1>7. username' = [username EXCEPT ![i] = IF username[i] = NULL THEN Junk ELSE @]
  BY <1>3, <1>4 DEF Deal
<1>8. ASSUME NEW e \in Clients PROVE ConnectionInv(e)'
  <2>1. ConnectionInv(e) /\ (New(e)' <=> New(e)) /\ (error'[e] => error[e])
    BY <1>3 DEF NamesInv, New
  <2>2. QED
    BY <1>3, <2>1, UnheardKept DEF ConnectionInv, Gone
<1>9. ASSUME NEW j \in Taken' PROVE UserInv(j, sock_fd[j])'
  <2>1. j \in Taken /\ sock_fd'[j] = sock_fd[j]
    BY <1>3 DEF Taken
  <2>2. PICK e \in Clients : e = sock_fd[j]
    BY <2>1, SlotType
  <2>3. UserInv(j, e)
    BY <2>1, <2>2 DEF NamesInv
  <2>4. error'[c] = FALSE /\ (error'[e] => error[e])
    BY <1>3
  <2>5. CASE username'[j] = username[j]
    <3>1. UserInv(j, e)'
      BY <1>3, <2>3, <2>4, <2>5, UnheardKept DEF UserInv
    <3>2. QED
      BY <2>1, <2>2, <3>1
  <2>6. CASE username'[j] # username[j]
    <3>1. j = i /\ username'[j] = Junk /\ e = c
      BY <1>2, <1>3, <1>7, <2>1, <2>2, <2>6, SlotType
    <3>2. UserInv(j, e)'
      BY <1>3, <1>6, <2>4, <3>1, NoText DEF UserInv
    <3>3. QED
      BY <2>1, <2>2, <3>2
  <2>7. QED
    BY <2>5, <2>6
<1>10. ASSUME pc' = "write" PROVE MessageInv(sock_fd[sender])'
  <2>1. username[i] # NULL /\ sender' = i /\ username' = username
    BY <1>3, <1>4, <1>10 DEF Deal
  <2>2. MessageInv(c)'
    BY <1>3, <1>6, <2>1 DEF MessageInv
  <2>3. QED
    BY <1>2, <1>3, <2>1, <2>2
<1>11. QED
  BY <1>8, <1>9, <1>10 DEF NamesInv

(* What Deliver does to what client d has been sent. *)
LEMMA Delivered ==
  ASSUME TypeOK, TableInv, Deliver
  PROVE  \E j \in rest, d \in Clients :
           /\ j \in Taken /\ sock_fd[j] = d /\ ~Gone(d)
           /\ UNCHANGED <<client, sent, backlog, taken, error, sock_fd, username, buf>>
           /\ \/ rest = {j} /\ pc' = "loop"
              \/ pc' = "write" /\ rest' = rest \ {j} /\ sender' = sender
           /\ \A e \in Clients \ {d} : got'[e] = got[e]
           /\ Len(got[d]) \in Nat
           /\ DOMAIN got[d] = 1..Len(got[d])
           /\ DOMAIN got'[d] = 1..(Len(got[d]) + 1)
           /\ \A k \in DOMAIN got[d] : got'[d][k] = got[d][k]
           /\ got'[d][Len(got[d]) + 1].name = username[sender]
           /\ got'[d][Len(got[d]) + 1].text = buf
           /\ Len(got'[d]) = Len(got[d]) + 1
<1>1. pc = "write"
  BY DEF Deliver
<1>2. PICK j \in rest, d \in Clients : j = Lowest(rest) /\ d = sock_fd[j] /\ j \in Taken
  BY <1>1, Writing
<1> DEFINE m == [name |-> username[sender], text |-> buf]
<1>3. /\ ~Gone(d)
      /\ got' = [got EXCEPT ![d] = Append(@, m)]
      /\ WriteNext(j)
      /\ UNCHANGED <<client, sent, backlog, taken, error, sock_fd, username, buf>>
  BY <1>2 DEF Deliver, clientVars, table
<1>4. got \in [Clients -> Seq(Messages)] /\ m \in Messages
  BY <1>1, Writing, SlotType DEF TypeOK, Messages
<1>5. m.name = username[sender] /\ m.text = buf
  OBVIOUS
<1> HIDE DEF m
<1>6. got'[d] = Append(got[d], m) /\ got[d] \in Seq(Messages)
  BY <1>3, <1>4
<1>7. /\ DOMAIN got'[d] = 1..(Len(got[d]) + 1)
      /\ \A k \in DOMAIN got[d] : got'[d][k] = got[d][k]
      /\ got'[d][Len(got[d]) + 1] = m
      /\ Len(got[d]) \in Nat
      /\ DOMAIN got[d] = 1..Len(got[d])
      /\ Len(got'[d]) = Len(got[d]) + 1
  BY <1>4, <1>6, AppendProperties
<1>8. \A e \in Clients \ {d} : got'[e] = got[e]
  BY <1>3, <1>4
<1>9. \/ rest = {j} /\ pc' = "loop"
      \/ pc' = "write" /\ rest' = rest \ {j} /\ sender' = sender
  BY <1>1, <1>3 DEF WriteNext, EndBroadcast
<1> WITNESS j \in rest, d \in Clients
<1>10. got'[d][Len(got[d]) + 1].name = username[sender] /\ got'[d][Len(got[d]) + 1].text = buf
  BY <1>5, <1>7
<1>11. QED
  BY <1>2, <1>3, <1>7, <1>8, <1>9, <1>10

(* Only what is sent under the name of c is heard of c. *)
LEMMA DeliveredHeard ==
  ASSUME NEW d \in Clients, NEW n \in Nat,
         \A e \in Clients \ {d} : got'[e] = got[e],
         DOMAIN got[d] = 1..n, DOMAIN got'[d] = 1..(n + 1),
         \A k \in DOMAIN got[d] : got'[d][k] = got[d][k]
  PROVE  \A c :
           /\ \A e \in Clients \ {d} : Heard(e, c)' = Heard(e, c)
           /\ got'[d][n + 1].name.of = c => Heard(d, c)' = Heard(d, c) \cup {n + 1}
           /\ got'[d][n + 1].name.of # c => Heard(d, c)' = Heard(d, c)
<1> TAKE c
<1>1. \A k : k \in DOMAIN got'[d] <=> k \in DOMAIN got[d] \/ k = n + 1
  OBVIOUS
<1>2. n + 1 \notin DOMAIN got[d]
  OBVIOUS
<1>3. \A e \in Clients \ {d} : Heard(e, c)' = Heard(e, c)
  BY DEF Heard
<1>4. got'[d][n + 1].name.of = c => Heard(d, c)' = Heard(d, c) \cup {n + 1}
  BY <1>1, <1>2 DEF Heard
<1>5. got'[d][n + 1].name.of # c => Heard(d, c)' = Heard(d, c)
  BY <1>1, <1>2 DEF Heard
<1>6. QED
  BY <1>3, <1>4, <1>5

LEMMA SenderNamed ==
  ASSUME TypeOK, TableInv, NamesInv, pc = "write"
  PROVE  /\ sender \in Taken
         /\ username[sender] \in Texts
         /\ username[sender].of = sock_fd[sender]
         /\ username[sender].first = 1
         /\ username[sender] # NULL
<1>1. sender \in Taken /\ sender \in Slots
  BY SlotType DEF TableInv
<1>2. UserInv(sender, sock_fd[sender]) /\ MessageInv(sock_fd[sender])
  BY <1>1 DEF NamesInv
<1>3. QED
  BY <1>1, <1>2 DEF UserInv, MessageInv, TypeOK

LEMMA NamesDeliver ==
  ASSUME TypeOK, TableInv, NamesInv, Deliver
  PROVE  NamesInv'
<1>0. pc = "write"
  BY DEF Deliver
<1>1. PICK j \in rest, d \in Clients :
           /\ j \in Taken /\ sock_fd[j] = d /\ ~Gone(d)
           /\ UNCHANGED <<client, sent, backlog, taken, error, sock_fd, username, buf>>
           /\ \/ rest = {j} /\ pc' = "loop"
              \/ pc' = "write" /\ rest' = rest \ {j} /\ sender' = sender
           /\ \A e \in Clients \ {d} : got'[e] = got[e]
           /\ Len(got[d]) \in Nat
           /\ DOMAIN got[d] = 1..Len(got[d])
           /\ DOMAIN got'[d] = 1..(Len(got[d]) + 1)
           /\ \A k \in DOMAIN got[d] : got'[d][k] = got[d][k]
           /\ got'[d][Len(got[d]) + 1].name = username[sender]
  BY Delivered
<1>2. PICK c \in Clients : c = sock_fd[sender]
  BY <1>0, SenderNamed, SlotType
<1>3. PICK n \in Nat : /\ n = Len(got[d])
                       /\ DOMAIN got[d] = 1..n /\ DOMAIN got'[d] = 1..(n + 1)
  BY <1>1
<1>4. got'[d][n + 1].name.of = c
  BY <1>0, <1>1, <1>2, <1>3, SenderNamed
<1>5. ASSUME NEW e \in Clients, NEW f \in Clients, f # c
      PROVE  Heard(e, f)' = Heard(e, f)
  <2>0. /\ \A g \in Clients \ {d} : got'[g] = got[g]
        /\ \A k \in DOMAIN got[d] : got'[d][k] = got[d][k]
    BY <1>1
  <2>1. /\ \A g \in Clients \ {d} : Heard(g, f)' = Heard(g, f)
        /\ got'[d][n + 1].name.of # f => Heard(d, f)' = Heard(d, f)
    BY <1>3, <2>0, DeliveredHeard
  <2>2. QED
    BY <1>4, <1>5, <2>1
<1>6. ASSUME NEW f \in Clients, f # c PROVE Unheard(f)' <=> Unheard(f)
  BY <1>1, <1>5, <1>6 DEF Unheard
<1>7. ASSUME NEW e \in Clients PROVE ConnectionInv(e)'
  <2>1. ConnectionInv(e) /\ (New(e)' <=> New(e)) /\ (Gone(e)' <=> Gone(e))
    BY <1>1 DEF NamesInv, New, Gone
  <2>2. New(e) => e # c
    BY <1>0, <1>2, SenderNamed DEF TableInv
  <2>3. New(e)' => Unheard(e)'
    BY <1>6, <2>1, <2>2 DEF ConnectionInv
  <2>4. New(e) \/ Gone(e) => e # d
    BY <1>1 DEF TableInv
  <2>5. New(e)' \/ Gone(e)' => got'[e] = <<>>
    BY <1>1, <2>1, <2>4 DEF ConnectionInv
  <2>6. QED
    BY <1>1, <2>1, <2>3, <2>5 DEF ConnectionInv
<1>8. ASSUME NEW i \in Taken' PROVE UserInv(i, sock_fd[i])'
  <2>1. i \in Taken
    BY <1>1 DEF Taken
  <2>2. PICK e \in Clients : e = sock_fd[i]
    BY <2>1, SlotType
  <2>3. UserInv(i, e)
    BY <2>1, <2>2 DEF NamesInv
  <2>4. username[i] = NULL => e # c
    BY <1>0, <1>2, <2>1, <2>2, SenderNamed DEF TableInv
  <2>5. username'[i] = NULL => Unheard(e)'
    BY <1>1, <1>6, <2>3, <2>4 DEF UserInv
  <2>6. UserInv(i, e)'
    BY <1>1, <2>3, <2>5 DEF UserInv
  <2>7. QED
    BY <1>1, <2>2, <2>6
<1>9. ASSUME pc' = "write" PROVE MessageInv(sock_fd[sender])'
  <2>1. MessageInv(c) /\ sender' = sender
    BY <1>0, <1>1, <1>2, <1>9 DEF NamesInv
  <2>2. MessageInv(c)'
    BY <1>1, <2>1 DEF MessageInv
  <2>3. QED
    BY <1>1, <1>2, <2>1, <2>2
<1>10. QED
  BY <1>7, <1>8, <1>9 DEF NamesInv

LEMMA NamesStep ==
  ASSUME TypeOK, TableInv, NamesInv, [Next]_vars
  PROVE  NamesInv'
<1>1. ASSUME NEW c \in Clients, Client(c) PROVE NamesInv'
  BY <1>1, NamesConnect, NamesWrites, NamesCloses DEF Client
<1>2. CASE Select \/ TableFull \/ AcceptFails
  BY <1>2, NamesQuiet DEF Select, TableFull, AcceptFails, clientVars, table
<1>3. CASE Accept
  BY <1>3, NamesAccept
<1>4. CASE Disconnected
  <2>1. /\ DropUser(Index) /\ Index \in Taken /\ pc' = "loop"
        /\ UNCHANGED <<client, sent, got, backlog, taken, error>>
    BY <1>4, Serving DEF Disconnected, clientVars
  <2>2. QED
    BY <2>1, NamesDrop
<1>5. CASE Message
  BY <1>5, NamesMessage
<1>6. CASE ReadFails
  BY <1>6, NamesReadFails
<1>7. CASE Deliver
  BY <1>7, NamesDeliver
<1>8. CASE WriteIsLost
  <2>1. /\ pc = "write" /\ WriteNext(Lowest(rest))
        /\ UNCHANGED <<client, sent, got, backlog, taken, error, sock_fd, username, buf>>
    BY <1>8 DEF WriteIsLost, clientVars, table
  <2>2. pc' = "loop" \/ sender' = sender
    BY <2>1 DEF WriteNext, EndBroadcast
  <2>3. QED
    BY <2>1, <2>2, NamesQuiet
<1>9. CASE WriteFails
  <2>1. PICK d \in Clients : d = sock_fd[Lowest(rest)]
    BY <1>9, Writing DEF WriteFails
  <2>2. /\ DropUser(sender) /\ sender \in Taken /\ pc' = "loop"
        /\ UNCHANGED <<client, sent, got, backlog, taken>>
        /\ error' = [error EXCEPT ![d] = FALSE]
    BY <1>9, <2>1, Writing DEF WriteFails, AfterFailure, EndBroadcast, clientVars
  <2>3. \A c \in Clients : error'[c] => error[c]
    BY <2>2 DEF TypeOK
  <2>4. QED
    BY <2>2, <2>3, NamesDrop
<1>10. CASE UNCHANGED vars
  BY <1>10, NamesQuiet DEF vars, clientVars, table
<1>11. QED
  BY <1>1, <1>2, <1>3, <1>4, <1>5, <1>6, <1>7, <1>8, <1>9, <1>10 DEF Next, Server

LEMMA InitNames == Init => NamesInv
<1> SUFFICES ASSUME Init PROVE NamesInv
  OBVIOUS
<1>1. Taken = {}
  BY DEF Init, Taken
<1>2. \A c, d \in Clients : Heard(d, c) = {}
  <2>1. DOMAIN <<>> = {}
    OBVIOUS
  <2>2. QED
    BY <2>1 DEF Init, Heard
<1>3. QED
  BY <1>1, <1>2 DEF Init, NamesInv, ConnectionInv, Unheard

-----------------------------------------------------------------------------
(* What is heard.                                                          *)

(* What user j has been sent of user i goes so far.                        *)
Covered(i, j) ==
  IF pc = "write" /\ sender = i /\ j \in rest THEN buf.first - 1
  ELSE taken[sock_fd[i]]

UpTo(i, j, c, d) ==
  \A k \in Heard(d, c) :
    IsLast(k, Heard(d, c)) => got[d][k].text.last = Covered(i, j)

EchoInv(i, c) ==
  /\ Heard(c, c) = {} => Covered(i, i) = username[i].last
  /\ Heard(c, c) # {} => Covered(i, i) > username[i].last
  /\ \A k \in Heard(c, c) :
       IsFirst(k, Heard(c, c)) => got[c][k].text.first = username[i].last + 1

NamesOnly(d) == \A k \in DOMAIN got[d] : got[d][k].name.of \in Clients

RelayInv ==
  /\ \A d \in Clients : ~Gone(d) => NamesOnly(d)
  /\ \A c, d \in Clients : client[c] # "reset" /\ ~Gone(d) => InOrder(d, c)
  /\ \A i, j \in Taken, c, d \in Clients :
       c = sock_fd[i] /\ d = sock_fd[j] /\ client[c] # "reset" /\ ~Gone(d)
       => UpTo(i, j, c, d)
  /\ \A i \in Taken, c \in Clients :
       c = sock_fd[i] /\ ~Gone(c) => EchoInv(i, c)

(* The invariant is kept by a step after which nobody who is still there   *)
(* has been sent anything, has another name, or is due anything else.      *)
LEMMA RelayKept ==
  ASSUME RelayInv,
         Taken' \subseteq Taken,
         \A i \in Taken' : sock_fd'[i] = sock_fd[i],
         \A c \in Clients : Gone(c) => Gone(c)',
         \A c \in Clients : client[c] = "reset" => client'[c] = "reset",
         \A c \in Clients : ~Gone(c)' => got'[c] = got[c],
         \A i \in Taken' : ~Gone(sock_fd[i])' => username'[i] = username[i],
         \A i, j \in Taken' :
           client'[sock_fd[i]] # "reset" /\ ~Gone(sock_fd[j])'
           => Covered(i, j)' = Covered(i, j)
  PROVE  RelayInv'
<1>1. ASSUME NEW c \in Clients, NEW d \in Clients, ~Gone(d)'
      PROVE  Heard(d, c)' = Heard(d, c) /\ got'[d] = got[d]
  BY <1>1 DEF Heard
<1>2. ASSUME NEW d \in Clients, ~Gone(d)' PROVE NamesOnly(d)'
  BY <1>1, <1>2 DEF RelayInv, NamesOnly
<1>3. ASSUME NEW c \in Clients, NEW d \in Clients, client'[c] # "reset", ~Gone(d)'
      PROVE  InOrder(d, c)'
  <2>1. InOrder(d, c)
    BY <1>3 DEF RelayInv
  <2>2. Heard(d, c)' = Heard(d, c) /\ got'[d] = got[d]
    BY <1>1, <1>3
  <2>3. QED
    BY <2>1, <2>2 DEF InOrder, IsLast
<1>4. ASSUME NEW i \in Taken', NEW j \in Taken', NEW c \in Clients, NEW d \in Clients,
             c = sock_fd'[i], d = sock_fd'[j], client'[c] # "reset", ~Gone(d)'
      PROVE  UpTo(i, j, c, d)'
  <2>1. i \in Taken /\ j \in Taken /\ c = sock_fd[i] /\ d = sock_fd[j]
    BY <1>4
  <2>2. UpTo(i, j, c, d)
    BY <1>4, <2>1 DEF RelayInv
  <2>3. Covered(i, j)' = Covered(i, j)
    <3>1. sock_fd'[i] = sock_fd[i] /\ sock_fd'[j] = sock_fd[j]
      OBVIOUS
    <3>2. ~Gone(sock_fd[j])'
      BY <1>4, <3>1
    <3>3. QED
      BY <1>4, <2>1, <3>2
  <2>4. Heard(d, c)' = Heard(d, c) /\ got'[d] = got[d]
    BY <1>1, <1>4
  <2>5. QED
    BY <2>2, <2>3, <2>4 DEF UpTo, IsLast
<1>5. ASSUME NEW i \in Taken', NEW c \in Clients, c = sock_fd'[i], ~Gone(c)'
      PROVE  EchoInv(i, c)'
  <2>1. i \in Taken /\ c = sock_fd[i] /\ sock_fd'[i] = sock_fd[i]
    BY <1>5
  <2>2. EchoInv(i, c)
    BY <1>5, <2>1 DEF RelayInv
  <2>3. ~Gone(sock_fd[i])'
    BY <1>5, <2>1
  <2>4. client'[c] # "reset"
    BY <1>5 DEF Gone
  <2>5. Covered(i, i)' = Covered(i, i) /\ username'[i] = username[i]
    BY <2>1, <2>3, <2>4
  <2>6. Heard(c, c)' = Heard(c, c) /\ got'[c] = got[c]
    BY <1>1, <1>5
  <2>7. QED
    BY <2>2, <2>5, <2>6 DEF EchoInv, IsFirst
<1>6. QED
  BY <1>2, <1>3, <1>4, <1>5 DEF RelayInv

LEMMA RelayAccept ==
  ASSUME TypeOK, TableInv, NamesInv, RelayInv, Accept
  PROVE  RelayInv'
<1>0. PICK n \in Slots, e \in Clients : n = FreeSlot /\ e = Head(backlog)
  BY Accepting DEF Accept
<1>1. /\ Taken' = Taken \cup {n} /\ n \notin Taken
      /\ \A i \in Taken : sock_fd'[i] = sock_fd[i]
      /\ sock_fd'[n] = e
  BY <1>0, AcceptStep, Accepting DEF Accept
<1>2. New(e)
  <2>1. backlog # <<>>
    BY Accepting DEF Accept
  <2>2. 1 \in DOMAIN backlog /\ e = backlog[1]
    BY <1>0, <2>1, EmptySeq DEF TypeOK
  <2>3. QED
    BY <2>2 DEF New
<1>3. /\ username' = [username EXCEPT ![n] = NULL]
      /\ username \in [Slots -> Texts]
      /\ UNCHANGED <<client, got, taken>>
      /\ pc = "accept" /\ pc' = "loop"
  BY <1>0 DEF Accept, NewName, clientVars, TypeOK
<1>4. \A c, d : Heard(d, c)' = Heard(d, c) /\ (Gone(d)' <=> Gone(d))
  BY <1>3 DEF Heard, Gone
<1>5. \A d \in Clients : Heard(d, e) = {} /\ Heard(e, d) = {} /\ taken[e] = 0
  <2>1. ConnectionInv(e)
    BY DEF NamesInv
  <2>2. Unheard(e) /\ got[e] = <<>>
    BY <1>2, <2>1 DEF ConnectionInv
  <2>3. DOMAIN <<>> = {}
    OBVIOUS
  <2>4. QED
    BY <2>2, <2>3 DEF Unheard, Heard
<1>6. \A i, j \in Taken : Covered(i, j)' = Covered(i, j)
  BY <1>1, <1>3 DEF Covered
<1>7. ASSUME NEW d \in Clients, ~Gone(d)' PROVE NamesOnly(d)'
  BY <1>3, <1>4, <1>7 DEF RelayInv, NamesOnly
<1>8. ASSUME NEW c \in Clients, NEW d \in Clients, client'[c] # "reset", ~Gone(d)'
      PROVE  InOrder(d, c)'
  BY <1>3, <1>4, <1>8 DEF RelayInv, InOrder, IsLast
<1>9. ASSUME NEW i \in Taken', NEW j \in Taken', NEW c \in Clients, NEW d \in Clients,
             c = sock_fd'[i], d = sock_fd'[j], client'[c] # "reset", ~Gone(d)'
      PROVE  UpTo(i, j, c, d)'
  <2>1. CASE i = n \/ j = n
    <3>1. Heard(d, c)' = {}
      BY <1>1, <1>4, <1>5, <1>9, <2>1
    <3>2. QED
      BY <3>1 DEF UpTo
  <2>2. CASE i # n /\ j # n
    <3>1. i \in Taken /\ j \in Taken /\ c = sock_fd[i] /\ d = sock_fd[j]
      BY <1>1, <1>9, <2>2
    <3>2. UpTo(i, j, c, d) /\ Covered(i, j)' = Covered(i, j)
      BY <1>3, <1>4, <1>6, <1>9, <3>1 DEF RelayInv
    <3>3. QED
      BY <1>3, <1>4, <3>2 DEF UpTo, IsLast
  <2>3. QED
    BY <2>1, <2>2
<1>10. ASSUME NEW i \in Taken', NEW c \in Clients, c = sock_fd'[i], ~Gone(c)'
       PROVE  EchoInv(i, c)'
  <2>1. CASE i = n
    <3>1. c = e /\ Heard(c, c)' = {} /\ username'[n] = NULL
      BY <1>1, <1>3, <1>4, <1>5, <1>10, <2>1
    <3>2. Covered(n, n)' = 0
      BY <1>1, <1>3, <1>5 DEF Covered
    <3>3. NULL.last = 0
      BY DEF NULL, Text
    <3>4. QED
      BY <2>1, <3>1, <3>2, <3>3 DEF EchoInv
  <2>2. CASE i # n
    <3>1. i \in Taken /\ c = sock_fd[i]
      BY <1>1, <1>10, <2>2
    <3>2. EchoInv(i, c) /\ Covered(i, i)' = Covered(i, i) /\ username'[i] = username[i]
      BY <1>3, <1>4, <1>6, <1>10, <2>2, <3>1, SlotType DEF RelayInv
    <3>3. QED
      BY <1>3, <1>4, <3>2 DEF EchoInv, IsFirst
  <2>3. QED
    BY <2>1, <2>2
<1>11. QED
  BY <1>7, <1>8, <1>9, <1>10 DEF RelayInv

LEMMA RelayMessage ==
  ASSUME TypeOK, TableInv, NamesInv, RelayInv, Message
  PROVE  RelayInv'
<1>1. PICK n \in Taken : n = Index
  BY Serving DEF Message
<1>2. PICK e \in Clients : e = sock_fd[n]
  BY <1>1, SlotType
<1>3. PICK last \in (taken[e] + 1)..sent[e] :
         /\ taken' = [taken EXCEPT ![e] = last]
         /\ buf' = Text(e, taken[e] + 1, last)
         /\ Deal(Index, buf', buf')
  BY <1>1, <1>2 DEF Message
<1>4. Deal(n, buf', buf')
  BY <1>1, <1>3
<1>5. /\ taken \in [Clients -> Nat] /\ sent \in [Clients -> Nat]
      /\ username \in [Slots -> Texts]
      /\ UNCHANGED <<client, got, sock_fd>>
      /\ pc = "loop"
  BY DEF Message, clientVars, TypeOK
<1>6. last \in Nat /\ taken[e] \in Nat /\ last > taken[e] /\ taken[e] + 1 \in Nat
  BY <1>3, <1>5
<1>7. /\ buf'.first = taken[e] + 1 /\ buf'.last = last
  BY <1>3, <1>6, NamedText
<1>8. UserInv(n, e)
  BY <1>2 DEF NamesInv
<1>9. \A c, d : Heard(d, c)' = Heard(d, c) /\ (Gone(d)' <=> Gone(d))
  BY <1>5 DEF Heard, Gone
<1>10. Taken' = Taken
  BY <1>5 DEF Taken
<1>11. ASSUME NEW i \in Taken, NEW j \in Taken, i # n \/ username[n] # NULL
       PROVE  Covered(i, j)' = Covered(i, j)
  <2>1. Covered(i, j) = taken[sock_fd[i]]
    BY <1>5 DEF Covered
  <2>2. CASE i # n
    <3>1. sock_fd[i] # e
      BY <1>2, <2>2 DEF TableInv
    <3>2. taken'[sock_fd[i]] = taken[sock_fd[i]]
      BY <1>3, <1>5, <3>1
    <3>3. pc' = "write" => sender' = n
      BY <1>4, <1>5 DEF Deal
    <3>4. QED
      BY <1>5, <2>1, <2>2, <3>2, <3>3 DEF Covered
  <2>3. CASE i = n /\ username[n] # NULL
    <3>1. pc' = "write" /\ sender' = n /\ j \in rest'
      BY <1>4, <2>3 DEF Deal
    <3>2. Covered(i, j)' = buf'.first - 1
      BY <2>3, <3>1 DEF Covered
    <3>3. QED
      BY <1>2, <1>6, <1>7, <2>1, <2>3, <3>2
  <2>4. QED
    BY <1>11, <2>2, <2>3
<1>12. ASSUME username[n] = NULL
       PROVE  /\ \A d \in Clients : Heard(d, e) = {}
              /\ username' = [username EXCEPT ![n] = buf']
              /\ Covered(n, n)' = last
  <2>1. Unheard(e)
    BY <1>8, <1>12 DEF UserInv
  <2>2. username' = [username EXCEPT ![n] = buf'] /\ pc' = "loop"
    BY <1>4, <1>5, <1>12 DEF Deal
  <2>3. taken'[e] = last /\ sock_fd'[n] = e
    BY <1>2, <1>3, <1>5
  <2>4. Covered(n, n)' = last
    BY <2>2, <2>3 DEF Covered
  <2>5. QED
    BY <2>1, <2>2, <2>4 DEF Unheard
<1>13. ASSUME NEW i \in Taken, i # n \/ username[n] # NULL
       PROVE  username'[i] = username[i]
  BY <1>4, <1>5, <1>13, SlotType DEF Deal
<1>14. ASSUME NEW d \in Clients, ~Gone(d)' PROVE NamesOnly(d)'
  BY <1>5, <1>9, <1>14 DEF RelayInv, NamesOnly
<1>15. ASSUME NEW c \in Clients, NEW d \in Clients, client'[c] # "reset", ~Gone(d)'
       PROVE  InOrder(d, c)'
  BY <1>5, <1>9, <1>15 DEF RelayInv, InOrder, IsLast
<1>16. ASSUME NEW i \in Taken', NEW j \in Taken', NEW c \in Clients, NEW d \in Clients,
              c = sock_fd'[i], d = sock_fd'[j], client'[c] # "reset", ~Gone(d)'
       PROVE  UpTo(i, j, c, d)'
  <2>1. i \in Taken /\ j \in Taken /\ c = sock_fd[i] /\ d = sock_fd[j]
    BY <1>5, <1>10, <1>16
  <2>2. CASE i = n /\ username[n] = NULL
    <3>1. Heard(d, c)' = {}
      BY <1>2, <1>9, <1>12, <2>1, <2>2
    <3>2. QED
      BY <3>1 DEF UpTo
  <2>3. CASE i # n \/ username[n] # NULL
    <3>1. UpTo(i, j, c, d) /\ Covered(i, j)' = Covered(i, j)
      BY <1>5, <1>9, <1>11, <1>16, <2>1, <2>3 DEF RelayInv
    <3>2. QED
      BY <1>5, <1>9, <3>1 DEF UpTo, IsLast
  <2>4. QED
    BY <2>2, <2>3
<1>17. ASSUME NEW i \in Taken', NEW c \in Clients, c = sock_fd'[i], ~Gone(c)'
       PROVE  EchoInv(i, c)'
  <2>1. i \in Taken /\ c = sock_fd[i]
    BY <1>5, <1>10, <1>17
  <2>2. CASE i = n /\ username[n] = NULL
    <3>1. Heard(c, c)' = {}
      BY <1>2, <1>9, <1>12, <2>1, <2>2
    <3>2. username'[n] = buf'
      BY <1>5, <1>12, <2>2, SlotType
    <3>3. QED
      BY <1>7, <1>12, <2>2, <3>1, <3>2 DEF EchoInv
  <2>3. CASE i # n \/ username[n] # NULL
    <3>1. EchoInv(i, c) /\ Covered(i, i)' = Covered(i, i) /\ username'[i] = username[i]
      BY <1>9, <1>11, <1>13, <1>17, <2>1, <2>3 DEF RelayInv
    <3>2. QED
      BY <1>5, <1>9, <3>1 DEF EchoInv, IsFirst
  <2>4. QED
    BY <2>2, <2>3
<1>18. QED
  BY <1>14, <1>15, <1>16, <1>17 DEF RelayInv

LEMMA RelayDeliver ==
  ASSUME TypeOK, TableInv, NamesInv, RelayInv, Deliver
  PROVE  RelayInv'
<1>0. pc = "write"
  BY DEF Deliver
<1>1. PICK m \in rest, e \in Clients :
           /\ m \in Taken /\ sock_fd[m] = e /\ ~Gone(e)
           /\ UNCHANGED <<client, sent, backlog, taken, error, sock_fd, username, buf>>
           /\ \/ rest = {m} /\ pc' = "loop"
              \/ pc' = "write" /\ rest' = rest \ {m} /\ sender' = sender
           /\ \A d \in Clients \ {e} : got'[d] = got[d]
           /\ Len(got[e]) \in Nat
           /\ DOMAIN got[e] = 1..Len(got[e])
           /\ DOMAIN got'[e] = 1..(Len(got[e]) + 1)
           /\ \A k \in DOMAIN got[e] : got'[e][k] = got[e][k]
           /\ got'[e][Len(got[e]) + 1].name = username[sender]
           /\ got'[e][Len(got[e]) + 1].text = buf
  BY Delivered
<1>2. PICK s \in Taken, f \in Clients : s = sender /\ f = sock_fd[s]
  BY <1>0, SenderNamed, SlotType
<1>3. PICK n \in Nat : /\ DOMAIN got[e] = 1..n /\ DOMAIN got'[e] = 1..(n + 1)
                       /\ got'[e][n + 1].name = username[s]
                       /\ got'[e][n + 1].text = buf
  BY <1>1, <1>2
<1>4. /\ username[s].of = f /\ username[s].first = 1
      /\ username[s] \in Texts /\ buf \in Texts
      /\ username[s].last \in Nat /\ buf.first \in Nat /\ buf.last \in Nat
  BY <1>0, <1>2, SenderNamed DEF TypeOK, Texts
<1>5. client[f] # "reset" => /\ buf.of = f
                             /\ username[s].last < buf.first
                             /\ buf.first <= buf.last
                             /\ buf.last = taken[f]
  BY <1>0, <1>2 DEF NamesInv, MessageInv
<1>6. ASSUME NEW c \in Clients, NEW d \in Clients, d # e
      PROVE  Heard(d, c)' = Heard(d, c) /\ got'[d] = got[d]
  BY <1>1, <1>6 DEF Heard
<1>7. ASSUME NEW c \in Clients
      PROVE  /\ c # f => Heard(e, c)' = Heard(e, c)
             /\ Heard(e, f)' = Heard(e, f) \cup {n + 1}
             /\ Heard(e, c) \subseteq 1..n
  <2>1. /\ \A d \in Clients \ {e} : got'[d] = got[d]
        /\ \A k \in DOMAIN got[e] : got'[e][k] = got[e][k]
    BY <1>1
  <2>2. DOMAIN got[e] = 1..n /\ DOMAIN got'[e] = 1..(n + 1)
    BY <1>3
  <2>3. got'[e][n + 1].name.of = f => Heard(e, f)' = Heard(e, f) \cup {n + 1}
    BY <2>1, <2>2, DeliveredHeard
  <2>4. got'[e][n + 1].name.of # c => Heard(e, c)' = Heard(e, c)
    BY <2>1, <2>2, DeliveredHeard
  <2>5. got'[e][n + 1].name.of = f
    BY <1>3, <1>4
  <2>6. QED
    BY <2>2, <2>3, <2>4, <2>5 DEF Heard
<1>8. \A d : Gone(d)' <=> Gone(d)
  BY <1>1 DEF Gone
<1>9. Taken' = Taken
  BY <1>1 DEF Taken
<1>10. \A k \in 1..n : got'[e][k] = got[e][k]
  BY <1>1, <1>3
<1>11. Covered(s, m) = buf.first - 1
  BY <1>0, <1>2 DEF Covered
<1>12. Covered(s, m)' = taken[f]
  BY <1>1, <1>2 DEF Covered
<1>13. ASSUME NEW i \in Taken, NEW j \in Taken, i # s \/ j # m
       PROVE  Covered(i, j)' = Covered(i, j)
  BY <1>0, <1>1, <1>2, <1>13 DEF Covered
<1>14. ASSUME NEW d \in Clients, ~Gone(d)' PROVE NamesOnly(d)'
  <2>1. NamesOnly(d)
    BY <1>8, <1>14 DEF RelayInv
  <2>2. CASE d = e
    <3>1. \A k \in DOMAIN got'[e] : k \in 1..n \/ k = n + 1
      BY <1>3
    <3>2. QED
      BY <1>3, <1>4, <1>10, <2>1, <2>2, <3>1 DEF NamesOnly
  <2>3. CASE d # e
    BY <1>6, <2>1, <2>3 DEF NamesOnly
  <2>4. QED
    BY <2>2, <2>3
<1>15. ASSUME NEW c \in Clients, NEW d \in Clients, client'[c] # "reset", ~Gone(d)'
       PROVE  InOrder(d, c)'
  <2>1. InOrder(d, c)
    BY <1>1, <1>8, <1>15 DEF RelayInv
  <2>2. CASE d # e
    BY <1>6, <2>1, <2>2 DEF InOrder, IsLast
  <2>3. CASE d = e /\ c # f
    <3>1. Heard(e, c)' = Heard(e, c) /\ Heard(e, c) \subseteq 1..n
      BY <1>7, <2>3
    <3>2. ASSUME NEW k \in Heard(e, c), NEW j \in DOMAIN got'[e],
                 IsLast(j, Heard(e, c) \cap 1..(k - 1))
          PROVE  j \in 1..n
      BY <3>1, <3>2 DEF IsLast
    <3>3. QED
      BY <1>3, <1>10, <2>1, <2>3, <3>1, <3>2 DEF InOrder, IsLast
  <2>4. CASE d = e /\ c = f
    <3>1. Heard(e, f)' = Heard(e, f) \cup {n + 1} /\ Heard(e, f) \subseteq 1..n
      BY <1>7
    <3>2. client[f] # "reset"
      BY <1>1, <1>15, <2>4
    <3>3. \A k \in 1..n : Heard(e, f)' \cap 1..(k - 1) = Heard(e, f) \cap 1..(k - 1)
      BY <3>1
    <3>4. Heard(e, f)' \cap 1..(n + 1 - 1) = Heard(e, f)
      BY <3>1
    <3>5. ASSUME NEW j \in DOMAIN got'[e], IsLast(j, Heard(e, f))
          PROVE  buf.first = got'[e][j].text.last + 1
      <4>1. UpTo(s, m, f, e)
        BY <1>1, <1>2, <3>2 DEF RelayInv
      <4>2. j \in Heard(e, f) /\ got[e][j].text.last = buf.first - 1
        BY <1>11, <3>5, <4>1 DEF UpTo, IsLast
      <4>3. QED
        BY <1>4, <1>10, <3>1, <4>2
    <3>6. ASSUME NEW k \in Heard(e, f)'
          PROVE  /\ got'[e][k].name.first = 1
                 /\ got'[e][k].text.of = f
                 /\ got'[e][k].text.first > got'[e][k].name.last
                 /\ \A j \in DOMAIN got'[e] : IsLast(j, Heard(e, f)' \cap 1..(k - 1)) =>
                      got'[e][k].text.first = got'[e][j].text.last + 1
      <4>1. CASE k = n + 1
        <5>1. got'[e][k].name = username[s] /\ got'[e][k].text = buf
          BY <1>3, <4>1
        <5>2. Heard(e, f)' \cap 1..(k - 1) = Heard(e, f)
          BY <3>4, <4>1
        <5>3. buf.first > username[s].last
          BY <1>4, <1>5, <3>2
        <5>4. QED
          BY <1>4, <1>5, <3>2, <3>5, <5>1, <5>2, <5>3
      <4>2. CASE k \in Heard(e, f)
        <5>1. k \in 1..n /\ got'[e][k] = got[e][k]
          BY <1>10, <3>1, <4>2
        <5>2. Heard(e, f)' \cap 1..(k - 1) = Heard(e, f) \cap 1..(k - 1)
          BY <3>3, <5>1
        <5>3. ASSUME NEW j \in DOMAIN got'[e], IsLast(j, Heard(e, f) \cap 1..(k - 1))
              PROVE  j \in DOMAIN got[e] /\ got'[e][j] = got[e][j]
          BY <1>3, <1>10, <3>1, <5>3 DEF IsLast
        <5>4. /\ got[e][k].name.first = 1
              /\ got[e][k].text.of = f
              /\ got[e][k].text.first > got[e][k].name.last
              /\ \A j \in DOMAIN got[e] : IsLast(j, Heard(e, f) \cap 1..(k - 1)) =>
                   got[e][k].text.first = got[e][j].text.last + 1
          BY <2>1, <2>4, <4>2 DEF InOrder
        <5>5. QED
          BY <5>1, <5>2, <5>3, <5>4
      <4>3. QED
        BY <3>1, <4>1, <4>2
    <3>7. QED
      BY <2>4, <3>6 DEF InOrder, IsLast
  <2>5. QED
    BY <2>2, <2>3, <2>4
<1>16. ASSUME NEW i \in Taken', NEW j \in Taken', NEW c \in Clients, NEW d \in Clients,
              c = sock_fd'[i], d = sock_fd'[j], client'[c] # "reset", ~Gone(d)'
       PROVE  UpTo(i, j, c, d)'
  <2>1. i \in Taken /\ j \in Taken /\ c = sock_fd[i] /\ d = sock_fd[j]
    BY <1>1, <1>9, <1>16
  <2>2. UpTo(i, j, c, d)
    BY <1>1, <1>8, <1>16, <2>1 DEF RelayInv
  <2>3. CASE i = s /\ j = m
    <3>1. c = f /\ d = e
      BY <1>1, <1>2, <2>1, <2>3
    <3>2. \A k : IsLast(k, Heard(e, f)') => k = n + 1
      <4>1. Heard(e, f)' = Heard(e, f) \cup {n + 1} /\ Heard(e, f) \subseteq 1..n
        BY <1>7
      <4>2. QED
        BY <4>1 DEF IsLast
    <3>3. got'[e][n + 1].text.last = Covered(s, m)'
      BY <1>1, <1>3, <1>5, <1>12, <1>16, <3>1
    <3>4. QED
      BY <2>3, <3>1, <3>2, <3>3 DEF UpTo, IsLast
  <2>4. CASE i # s \/ j # m
    <3>1. Covered(i, j)' = Covered(i, j)
      BY <1>13, <2>1, <2>4
    <3>2. c # f \/ d # e
      BY <1>1, <1>2, <2>1, <2>4 DEF TableInv
    <3>3. Heard(d, c)' = Heard(d, c)
      BY <1>6, <1>7, <3>2
    <3>4. \A k \in Heard(d, c) : got'[d][k] = got[d][k]
      BY <1>6, <1>7, <1>10
    <3>5. QED
      BY <2>2, <3>1, <3>3, <3>4 DEF UpTo, IsLast
  <2>5. QED
    BY <2>3, <2>4
<1>17. ASSUME NEW i \in Taken', NEW c \in Clients, c = sock_fd'[i], ~Gone(c)'
       PROVE  EchoInv(i, c)'
  <2>1. i \in Taken /\ c = sock_fd[i] /\ username'[i] = username[i]
    BY <1>1, <1>9, <1>17
  <2>2. EchoInv(i, c)
    BY <1>8, <1>17, <2>1 DEF RelayInv
  <2>3. CASE i = s /\ i = m
    <3>1. c = e /\ c = f
      BY <1>1, <1>2, <2>1, <2>3
    <3>2. client[f] # "reset"
      BY <1>8, <1>17, <3>1 DEF Gone
    <3>3. Heard(c, c)' = Heard(c, c) \cup {n + 1} /\ Heard(c, c) \subseteq 1..n
      BY <1>7, <3>1
    <3>4. Covered(i, i)' > username'[i].last
      BY <1>4, <1>5, <1>12, <2>1, <2>3, <3>2
    <3>5. ASSUME NEW k \in Heard(c, c)', IsFirst(k, Heard(c, c)')
          PROVE  got'[c][k].text.first = username'[i].last + 1
      <4>1. CASE Heard(c, c) = {}
        <5>1. k = n + 1 /\ buf.first - 1 = username[i].last
          BY <1>11, <2>2, <2>3, <3>3, <4>1 DEF EchoInv
        <5>2. QED
          BY <1>3, <1>4, <2>1, <3>1, <5>1
      <4>2. CASE Heard(c, c) # {}
        <5>1. k \in Heard(c, c) /\ IsFirst(k, Heard(c, c))
          BY <3>3, <3>5, <4>2 DEF IsFirst
        <5>2. QED
          BY <1>10, <2>1, <2>2, <3>1, <3>3, <5>1 DEF EchoInv
      <4>3. QED
        BY <4>1, <4>2
    <3>6. QED
      BY <3>3, <3>4, <3>5 DEF EchoInv, IsFirst
  <2>4. CASE i # s \/ i # m
    <3>1. Covered(i, i)' = Covered(i, i)
      BY <1>13, <2>1, <2>4
    <3>2. c # f \/ c # e
      BY <1>1, <1>2, <2>1, <2>4 DEF TableInv
    <3>3. Heard(c, c)' = Heard(c, c)
      BY <1>6, <1>7, <3>2
    <3>4. \A k \in Heard(c, c) : got'[c][k] = got[c][k]
      BY <1>6, <1>7, <1>10
    <3>5. QED
      BY <2>1, <2>2, <3>1, <3>3, <3>4 DEF EchoInv, IsFirst
  <2>5. QED
    BY <2>3, <2>4
<1>18. QED
  BY <1>14, <1>15, <1>16, <1>17 DEF RelayInv

LEMMA RelayStep ==
  ASSUME TypeOK, TableInv, NamesInv, RelayInv, [Next]_vars
  PROVE  RelayInv'
<1>1. ASSUME UNCHANGED <<client, got, sock_fd, username, taken>>,
             pc' # "write", pc # "write"
      PROVE  RelayInv'
  <2>1. \A i, j : Covered(i, j)' = Covered(i, j)
    BY <1>1 DEF Covered
  <2>2. QED
    BY <1>1, <2>1, RelayKept DEF Taken, Gone
<1>2. ASSUME UNCHANGED <<sock_fd, username, taken, pc, sender, rest, buf>>,
             \A c \in Clients : Gone(c) => Gone(c)',
             \A c \in Clients : client[c] = "reset" => client'[c] = "reset",
             \A c \in Clients : ~Gone(c)' => got'[c] = got[c]
      PROVE  RelayInv'
  <2>1. \A i, j : Covered(i, j)' = Covered(i, j)
    BY <1>2 DEF Covered
  <2>2. QED
    BY <1>2, <2>1, RelayKept DEF Taken
<1>3. ASSUME NEW i \in Taken, DropUser(i), UNCHANGED <<client, got, backlog, taken>>,
             pc' = "loop", pc = "write" => i = sender
      PROVE  RelayInv'
  <2>1. Taken' = Taken \ {i} /\ \A j \in Taken' : sock_fd'[j] = sock_fd[j]
    BY <1>3, DropStep
  <2>2. username' = username
    BY <1>3 DEF DropUser
  <2>3. \A j, k \in Taken' : Covered(j, k)' = Covered(j, k)
    BY <1>3, <2>1 DEF Covered
  <2>4. QED
    BY <1>3, <2>1, <2>2, <2>3, RelayKept DEF Gone
<1>4. ASSUME NEW c \in Clients, Connect(c) \/ ClientWrites(c) \/ ClientCloses(c)
      PROVE  RelayInv'
  <2>1. /\ \A e \in Clients : client'[e] = client[e] \/ e = c
        /\ client[c] \notin {"closed", "reset"}
        /\ got' = got \/ (Gone(c)' /\ \A e \in Clients : e # c => got'[e] = got[e])
        /\ UNCHANGED <<sock_fd, username, taken, pc, sender, rest, buf>>
    BY <1>4 DEF Connect, ClientWrites, ClientCloses, TypeOK, table, Gone
  <2>2. QED
    BY <1>2, <2>1 DEF Gone
<1>5. CASE Select \/ TableFull \/ AcceptFails
  BY <1>1, <1>5 DEF Select, TableFull, AcceptFails, clientVars, table
<1>6. CASE Accept
  BY <1>6, RelayAccept
<1>7. CASE Disconnected
  <2>1. /\ DropUser(Index) /\ Index \in Taken /\ pc' = "loop" /\ pc = "loop"
        /\ UNCHANGED <<client, got, backlog, taken>>
    BY <1>7, Serving DEF Disconnected, clientVars
  <2>2. QED
    BY <1>3, <2>1
<1>8. CASE Message
  BY <1>8, RelayMessage
<1>9. CASE ReadFails
  <2>1. PICK n \in Taken, e \in Clients : n = Index /\ e = sock_fd[n]
    BY <1>9, Serving DEF ReadFails
  <2>2. /\ error[e] /\ Deal(n, buf', Junk)
        /\ UNCHANGED <<client, got, sock_fd, taken>> /\ pc = "loop"
    BY <1>9, <2>1 DEF ReadFails, clientVars
  <2>3. client[e] = "reset"
    BY <2>2 DEF NamesInv, ConnectionInv
  <2>4. \A i \in Taken : i # n => username'[i] = username[i]
    BY <2>2, SlotType DEF Deal, TypeOK
  <2>5. \A i \in Taken : ~Gone(sock_fd[i])' => username'[i] = username[i]
    BY <2>1, <2>2, <2>3, <2>4 DEF Gone
  <2>6. pc' = "write" => sender' = n
    BY <2>2 DEF Deal
  <2>7. \A i, j \in Taken : client'[sock_fd[i]] # "reset" => Covered(i, j)' = Covered(i, j)
    BY <2>1, <2>2, <2>3, <2>6 DEF Covered
  <2>8. Taken' = Taken /\ \A c : Gone(c)' <=> Gone(c)
    BY <2>2 DEF Taken, Gone
  <2>9. QED
    BY <2>2, <2>5, <2>7, <2>8, RelayKept
<1>10. CASE Deliver
  BY <1>10, RelayDeliver
<1>11. CASE WriteIsLost
  <2>1. pc = "write"
    BY <1>11 DEF WriteIsLost
  <2>2. PICK m \in rest : m = Lowest(rest) /\ m \in Taken
    BY <2>1, Writing
  <2>3. /\ client[sock_fd[m]] = "closed"
        /\ WriteNext(m)
        /\ UNCHANGED <<client, got, sock_fd, username, taken, buf>>
    BY <1>11, <2>2 DEF WriteIsLost, clientVars, table
  <2>4. \/ rest = {m} /\ pc' = "loop"
        \/ pc' = "write" /\ rest' = rest \ {m} /\ sender' = sender
    BY <2>1, <2>3 DEF WriteNext, EndBroadcast
  <2>5. Taken' = Taken /\ \A c : Gone(c)' <=> Gone(c)
    BY <2>3 DEF Taken, Gone
  <2>6. \A i, j \in Taken : ~Gone(sock_fd[j])' => Covered(i, j)' = Covered(i, j)
    <3>1. \A j \in Taken : ~Gone(sock_fd[j])' => j # m
      BY <2>3, <2>5 DEF Gone
    <3>2. \A i, j \in Taken : j # m => Covered(i, j)' = Covered(i, j)
      BY <2>1, <2>3, <2>4 DEF Covered
    <3>3. QED
      BY <3>1, <3>2
  <2>7. QED
    BY <2>3, <2>5, <2>6, RelayKept
<1>12. CASE WriteFails
  <2>1. /\ DropUser(sender) /\ sender \in Taken /\ pc' = "loop"
        /\ UNCHANGED <<client, got, backlog, taken>>
    BY <1>12, Writing DEF WriteFails, AfterFailure, EndBroadcast, clientVars
  <2>2. QED
    BY <1>3, <2>1
<1>13. CASE UNCHANGED vars
  BY <1>2, <1>13 DEF vars, clientVars, table, Gone
<1>14. QED
  BY <1>4, <1>5, <1>6, <1>7, <1>8, <1>9, <1>10, <1>11, <1>12, <1>13
  DEF Next, Server, Client

LEMMA InitRelay == Init => RelayInv
<1> SUFFICES ASSUME Init PROVE RelayInv
  OBVIOUS
<1>1. Taken = {}
  BY DEF Init, Taken
<1>2. \A d \in Clients : DOMAIN got[d] = {}
  <2>1. DOMAIN <<>> = {}
    OBVIOUS
  <2>2. QED
    BY <2>1 DEF Init
<1>3. QED
  BY <1>1, <1>2 DEF RelayInv, NamesOnly, InOrder, Heard

-----------------------------------------------------------------------------
(* Who hears what.                                                         *)

LEMMA SuffixAppend ==
  ASSUME NEW S, NEW s \in Seq(S), NEW t \in Seq(S), NEW m \in S, IsSuffix(s, t)
  PROVE  IsSuffix(Append(s, m), Append(t, m))
<1> DEFINE s1 == Append(s, m)
           t1 == Append(t, m)
<1>1. PICK n, k \in Nat : n = Len(s) /\ k = Len(t)
  OBVIOUS
<1>2. /\ n <= k /\ DOMAIN s = 1..n /\ DOMAIN t = 1..k
      /\ \A i \in 1..n : s[i] = t[k - n + i]
  <2>1. DOMAIN s = 1..n /\ DOMAIN t = 1..k
    BY <1>1
  <2>2. QED
    BY <1>1, <2>1 DEF IsSuffix
<1>3. /\ Len(s1) = n + 1 /\ Len(t1) = k + 1
      /\ DOMAIN s1 = 1..(n + 1)
      /\ \A i \in 1..n : s1[i] = s[i]
      /\ \A i \in 1..k : t1[i] = t[i]
      /\ s1[n + 1] = m /\ t1[k + 1] = m
  BY <1>1, AppendProperties
<1> HIDE DEF s1, t1
<1>4. ASSUME NEW i \in 1..(n + 1) PROVE s1[i] = t1[(k + 1) - (n + 1) + i]
  <2>1. CASE i = n + 1
    <3>1. (k + 1) - (n + 1) + i = k + 1
      BY <2>1
    <3>2. QED
      BY <1>3, <2>1, <3>1
  <2>2. CASE i \in 1..n
    <3>1. (k + 1) - (n + 1) + i = k - n + i /\ k - n + i \in 1..k
      BY <1>2, <2>2
    <3>2. QED
      BY <1>2, <1>3, <2>2, <3>1
  <2>3. QED
    BY <2>1, <2>2
<1>5. QED
  BY <1>2, <1>3, <1>4 DEF IsSuffix, s1, t1

LEMMA EmptySuffix ==
  ASSUME NEW S, NEW t \in Seq(S)
  PROVE  IsSuffix(<<>>, t)
<1>1. Len(<<>>) = 0 /\ DOMAIN <<>> = {} /\ Len(t) \in Nat
  OBVIOUS
<1>2. QED
  BY <1>1 DEF IsSuffix

Comparable(s, t) == IsSuffix(s, t) \/ IsSuffix(t, s)

(* What the user of slot i has been sent when the broadcast is over. *)
BeingSent == [name |-> username[sender], text |-> buf]
Full(i) ==
  IF pc = "write" /\ i \in rest THEN Append(got[sock_fd[i]], BeingSent)
  ELSE got[sock_fd[i]]

NobodyGone == \A c \in Clients : ~Gone(c)

SuffixInv == NobodyGone => \A i, j \in Taken : Comparable(Full(i), Full(j))

LEMMA SuffixStep ==
  ASSUME TypeOK, TableInv, NamesInv, SuffixInv, [Next]_vars
  PROVE  SuffixInv'
<1> SUFFICES ASSUME NobodyGone'
             PROVE  (\A i, j \in Taken : Comparable(Full(i), Full(j)))'
  BY DEF SuffixInv
<1>1. ASSUME NobodyGone,
             Taken' = Taken,
             \A i \in Taken : Full(i)' = Full(i)
      PROVE  (\A i, j \in Taken : Comparable(Full(i), Full(j)))'
  BY <1>1 DEF SuffixInv, Comparable
<1>2. NobodyGone
  <2>1. ASSUME NEW c \in Clients, Gone(c) PROVE Gone(c)'
    BY <2>1 DEF Gone, Next, Server, Client, Connect, ClientWrites, ClientCloses, Select,
      Accept, TableFull, AcceptFails, Disconnected, Message, ReadFails, Deliver,
      WriteIsLost, WriteFails, vars, clientVars, TypeOK
  <2>2. QED
    BY <2>1 DEF NobodyGone
<1>3. ASSUME NEW c \in Clients, Connect(c) \/ ClientWrites(c)
      PROVE  (\A i, j \in Taken : Comparable(Full(i), Full(j)))'
  <2>1. UNCHANGED <<got, sock_fd, username, pc, sender, rest, buf>>
    BY <1>3 DEF Connect, ClientWrites, table
  <2>2. QED
    BY <1>1, <1>2, <2>1 DEF Full, BeingSent, Taken
<1>4. ASSUME NEW c \in Clients, ClientCloses(c) PROVE FALSE
  BY <1>4 DEF ClientCloses, NobodyGone, Gone, TypeOK
<1>5. CASE Select \/ TableFull \/ AcceptFails
  <2>1. UNCHANGED <<got, sock_fd>> /\ pc # "write" /\ pc' # "write"
    BY <1>5 DEF Select, TableFull, AcceptFails, table
  <2>2. QED
    BY <1>1, <1>2, <2>1 DEF Full, Taken
<1>6. CASE Accept
  <2>1. PICK n \in Slots, e \in Clients : n = FreeSlot /\ e = Head(backlog)
    BY <1>6, Accepting DEF Accept
  <2>2. /\ Taken' = Taken \cup {n}
        /\ \A i \in Taken : sock_fd'[i] = sock_fd[i]
        /\ sock_fd'[n] = e
    BY <1>6, <2>1, AcceptStep
  <2>3. got[e] = <<>>
    <3>1. backlog # <<>>
      BY <1>6, Accepting DEF Accept
    <3>2. 1 \in DOMAIN backlog /\ e = backlog[1]
      BY <2>1, <3>1, EmptySeq DEF TypeOK
    <3>3. New(e)
      BY <3>2 DEF New
    <3>4. QED
      BY <3>3 DEF NamesInv, ConnectionInv
  <2>4. got' = got /\ pc = "accept" /\ pc' = "loop"
    BY <1>6 DEF Accept
  <2>5. \A i \in Taken : Full(i)' = Full(i) /\ Full(i) \in Seq(Messages)
    BY <2>2, <2>4, SlotType DEF Full, TypeOK
  <2>6. Full(n)' = <<>>
    BY <2>2, <2>3, <2>4 DEF Full
  <2>7. <<>> \in Seq(Messages)
    OBVIOUS
  <2>8. \A s \in Seq(Messages) : IsSuffix(<<>>, s)
    BY EmptySuffix
  <2>9. \A i, j \in Taken : Comparable(Full(i), Full(j))
    BY <1>2 DEF SuffixInv
  <2>10. ASSUME NEW i \in Taken', NEW j \in Taken' PROVE Comparable(Full(i)', Full(j)')
    <3>1. CASE i \in Taken /\ j \in Taken
      BY <2>5, <2>9, <3>1
    <3>2. CASE i = n
      BY <2>2, <2>5, <2>6, <2>7, <2>8, <3>2 DEF Comparable
    <3>3. CASE j = n
      BY <2>2, <2>5, <2>6, <2>7, <2>8, <3>3 DEF Comparable
    <3>4. QED
      BY <2>2, <3>1, <3>2, <3>3
  <2>11. QED
    BY <2>10 DEF Comparable, IsSuffix
<1>7. CASE Disconnected
  BY <1>2, <1>7, Serving DEF Disconnected, NobodyGone
<1>8. CASE ReadFails
  <2>1. PICK e \in Clients : e = sock_fd[Index]
    BY <1>8, Serving DEF ReadFails
  <2>2. error[e]
    BY <1>8, <2>1 DEF ReadFails
  <2>3. Gone(e)
    BY <2>2 DEF NamesInv, ConnectionInv, Gone
  <2>4. QED
    BY <1>2, <2>3 DEF NobodyGone
<1>9. CASE Message
  <2>1. PICK n \in Taken : n = Index
    BY <1>9, Serving DEF Message
  <2>2. Deal(n, buf', buf')
    BY <1>9, <2>1 DEF Message
  <2>3. UNCHANGED <<got, sock_fd>> /\ pc = "loop"
    BY <1>9 DEF Message
  <2>4. Taken' = Taken
    BY <2>3 DEF Taken
  <2>5. CASE username[n] = NULL
    <3>1. pc' = "loop"
      BY <2>2, <2>3, <2>5 DEF Deal
    <3>2. QED
      BY <1>1, <1>2, <2>3, <2>4, <3>1 DEF Full
  <2>6. CASE username[n] # NULL
    <3>1. pc' = "write" /\ rest' = Taken
      BY <2>2, <2>6 DEF Deal
    <3>2. PICK m : m = BeingSent'
      OBVIOUS
    <3>3. m \in Messages
      <4>1. TypeOK'
        BY TypeStep
      <4>2. sender' \in Slots
        BY <2>1, <2>2, <2>6, SlotType DEF Deal
      <4>3. username'[sender'] \in Texts /\ buf' \in Texts
        BY <4>1, <4>2 DEF TypeOK
      <4>4. QED
        BY <3>2, <4>3 DEF BeingSent, Messages
    <3>4. \A i \in Taken : Full(i) = got[sock_fd[i]] /\ Full(i) \in Seq(Messages)
      BY <2>3, SlotType DEF Full, TypeOK
    <3>5. \A i \in Taken : Full(i)' = Append(Full(i), m)
      BY <2>3, <3>1, <3>2, <3>4 DEF Full
    <3>6. \A i, j \in Taken : Comparable(Full(i), Full(j))
      BY <1>2 DEF SuffixInv
    <3>7. \A s, t \in Seq(Messages) :
            IsSuffix(s, t) => IsSuffix(Append(s, m), Append(t, m))
      BY <3>3, SuffixAppend
    <3>8. \A i, j \in Taken : Comparable(Full(i)', Full(j)')
      BY <3>4, <3>5, <3>6, <3>7 DEF Comparable
    <3>9. QED
      BY <2>4, <3>8 DEF Comparable, IsSuffix
  <2>7. QED
    BY <2>5, <2>6
<1>10. CASE Deliver
  <2>1. pc = "write"
    BY <1>10 DEF Deliver
  <2>2. PICK n \in rest, e \in Clients : n = Lowest(rest) /\ e = sock_fd[n] /\ n \in Taken
    BY <2>1, Writing
  <2>3. /\ got' = [got EXCEPT ![e] = Append(@, BeingSent)]
        /\ WriteNext(n)
        /\ UNCHANGED <<sock_fd, username, buf>>
    BY <1>10, <2>2 DEF Deliver, table, BeingSent
  <2>4. \/ rest = {n} /\ pc' = "loop"
        \/ pc' = "write" /\ rest' = rest \ {n} /\ sender' = sender
    BY <2>1, <2>3 DEF WriteNext, EndBroadcast
  <2>5. ASSUME NEW i \in Taken PROVE Full(i)' = Full(i)
    <3>1. CASE i = n
      <4>1. Full(n) = Append(got[e], BeingSent)
        BY <2>1, <2>2 DEF Full
      <4>2. got'[e] = Append(got[e], BeingSent)
        BY <2>3 DEF TypeOK
      <4>3. Full(n)' = got'[e]
        BY <2>2, <2>3, <2>4 DEF Full
      <4>4. QED
        BY <3>1, <4>1, <4>2, <4>3
    <3>2. CASE i # n
      <4>1. sock_fd[i] \in Clients /\ sock_fd[i] # e
        BY <2>2, <3>2, SlotType DEF TableInv
      <4>2. got'[sock_fd[i]] = got[sock_fd[i]]
        BY <2>3, <4>1 DEF TypeOK
      <4>3. QED
        BY <2>1, <2>3, <2>4, <3>2, <4>2 DEF Full, BeingSent
    <3>3. QED
      BY <3>1, <3>2
  <2>6. QED
    BY <1>1, <1>2, <2>3, <2>5 DEF Taken
<1>11. CASE WriteIsLost \/ WriteFails
  <2>1. pc = "write"
    BY <1>11 DEF WriteIsLost, WriteFails
  <2>2. Gone(sock_fd[Lowest(rest)])
    BY <1>11 DEF WriteIsLost, WriteFails, Gone
  <2>3. QED
    BY <1>2, <2>1, <2>2, Writing DEF NobodyGone
<1>12. CASE UNCHANGED vars
  <2>1. UNCHANGED <<got, sock_fd, username, pc, sender, rest, buf>>
    BY <1>12 DEF vars, table
  <2>2. QED
    BY <1>1, <1>2, <2>1 DEF Full, BeingSent, Taken
<1>13. QED
  BY <1>3, <1>4, <1>5, <1>6, <1>7, <1>8, <1>9, <1>10, <1>11, <1>12
  DEF Next, Server, Client

-----------------------------------------------------------------------------
(* The invariant, and the theorems.                                        *)

Inv == TypeOK /\ TableInv /\ NamesInv /\ RelayInv /\ SuffixInv

LEMMA Invariance == Spec => []Inv
<1>1. Init => Inv
  <2>1. Init => SuffixInv
    BY DEF Init, SuffixInv, Taken
  <2>2. QED
    BY <2>1, InitTable, InitNames, InitRelay DEF Inv
<1>2. Inv /\ [Next]_vars => Inv'
  BY TypeStep, TableStep, NamesStep, RelayStep, SuffixStep DEF Inv
<1>3. QED
  BY <1>1, <1>2, PTL DEF Spec

(* What anybody is sent under a client's name is what that client has      *)
(* written after its name, all of it in order from where the listener came *)
(* in, unless the client's connection is reset.                            *)
THEOREM Relaying == Spec => []Relayed
<1>1. Inv => Relayed
  <2> SUFFICES ASSUME Inv PROVE Relayed
    OBVIOUS
  <2>1. ASSUME NEW d \in Clients
        PROVE  NamesOnly(d) /\ \A c \in Clients : client[c] # "reset" => InOrder(d, c)
    <3>1. CASE Gone(d)
      <4>1. got[d] = <<>>
        BY <3>1 DEF Inv, NamesInv, ConnectionInv
      <4>2. DOMAIN got[d] = {}
        BY <4>1
      <4>3. QED
        BY <4>2 DEF NamesOnly, InOrder, Heard
    <3>2. CASE ~Gone(d)
      BY <3>2 DEF Inv, RelayInv
    <3>3. QED
      BY <3>1, <3>2
  <2>2. QED
    BY <2>1 DEF Relayed, NamesOnly
<1>2. QED
  BY Invariance, <1>1, PTL

(* As long as nobody has gone, between two broadcasts every user has been  *)
(* sent back all that it has written, and what two users have been sent    *)
(* is the same but for what came before the later one.                     *)
THEOREM Hearing == Spec => []AllHear
<1>1. Inv => AllHear
  <2> SUFFICES ASSUME Inv, pc # "write", NobodyGone
               PROVE  /\ \A i \in Taken : Echoed(i)
                      /\ \A c, d \in Fds : IsSuffix(got[c], got[d]) \/ IsSuffix(got[d], got[c])
    BY DEF AllHear, NobodyGone
  <2>1. ASSUME NEW i \in Taken PROVE Echoed(i)
    <3>1. PICK c \in Clients : c = sock_fd[i]
      BY SlotType DEF Inv
    <3>2. client[c] # "reset" /\ ~Gone(c)
      BY DEF NobodyGone, Gone
    <3>3. EchoInv(i, c) /\ UpTo(i, i, c, c)
      BY <3>1, <3>2 DEF Inv, RelayInv
    <3>4. Covered(i, i) = taken[c]
      BY <3>1 DEF Covered
    <3>5. taken[c] \in Nat /\ username[i].last \in Nat
      BY SlotType DEF Inv, TypeOK, Texts
    <3>6. CASE taken[c] = username[i].last
      BY <3>1, <3>3, <3>4, <3>5, <3>6 DEF EchoInv, Echoed
    <3>7. CASE taken[c] # username[i].last
      BY <3>1, <3>3, <3>4, <3>5, <3>7 DEF EchoInv, UpTo, Echoed
    <3>8. QED
      BY <3>6, <3>7
  <2>2. ASSUME NEW c \in Fds, NEW d \in Fds
        PROVE  IsSuffix(got[c], got[d]) \/ IsSuffix(got[d], got[c])
    <3>1. PICK i \in Taken, j \in Taken : c = sock_fd[i] /\ d = sock_fd[j]
      BY DEF Fds
    <3>2. Full(i) = got[c] /\ Full(j) = got[d]
      BY <3>1 DEF Full
    <3>3. QED
      BY <3>2 DEF Inv, SuffixInv, Comparable
  <2>3. QED
    BY <2>1, <2>2
<1>2. QED
  BY Invariance, <1>1, PTL
=============================================================================
