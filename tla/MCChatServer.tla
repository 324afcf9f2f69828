---------------------------- MODULE MCChatServer ----------------------------
(* Values of the constants of ChatServer for model checking.                *)
EXTENDS ChatServer, TLC

CONSTANTS c1, c2, c3

(* A name and two messages, a name and a message, and a client that only    *)
(* listens; there is a slot less than there are clients.                    *)
MCUnits == c1 :> 3 @@ c2 :> 2 @@ c3 :> 0
=============================================================================
