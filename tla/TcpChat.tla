------------------------------ MODULE TcpChat ------------------------------
(***************************************************************************)
(* ostep-projects/simpleTCP: the chat of TCPserver.c and TCPclient.c.  A   *)
(* message is MAX bytes in one write(), but TCP is a stream and read() may *)
(* return less than a message: a message travels as two halves, and a      *)
(* read() takes what is there up to the size of a message.                 *)
(***************************************************************************)
EXTENDS Integers, Sequences

CONSTANT MaxLines   \* bound: lines typed at either side

VARIABLES
  to_server, to_client,   \* halves in transit
  server, client,         \* where each process is
  connected,              \* accept() has returned a descriptor
  reset,                  \* the connection is reset: one side is gone
  lines                   \* lines typed so far at each side

chat == <<to_server, to_client, server, client, connected, reset, lines>>

MAX == 2   \* halves of a message
\* The halves of a message: the first one shows whether it begins with "exit".
message(line) == <<line, "rest">>
Lines == {"exit", "talk"}

ChatInit ==
  /\ to_server = <<>> /\ to_client = <<>>
  /\ server = "accept" /\ client = "type"
  /\ connected = FALSE /\ reset = FALSE
  /\ lines = [server |-> 0, client |-> 0]

\* A line of the user, from the prompt to the write().
Type(side) ==
  /\ lines[side] < MaxLines
  /\ lines' = [lines EXCEPT ![side] = @ + 1]

\* The first n halves of a stream, as many as one read() may return.
Takes(stream, n) == n \in 1 .. MAX /\ n <= Len(stream)
Rest(stream, n) == SubSeq(stream, n + 1, Len(stream))

Up(p) == p # "ended"

-----------------------------------------------------------------------------
(* TCPserver.c                                                             *)

\* When accept() fails the server says so and chats with nobody.
Accept ==
  /\ server = "accept"
  /\ connected' \in BOOLEAN
  /\ server' = "read"
  /\ UNCHANGED <<to_server, to_client, client, reset, lines>>

\* The result of read() is not looked at: with no connection, or after the
\* client's end, it returns at once and the buffer stays empty.
ServerRead ==
  /\ server = "read" /\ server' = "type"
  /\ \/ ~connected /\ UNCHANGED to_server
     \/ to_server = <<>> /\ ~Up(client) /\ UNCHANGED to_server
     \/ /\ connected
        /\ \E n \in 1 .. MAX : Takes(to_server, n) /\ to_server' = Rest(to_server, n)
  /\ UNCHANGED <<to_client, client, connected, reset, lines>>

\* What is typed is sent whole; "exit" breaks the loop.  A write to a client
\* that is gone goes nowhere and gets the connection reset.
ServerWrite ==
  /\ server = "type" /\ Type("server")
  /\ \E line \in Lines :
       /\ server' = IF line = "exit" THEN "exit" ELSE "read"
       /\ to_client' = IF connected /\ Up(client) THEN to_client \o message(line) ELSE to_client
  /\ reset' = (reset \/ (connected /\ ~Up(client)))
  /\ UNCHANGED <<to_server, client, connected>>

\* Once the connection is reset a write may raise SIGPIPE.
ServerBroken ==
  /\ server = "type" /\ Type("server")
  /\ connected /\ ~Up(client) /\ reset
  /\ server' = "ended"
  /\ UNCHANGED <<to_server, to_client, client, connected, reset>>

\* The end of the process, after "exit" or by an interrupt, closes the
\* connection.  If it has not read everything that resets it, and the peer may
\* lose what it has not read either.
ServerEnd ==
  /\ Up(server) /\ server' = "ended"
  /\ reset' = (reset \/ to_server # <<>>)
  /\ to_client' \in {to_client} \cup (IF to_server # <<>> THEN {<<>>} ELSE {})
  /\ UNCHANGED <<to_server, client, connected, lines>>

-----------------------------------------------------------------------------
(* TCPclient.c                                                             *)

\* What is typed is sent whole, an empty line too.
ClientWrite_skipped ==
  /\ client = "type" /\ Type("client") /\ client' = "read"
  /\ UNCHANGED <<to_server, to_client, server, connected, reset>>
ClientWrite ==
  /\ client = "type" /\ Type("client") /\ client' = "read"
  /\ \E line \in Lines :
       to_server' = IF Up(server) THEN to_server \o message(line) ELSE to_server
  /\ reset' = (reset \/ ~Up(server))
  /\ UNCHANGED <<to_client, server, connected>>

ClientBroken ==
  /\ client = "type" /\ Type("client")
  /\ ~Up(server) /\ reset
  /\ client' = "ended"
  /\ UNCHANGED <<to_server, to_client, server, connected, reset>>

\* Only "exit" at the start of what one read() returned breaks the loop.
ClientRead ==
  /\ client = "read"
  /\ \/ /\ to_client = <<>> /\ ~Up(server)
        /\ client' = "type" /\ UNCHANGED to_client
     \/ \E n \in 1 .. MAX :
          /\ Takes(to_client, n) /\ to_client' = Rest(to_client, n)
          /\ client' = IF to_client[1] = "exit" THEN "exit" ELSE "type"
  /\ UNCHANGED <<to_server, server, connected, reset, lines>>

ClientEnd ==
  /\ Up(client) /\ client' = "ended"
  /\ reset' = (reset \/ to_client # <<>>)
  /\ to_server' \in {to_server} \cup (IF to_client # <<>> THEN {<<>>} ELSE {})
  /\ UNCHANGED <<to_client, server, connected, lines>>

ChatNext ==
  \/ Accept \/ ServerRead \/ ServerWrite \/ ServerBroken \/ ServerEnd
  \/ ClientWrite \/ ClientBroken \/ ClientRead \/ ClientEnd

ChatSpec == ChatInit /\ [][ChatNext]_chat

-----------------------------------------------------------------------------
(* Property.                                                               *)

\* However the messages are cut into reads, and whichever side has ended, the
\* two sides never both wait in read(): the one that has read answers before
\* it reads again, and an answer to half a message is one too many, not one
\* too few.
NeverBothReading ==
  ~ /\ server = "read" /\ connected /\ to_server = <<>> /\ Up(client)
    /\ client = "read" /\ to_client = <<>> /\ Up(server)
=============================================================================
