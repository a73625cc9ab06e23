----------------------------- MODULE TcpServer ------------------------------
(***************************************************************************)
(* What http_server.py, oe1_http_server.py and proxy_server.py share: they *)
(* listen on a TCP port, accept one connection after the other, and end,   *)
(* or their thread does, on an exception they do not catch.  A client of   *)
(* oe2_http_client.py connects, sends one request and reads until the      *)
(* connection is closed; any other may also send nothing, stop reading, or *)
(* leave at any time.  A client is one connection.                         *)
(***************************************************************************)
EXTENDS Integers, Sequences

CONSTANTS
  Client, Nothing,
  Page,        \* files that are there; pages whose origin can be found
  Binary,      \* a file that cannot be read as text
  Missing,     \* a file that is not there
  Malformed,   \* a request without a second word, or not in UTF-8
  Length       \* of a file: one character is sent at a time; of a page: the
               \* pieces its origin sends when nothing cuts it short

Request == Page \cup {Binary, Missing, Malformed}

VARIABLES
  peer,      \* "away", "here", "deaf" (the client asked and does not read),
             \* "left" (it closed the connection) or "reset" (nothing can be
             \* sent to it any more)
  asked,     \* what the client has sent: Nothing or a request
  got,       \* what was sent to it, piece by piece
  backlog,   \* the connections that wait to be accepted
  program,   \* which of the three programs runs
  server,    \* "running" or "ended"
  connectionSocket,   \* the connection accepted last
  at         \* how far the program is with each connection

ASSUME TcpAssumption ==
  /\ Nothing \notin Client \cup Request
  /\ Page \cap {Binary, Missing, Malformed} = {}
  /\ Malformed \notin {Binary, Missing} /\ Binary # Missing
  /\ Length \in Nat

clients == <<peer, asked, got, backlog>>
tcpVars == <<clients, program, server, connectionSocket, at>>

Program == {"http_server", "oe1_http_server", "proxy_server"}

Busy == {"recv", "send", "except",
         "lookup", "lines", "connect", "reading", "reply", "open", "write"}

TcpInit == /\ peer = [c \in Client |-> "away"]
           /\ asked = [c \in Client |-> Nothing]
           /\ got = [c \in Client |-> << >>]
           /\ backlog = << >>
           /\ program \in Program
           /\ server = "running"
           /\ connectionSocket = Nothing
           /\ at = [c \in Client |-> "new"]

Connect(c) == /\ server = "running" /\ peer[c] = "away"
              /\ peer' = [peer EXCEPT ![c] = "here"]
              /\ backlog' = Append(backlog, c)
              /\ UNCHANGED <<asked, got>>

Ask(c) == /\ peer[c] = "here" /\ asked[c] = Nothing
          /\ \E r \in Request : asked' = [asked EXCEPT ![c] = r]
          /\ UNCHANGED <<peer, got, backlog>>

\* The client does not read, or not all that it is sent: what does not find
\* room in the buffers of the connection stays with the program.
StopReading(c) == /\ peer[c] = "here" /\ asked[c] # Nothing
                  /\ peer' = [peer EXCEPT ![c] = "deaf"]
                  /\ UNCHANGED <<asked, got, backlog>>

There(c) == peer[c] \in {"here", "deaf"}

Leave(c) == /\ There(c)
            /\ peer' = [peer EXCEPT ![c] = "left"]
            /\ UNCHANGED <<asked, got, backlog>>

\* The client's host refuses what is sent to a connection it has closed.
Reset(c) == /\ peer[c] = "left"
            /\ peer' = [peer EXCEPT ![c] = "reset"]
            /\ UNCHANGED <<asked, got, backlog>>

ClientStep == /\ \E c \in Client : \/ Connect(c) \/ Ask(c) \/ StopReading(c)
                                 \/ Leave(c) \/ Reset(c)
              /\ UNCHANGED <<program, server, connectionSocket, at>>

\* Where recv() does not wait: it returns the request, or the empty message
\* of a client that left without one, or raises an exception.
Readable(c) == asked[c] # Nothing \/ ~There(c)
RecvFails(c) == asked[c] = Nothing /\ peer[c] = "reset"

SendFails(c) == peer[c] = "reset"

\* A send() of more than the buffers still take waits for the client, without
\* a time-out.  How much they take is left open: the send may also complete.
SendMayWait(c) == peer[c] = "deaf"

SentTo(c, pieces) == got' = [got EXCEPT ![c] = @ \o pieces]

threaded == program = "oe1_http_server"

\* Thread(...).run() in place of start().
OneAtATime == \A c \in Client : at[c] \notin Busy

MayAccept == threaded \/ \A c \in Client : at[c] \notin Busy

Accept == /\ server = "running" /\ backlog # << >>
          /\ MayAccept
          /\ connectionSocket' = Head(backlog)
          /\ backlog' = Tail(backlog)
          /\ at' = [at EXCEPT ![Head(backlog)] = "recv"]
          /\ UNCHANGED <<peer, asked, got, program, server>>

Handling(c, where) == server = "running" /\ at[c] = where

Goes(c, where) == /\ at' = [at EXCEPT ![c] = where]
                  /\ UNCHANGED <<peer, server>>

\* The system closes the sockets the program had open.
EndsTheProgram ==
  /\ server' = "ended"
  /\ at' = [d \in Client |-> IF at[d] \in Busy THEN "aborted" ELSE at[d]]
  /\ peer' = [d \in Client |-> IF peer[d] = "away" \/ at[d] = "closed"
                               THEN peer[d] ELSE "reset"]

ProgramEnds(c) == EndsTheProgram

\* An exception nobody catches.
Uncaught(c) == IF threaded THEN Goes(c, "aborted") ELSE EndsTheProgram
=============================================================================
