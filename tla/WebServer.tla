----------------------------- MODULE WebServer ------------------------------
\* What http_server.py does with a connection, and listen_to of
\* oe1_http_server.py.  Only an IOError is caught.
EXTENDS TcpServer

VARIABLE sent   \* how much of the answer was sent on each connection

Answer(file) == <<<<"200", 0>>>> \o [k \in 1..Length |-> <<file, k>>]
NotFound == <<<<"404", 0>>>>

TheGlobal(c) == connectionSocket

\* What listen_to calls connectionSocket is its own argument.
Socket(c) == c

\* recv(), split() and the reading of the file.
Receive(c) ==
  /\ Handling(c, "recv") /\ Readable(c)
  /\ \/ (RecvFails(c) \/ asked[c] = Missing) /\ Goes(c, "except")
     \/ asked[c] \in Page /\ Goes(c, "send")
     \/ /\ asked[c] \in {Nothing, Malformed, Binary} /\ ~RecvFails(c)
        /\ Uncaught(c)
  /\ UNCHANGED <<asked, got, backlog, program, connectionSocket, sent>>

Send(c) ==
  /\ Handling(c, "send")
  /\ \/ /\ sent[c] < Len(Answer(asked[c])) /\ SendFails(Socket(c))
        /\ Goes(c, "except") /\ UNCHANGED <<got, sent>>
     \/ /\ sent[c] < Len(Answer(asked[c])) /\ ~SendFails(Socket(c))
        /\ SentTo(Socket(c), <<Answer(asked[c])[sent[c] + 1]>>)
        /\ sent' = [sent EXCEPT ![c] = @ + 1]
        /\ UNCHANGED <<at, server, peer>>
     \/ /\ sent[c] = Len(Answer(asked[c]))
        /\ Goes(c, "closed") /\ UNCHANGED <<got, sent>>
  /\ UNCHANGED <<asked, backlog, program, connectionSocket>>

\* The except clause, and the close() after it.
AnswerNotFound(c) ==
  /\ Handling(c, "except")
  /\ IF SendFails(c) THEN Uncaught(c) /\ UNCHANGED got
                     ELSE Goes(c, "closed") /\ SentTo(c, NotFound)
  /\ UNCHANGED <<asked, backlog, program, connectionSocket, sent>>

WebHandler(c) == Receive(c) \/ Send(c) \/ AnswerNotFound(c)
=============================================================================
