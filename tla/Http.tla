-------------------------------- MODULE Http --------------------------------
\* The three HTTP programs, whichever of them runs, and what they promise to
\* the clients that connect to them.
EXTENDS WebServer, ProxyServer

httpVars == <<tcpVars, sent, proxyVars>>

HttpInit ==
  /\ TcpInit
  /\ sent = [c \in Client |-> 0]
  /\ ProxyInit

Handle(c) ==
  \/ program # "proxy_server" /\ WebHandler(c) /\ UNCHANGED proxyVars
  \/ program = "proxy_server" /\ ProxyHandler(c) /\ UNCHANGED sent

HttpNext ==
  \/ (ClientStep \/ Accept) /\ UNCHANGED <<sent, proxyVars>>
  \/ \E c \in Client : Handle(c)
  \/ (Interrupt \/ Restart) /\ UNCHANGED sent

Sending(c) == \/ at[c] = "send" /\ sent[c] < Len(Answer(asked[c]))
              \/ at[c] = "lines" /\ lines # << >>
              \/ at[c] = "reply" /\ resp # << >>

\* The handler is in a call without a time-out that may last for ever: recv()
\* from a client that says nothing, recv() from an origin, or send() to a
\* client that does not read.  A 404 is short and always finds room: nothing
\* was sent on the connection before it.
Waits(c) == \/ at[c] = "recv" /\ ~Readable(c)
            \/ at[c] = "reading"
            \/ Sending(c) /\ SendMayWait(c)

\* A program or thread that can go on does.  Clients, origins and whoever
\* starts the program again need not do anything.
Fairness ==
  /\ WF_httpVars(Accept /\ UNCHANGED <<sent, proxyVars>>)
  /\ \A c \in Client : WF_httpVars(Handle(c) /\ ~Waits(c))

HttpSpec == HttpInit /\ [][HttpNext]_httpVars

HttpFairSpec == HttpSpec /\ Fairness
-----------------------------------------------------------------------------
Char == (Page \cup {"200", "404"}) \X (0..Length)
Piece == [page : Page, fetch : 1..Fetches, piece : 1..Length, ends : Ends]

HttpTypeOK ==
  /\ peer \in [Client -> {"away", "here", "deaf", "left", "reset"}]
  /\ asked \in [Client -> Request \cup {Nothing}]
  /\ got \in [Client -> Seq(IF program = "proxy_server" THEN Piece ELSE Char)]
  /\ backlog \in Seq(Client)
  /\ program \in Program
  /\ server \in {"running", "ended"}
  /\ connectionSocket \in Client \cup {Nothing}
  /\ at \in [Client -> Busy \cup {"new", "closed", "aborted"}]
  /\ sent \in [Client -> 0..(Length + 1)]
  /\ resp \in Seq(Piece) /\ lines \in Seq(Piece) /\ stream \in Seq(Piece)
  /\ DOMAIN cache \subseteq Page
  /\ \A p \in DOMAIN cache : cache[p] \in Seq(Piece)
  /\ replies \in [Page -> SUBSET Seq(Piece)]
  /\ fetched \in 0..Fetches
  /\ restarted \in 0..Restarts

Served(c) == at[c] = "closed" /\ There(c)

\* A client that is still there when a web server closes its connection has
\* all of the file it asked for, or was told that it is missing, and nothing
\* of what is sent to others meanwhile; no failure in the middle of a file is
\* taken for a missing one.
AnswersAreRight ==
  program # "proxy_server" =>
    \A c \in Client : Served(c) =>
      IF asked[c] \in Page THEN got[c] = Answer(asked[c])
                           ELSE asked[c] = Missing /\ got[c] = NotFound

\* A client that is still there when the proxy closes its connection has been
\* sent one reply of the origin of its page, from the first piece to where
\* the origin stopped, or what such a reply becomes in the cache; nothing, if
\* the program was interrupted between opening the cache file and writing it.
\* It never gets the beginning from the cache and the rest from the origin,
\* though a failed send makes the proxy fetch the page again.
AnswersAreReplies ==
  program = "proxy_server" =>
    \A c \in Client : Served(c) =>
      /\ asked[c] \in Page
      /\ \/ \E r \in replies[asked[c]] : got[c] \in {r, FromCache(r)}
         \/ got[c] = << >> /\ restarted > 0

\* A page in the cache stays as it is, an error or a reply cut short too:
\* when a page is fetched again, because it could not be sent from the cache,
\* it cannot be sent either, and the program ends before it opens the file.
CacheOnlyGrows ==
  [][ \A p \in DOMAIN cache : cache[p] # << >> =>
        p \in DOMAIN cache' /\ cache'[p] = cache[p] ]_httpVars

\* The server with threads outlives every client; http_server.py ends only on
\* a request or a file it cannot read, or when a client leaves.
EndsOnlyForCause ==
  [][ server' = "ended" /\ server = "running" =>
        /\ program # "oe1_http_server"
        /\ program = "http_server" =>
             \E c \in Client : /\ at[c] \in Busy
                               /\ asked[c] \in {Malformed, Binary} \/ ~There(c) ]_httpVars

\* The connection is over for the client.  The socket of a thread that ended
\* is closed as soon as connectionSocket is another one.
Over(c) == \/ ~There(c)
           \/ at[c] = "closed"
           \/ (at[c] = "aborted" /\ connectionSocket # c)

\* A program without threads waits for anybody, and serves nobody else.
Blocked == ~threaded /\ \E c \in Client : Waits(c)

\* A client that has sent its request does not wait for ever, unless it does
\* not read what it is sent, or somebody else - a client that says nothing or
\* does not read, or an origin - holds a server that has no threads, or its
\* own thread ended and nobody came after it: main's connectionSocket then
\* keeps it waiting.
EveryoneIsAnswered ==
  \A c \in Client :
    \/ asked[c] # Nothing ~>
         (Over(c) \/ (at[c] = "aborted" /\ asked[c] \in {Malformed, Binary}))
    \/ <>[](Waits(c) \/ Blocked)
=============================================================================
