---------------------------- MODULE ProxyServer -----------------------------
(***************************************************************************)
(* What proxy_server.py does with a connection: a page from its cache file *)
(* or, when there is none, from its origin.  The cache survives the        *)
(* program, which ends on any exception that is no IOError of the cache,   *)
(* and on Ctrl-C; there is no other way out of its loop.                   *)
(***************************************************************************)
EXTENDS TcpServer

CONSTANTS Fetches,   \* bound on the connections to origins, and
          Restarts   \* on how often the program is started again

ASSUME ProxyAssumption == Fetches \in Nat /\ Restarts \in Nat

VARIABLES
  resp,       \* what was read from the origin
  lines,      \* what is left to be sent of a cached page
  cache,      \* the cache files
  stream,     \* what the origin has sent on this connection
  replies,    \* what each origin ever sent until it closed
  fetched, restarted

originVars == <<resp, stream, replies, fetched>>
proxyVars == <<originVars, lines, cache, restarted>>

Ends == {"crlf", "lf", "binary"}

ProxyInit == /\ resp = << >> /\ stream = << >> /\ fetched = 0
             /\ replies = [p \in Page |-> {}]
             /\ lines = << >>
             /\ cache = [p \in {} |-> << >>]
             /\ restarted = 0

Recv(c) ==
  /\ Handling(c, "recv") /\ Readable(c)
  /\ \/ asked[c] \in {Nothing, Malformed} /\ Uncaught(c)
     \/ asked[c] \notin {Nothing, Malformed} /\ Goes(c, "lookup")
  /\ UNCHANGED <<asked, got, backlog, program, connectionSocket, proxyVars>>

IsText(page) == \A k \in DOMAIN page : page[k].ends # "binary"

\* Read as text, whatever its line ends were, and sent with "\r\n".
FromCache(page) == [k \in DOMAIN page |-> [page[k] EXCEPT !.ends = "crlf"]]

\* except Exception
Unusable(path) == path \in DOMAIN cache => ~IsText(cache[path])

Absent(path) == path \notin DOMAIN cache

Lookup(c) ==
  /\ Handling(c, "lookup")
  /\ \/ Absent(asked[c]) /\ Goes(c, "connect") /\ UNCHANGED lines
     \/ /\ asked[c] \in DOMAIN cache /\ IsText(cache[asked[c]])
        /\ lines' = FromCache(cache[asked[c]])
        /\ Goes(c, "lines")
     \/ /\ asked[c] \in DOMAIN cache /\ ~IsText(cache[asked[c]])
        /\ Uncaught(c) /\ UNCHANGED lines
  /\ UNCHANGED <<asked, got, backlog, program, connectionSocket, originVars,
                 cache, restarted>>

\* A send that fails is an IOError, as is a cache file that is not there.
SendLine(c) ==
  /\ Handling(c, "lines")
  /\ \/ /\ lines # << >> /\ SendFails(c)
        /\ Goes(c, "connect") /\ UNCHANGED <<got, lines>>
     \/ /\ lines # << >> /\ ~SendFails(c)
        /\ SentTo(c, <<Head(lines)>>) /\ lines' = Tail(lines)
        /\ UNCHANGED <<at, server, peer>>
     \/ lines = << >> /\ Goes(c, "closed") /\ UNCHANGED <<got, lines>>
  /\ UNCHANGED <<asked, backlog, program, connectionSocket, originVars, cache,
                 restarted>>

WhatIsLeft == resp

NoData == << >>

\* A page whose origin is not found, or does not answer, ends the program.
Fetch(c) ==
  /\ Handling(c, "connect")
  /\ \/ /\ asked[c] \in Page /\ fetched < Fetches
        /\ resp' = NoData /\ stream' = << >> /\ fetched' = fetched + 1
        /\ Goes(c, "reading")
     \/ Uncaught(c) /\ UNCHANGED <<resp, stream, fetched>>
  /\ UNCHANGED <<asked, got, backlog, program, connectionSocket, replies, lines,
                 cache, restarted>>

\* The next piece, the end of the data, which the origin may cut short, or a
\* connection that breaks.
Read(c) ==
  /\ Handling(c, "reading")
  /\ \/ /\ Len(stream) < Length
        /\ \E e \in Ends :
             LET part == <<[page |-> asked[c], fetch |-> fetched,
                            piece |-> Len(stream) + 1, ends |-> e]>>
             IN  resp' = resp \o part /\ stream' = stream \o part
        /\ UNCHANGED <<at, server, peer, replies>>
     \/ /\ replies' = [replies EXCEPT ![asked[c]] = @ \cup {stream}]
        /\ Goes(c, "reply") /\ UNCHANGED <<resp, stream>>
     \/ Uncaught(c) /\ UNCHANGED <<resp, stream, replies>>
  /\ UNCHANGED <<asked, got, backlog, program, connectionSocket, fetched, lines,
                 cache, restarted>>

Reply(c) ==
  /\ Handling(c, "reply")
  /\ IF SendFails(c) THEN Uncaught(c) /\ UNCHANGED got
                     ELSE SentTo(c, resp) /\ Goes(c, "open")
  /\ UNCHANGED <<asked, backlog, program, connectionSocket, proxyVars>>

Holding(path, page) ==
  [p \in DOMAIN cache \cup {path} |-> IF p = path THEN page ELSE cache[p]]

\* open(..., 'wb') empties the file, or makes an empty one.
OpenCache(c) ==
  /\ Handling(c, "open")
  /\ cache' = Holding(asked[c], << >>)
  /\ Goes(c, "write")
  /\ UNCHANGED <<asked, got, backlog, program, connectionSocket, originVars,
                 lines, restarted>>

WriteCache(c) ==
  /\ Handling(c, "write")
  /\ cache' = Holding(asked[c], resp)
  /\ Goes(c, "closed")
  /\ UNCHANGED <<asked, got, backlog, program, connectionSocket, originVars,
                 lines, restarted>>

ProxyHandler(c) == \/ Recv(c) \/ Lookup(c) \/ SendLine(c) \/ Fetch(c) \/ Read(c)
                   \/ Reply(c) \/ OpenCache(c) \/ WriteCache(c)

\* Ctrl-C
Interrupt ==
  /\ program = "proxy_server" /\ server = "running"
  /\ EndsTheProgram
  /\ UNCHANGED <<asked, got, backlog, program, connectionSocket, proxyVars>>

\* The program is started again, in the directory of its cache files.
Restart ==
  /\ program = "proxy_server" /\ server = "ended" /\ restarted < Restarts
  /\ server' = "running" /\ restarted' = restarted + 1
  /\ backlog' = << >> /\ connectionSocket' = Nothing
  /\ resp' = << >> /\ stream' = << >> /\ lines' = << >>
  /\ UNCHANGED <<peer, asked, got, program, at, replies, fetched, cache>>
=============================================================================
