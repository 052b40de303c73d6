----------------------------- MODULE WebServer ------------------------------
(* server.listen() with WebSocket routes: the thread that listens accepts
   upgrades and calls the actions of the script, a detached reader per connection
   echoes and broadcasts what its client sends and queues it for those actions,
   and others close connections or shut the server down.  Messages are numbered
   per connection.  Plain requests, pings and frames that are skipped change
   nothing that is kept and are left out. *)
EXTENDS Naturals, Sequences, FiniteSets, SequencesExt

CONSTANTS WebConns, \* bound: connections ever upgraded
          WebMsgs   \* bound: text messages of all clients

VARIABLES webServer, \* the HttpServer, the thread that listens, one that shuts it down
          webConn,   \* connection -> socket, reader and what its client still sends
          webEvents, \* g_wsServerEvents: [from, n]
          webBatch,  \* the events that the loop took and has not dispatched
          webSeen,   \* connection -> sender -> its texts that the client was sent (history)
          webActed   \* connection -> its messages that actions were called for (history)

webVars == <<webServer, webConn, webEvents, webBatch, webSeen, webActed>>

WsEvent(c) == [from |-> c, n |-> webConn[c].got]
Sendable(c) == webConn[c].open /\ webConn[c].sock
ReaderAt(c, pc) == webConn[c].at = pc
ReaderMoves(c, pc) == webConn' = [webConn EXCEPT ![c].at = pc]
ServerOnly == UNCHANGED <<webConn, webEvents, webBatch, webSeen, webActed>>

-----------------------------------------------------------------------------
(* listen: drain the events, look for a connection, begin again. *)

Listen ==
  /\ webServer.loop = "idle" /\ webServer.listed /\ ~webServer.running
  /\ webServer' = [webServer EXCEPT !.running = TRUE, !.active = TRUE, !.loop = "head"]
  /\ ServerOnly

AfterCopy == webEvents
AfterSwap == <<>>
Drain(server) ==
  /\ webBatch' = webEvents /\ webEvents' = AfterSwap
  /\ webServer' = server
  /\ UNCHANGED <<webConn, webSeen, webActed>>
(* select may end with nothing, in time or because the socket is closed. *)
Looking == webServer.loop \in {"head", "select"}
Turn == Looking /\ webServer.running /\ Drain([webServer EXCEPT !.loop = "act"])

Acted(e) == [webActed EXCEPT ![e.from] = Append(@, e.n)]
Dispatch ==
  /\ webServer.loop \in {"act", "last"} /\ webBatch # <<>>
  /\ webActed' = Acted(Head(webBatch)) /\ webBatch' = Tail(webBatch)
  /\ UNCHANGED <<webServer, webConn, webEvents, webSeen>>
(* An action that throws ends listen and drops the rest of the batch. *)
ActionThrows ==
  /\ webServer.loop \in {"act", "last"} /\ webBatch # <<>>
  /\ webActed' = Acted(Head(webBatch)) /\ webBatch' = <<>>
  /\ webServer' = [webServer EXCEPT !.loop = "idle", !.threw = TRUE]
  /\ UNCHANGED <<webConn, webEvents, webSeen>>
Dispatched ==
  /\ webServer.loop \in {"act", "last"} /\ webBatch = <<>>
  /\ webServer' = [webServer EXCEPT !.loop = IF @ = "act" THEN "select" ELSE "idle"]
  /\ ServerOnly

(* A client that asks for an upgrade has its answer before the connection is
   registered. *)
Upgrade(c) ==
  /\ webServer.loop = "select" /\ webServer.sock /\ ReaderAt(c, "none")
  /\ webServer' = [webServer EXCEPT !.loop = "register"]
  /\ ReaderMoves(c, "upgraded")
  /\ UNCHANGED <<webEvents, webBatch, webSeen, webActed>>
Register(c) ==
  /\ webServer.loop = "register" /\ ReaderAt(c, "upgraded")
  /\ webServer' = [webServer EXCEPT !.loop = "start"]
  /\ webConn' = [webConn EXCEPT ![c].at = "registered", ![c].open = TRUE, ![c].sock = TRUE, ![c].listed = TRUE]
  /\ UNCHANGED <<webEvents, webBatch, webSeen, webActed>>
StartReader(c) ==
  /\ webServer.loop = "start" /\ ReaderAt(c, "registered")
  /\ webServer' = [webServer EXCEPT !.loop = "head"]
  /\ ReaderMoves(c, "head")
  /\ UNCHANGED <<webEvents, webBatch, webSeen, webActed>>

(* The end of the loop, and of listen: what was queued is dispatched once more. *)
LeaveLoop ==
  /\ Looking /\ ~webServer.running
  /\ webServer' = [webServer EXCEPT !.loop = "end", !.sock = FALSE]
  /\ ServerOnly
LastDrain ==
  /\ webServer.loop = "end"
  /\ Drain([webServer EXCEPT !.loop = "last", !.running = FALSE])

-----------------------------------------------------------------------------
(* shutdown_graceful on another thread, step by step, and Ctrl+C. *)

ShutdownStep(from, to, s) ==
  /\ webServer.stop = from /\ webServer' = [s EXCEPT !.stop = to]
  /\ ServerOnly
Shutdown ==
  \/ webServer.listed /\ ShutdownStep("idle", "stop", webServer)
  \/ ShutdownStep("stop", "erase", [webServer EXCEPT !.running = FALSE, !.sock = FALSE])
  \/ ShutdownStep("erase", "idle", [webServer EXCEPT !.listed = FALSE])
CtrlC ==
  /\ webServer.active /\ webServer.sock
  /\ webServer' = [webServer EXCEPT !.running = FALSE, !.sock = FALSE]
  /\ ServerOnly

-----------------------------------------------------------------------------
(* ws_server_reader. *)

ReaderOnly == UNCHANGED <<webServer, webBatch, webActed>>
(* It looks at open, then waits in recv. *)
Receive(c) ==
  /\ ReaderAt(c, "head") /\ Sendable(c) /\ webConn[c].inbox > 0
  /\ webConn' = [webConn EXCEPT ![c].at = "echo", ![c].inbox = @ - 1, ![c].got = @ + 1]
  /\ ReaderOnly /\ UNCHANGED <<webEvents, webSeen>>
(* The client closed, broke the protocol or was silent for the five seconds that
   the socket was given when it was accepted; or the connection was closed here. *)
ReaderStops(c) ==
  /\ ReaderAt(c, "head") /\ (webConn[c].inbox = 0 \/ ~Sendable(c))
  /\ ReaderMoves(c, "leave")
  /\ ReaderOnly /\ UNCHANGED <<webEvents, webSeen>>

SendTo(d, e) == webSeen' = IF Sendable(d) THEN [webSeen EXCEPT ![d][e.from] = Append(@, e.n)] ELSE webSeen
Echo(c) ==
  /\ ReaderAt(c, "echo") /\ ReaderMoves(c, "cast")
  /\ SendTo(c, WsEvent(c))
  /\ ReaderOnly /\ UNCHANGED webEvents
EveryTarget(c) == {d \in WebConns : webConn[d].listed /\ webConn[d].open}
Targets(c) == {d \in WebConns \ {c} : webConn[d].listed /\ webConn[d].open}
Snapshot(c) ==
  /\ ReaderAt(c, "cast")
  /\ webConn' = [webConn EXCEPT ![c].at = "casting", ![c].targets = Targets(c)]
  /\ ReaderOnly /\ UNCHANGED <<webEvents, webSeen>>
CastTo(c, d) ==
  /\ ReaderAt(c, "casting") /\ d \in webConn[c].targets
  /\ webConn' = [webConn EXCEPT ![c].targets = @ \ {d}]
  /\ SendTo(d, WsEvent(c))
  /\ ReaderOnly /\ UNCHANGED webEvents
Queue(c) ==
  /\ ReaderAt(c, "casting") /\ webConn[c].targets = {}
  /\ ReaderMoves(c, "head") /\ webEvents' = Append(webEvents, WsEvent(c))
  /\ ReaderOnly /\ UNCHANGED webSeen
Leave(c) ==
  /\ ReaderAt(c, "leave")
  /\ webConn' = [webConn EXCEPT ![c].at = "gone", ![c].open = FALSE, ![c].sock = FALSE, ![c].listed = FALSE]
  /\ ReaderOnly /\ UNCHANGED <<webEvents, webSeen>>

(* sock.close() of a script: out of the table first, then closed. *)
ScriptUnlists(c) ==
  /\ webConn[c].listed /\ webConn' = [webConn EXCEPT ![c].listed = FALSE, ![c].closing = TRUE]
  /\ ReaderOnly /\ UNCHANGED <<webEvents, webSeen>>
ScriptCloses(c) ==
  /\ webConn[c].closing
  /\ webConn' = [webConn EXCEPT ![c].closing = FALSE, ![c].open = FALSE, ![c].sock = FALSE]
  /\ ReaderOnly /\ UNCHANGED <<webEvents, webSeen>>

Sent == SumFunction([c \in WebConns |-> webConn[c].got + webConn[c].inbox])
ClientSends(c) ==
  /\ ~ReaderAt(c, "none") /\ Sent < WebMsgs
  /\ webConn' = [webConn EXCEPT ![c].inbox = @ + 1]
  /\ ReaderOnly /\ UNCHANGED <<webEvents, webSeen>>

Reader(c) ==
  Receive(c) \/ ReaderStops(c) \/ Echo(c) \/ Snapshot(c) \/ Queue(c) \/ Leave(c)

WebInit ==
  /\ webServer = [running |-> FALSE, sock |-> TRUE, listed |-> TRUE, active |-> FALSE,
                  loop |-> "idle", stop |-> "idle", threw |-> FALSE]
  /\ webConn = [c \in WebConns |-> [at |-> "none", open |-> FALSE, sock |-> FALSE, listed |-> FALSE,
                                    closing |-> FALSE, inbox |-> 0, got |-> 0, targets |-> {}]]
  /\ webEvents = <<>> /\ webBatch = <<>>
  /\ webActed = [c \in WebConns |-> <<>>]
  /\ webSeen = [d \in WebConns |-> [c \in WebConns |-> <<>>]]
WebNext ==
  \/ Listen \/ Turn \/ Dispatch \/ ActionThrows \/ Dispatched \/ LeaveLoop \/ LastDrain
  \/ Shutdown \/ CtrlC
  \/ \E c \in WebConns :
       \/ Upgrade(c) \/ Register(c) \/ StartReader(c) \/ Reader(c)
       \/ ScriptUnlists(c) \/ ScriptCloses(c) \/ ClientSends(c)
       \/ \E d \in WebConns : CastTo(c, d)

WebSpec == WebInit /\ [][WebNext]_webVars

-----------------------------------------------------------------------------
Consecutive(s) == \A i \in 1..Len(s) - 1 : s[i + 1] = s[i] + 1
Increasing(s) == \A i \in 1..Len(s) - 1 : s[i] < s[i + 1]
InHand(c) == webConn[c].at \in {"echo", "cast", "casting"}
Queued == webBatch \o webEvents
Waiting(c) == {e.n : e \in {x \in ToSet(Queued) : x.from = c}}
(* The messages of a client whose reader is through with them. *)
Handed(c) == 1..(IF InHand(c) THEN webConn[c].got - 1 ELSE webConn[c].got)

(* The actions of the script see every message of a connection once and in the
   order in which the client sent them, across drains, shutdowns and the end of
   the reader; after one of them threw, messages may be missing, never repeated. *)
EventsInOrder ==
  /\ \A i, j \in DOMAIN Queued : i < j /\ Queued[i].from = Queued[j].from => Queued[i].n < Queued[j].n
  /\ \A c \in WebConns :
       /\ Increasing(webActed[c])
       /\ \A n \in ToSet(webActed[c]), m \in Waiting(c) : n < m
       /\ ToSet(webActed[c]) \cup Waiting(c) \subseteq Handed(c)
       /\ ~webServer.threw => Handed(c) \subseteq ToSet(webActed[c]) \cup Waiting(c)

(* A client that joined is sent every later text of its peers and of its own once
   and in order, as long as its connection is open, however the readers of
   several senders interleave. *)
CastsComplete ==
  \A c, d \in WebConns :
    LET seen == webSeen[d][c] IN
    /\ Consecutive(seen)
    /\ seen # <<>> /\ webConn[d].listed /\ Sendable(d) /\ ~InHand(c) => Last(seen) = webConn[c].got
=============================================================================
