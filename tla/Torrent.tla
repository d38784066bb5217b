------------------------------ MODULE Torrent -------------------------------
(***************************************************************************)
(* The torrent plug-in: an authority that knows the servers, servers that  *)
(* exchange one block at a time with each client that asks, and clients    *)
(* that ask all servers at once, each over a connection of its own, until  *)
(* all blocks are there.  A block goes down to the client first, then one  *)
(* goes up to the server, which says FINISHED.                             *)
(*                                                                         *)
(* Each host runs on one thread.  An activation that makes one system call *)
(* is one action; the SOCKS handshake of a client loops in its switch and  *)
(* is one step per state, while act says which connection it serves.       *)
(***************************************************************************)
EXTENDS Integers, Sequences, FiniteSets

CONSTANTS
    Clients, Servers,
    NoServer,      \* not a server
    UseProxy,      \* a client reaches servers through a SOCKS proxy
    NumBlocks,     \* fileSize over downBlockSize, rounded up
    DownBlock,     \* units of a block that goes down to the client
    UpBlock,       \* units of one that goes up to the server
    Room,          \* units a socket buffer takes
    TorFaults,     \* what may go wrong: "reset", "reject", "refuse"
    MaxTorFaults   \* how often (bound)

ASSUME TorrentAssumption ==
    /\ NoServer \notin Servers /\ UseProxy \in BOOLEAN
    /\ NumBlocks \in Nat \ {0} /\ DownBlock \in Nat \ {0} /\ UpBlock \in Nat \ {0}
    /\ Room \in Nat \ {0, 1}
    /\ TorFaults \subseteq {"reset", "reject", "refuse"} /\ MaxTorFaults \in Nat

VARIABLES
    servers,    \* TorrentAuthority.servers
    clients,    \* TorrentAuthority.clients
    auth,       \* client or server: what its authority connection has done
    lists,      \* client: lists of servers on their way from the authority
    known,      \* client: TorrentClient.servers
    remaining,  \* client: blocksRemaining
    downloaded, \* client: blocksDownloaded
    status,     \* client: "run", "complete", or "crashed"
    act,        \* client: the connection whose activation is running, or NoServer
    cl,         \* client, server: TorrentClient_Server
    sv,         \* client, server: TorrentServer_Connection of the same connection
    net,        \* client, server: the connection itself
    faults

authVars == <<servers, clients, auth, lists>>
countVars == <<remaining, downloaded>>
torVars == <<authVars, known, countVars, status, act, cl, sv, net, faults>>

\* SOCKS messages are two units long, so that they can be cut.
Both(m) == << <<m, 1>>, <<m, 2>> >>
Block(n) == [i \in 1..n |-> <<"block", 1>>]
Least(a, b) == IF a < b THEN a ELSE b
Rest(s, n) == SubSeq(s, n + 1, Len(s))
Contains(s, m) == \E i \in 1..Len(s) : s[i][1] = m

\* A connection that is not there, at either end and in between.
NoClientEnd == [state |-> "TC_SERVER_IDLE", next |-> "TC_SERVER_IDLE", buf |-> <<>>,
                ev |-> "OUT", down |-> 0, up |-> 0]
NoServerEnd == [state |-> "none", ev |-> {}, down |-> 0, up |-> 0]
NoNet == [phase |-> "none", up |-> <<>>, down |-> <<>>]

TorFails(f) == f \in TorFaults /\ faults < MaxTorFaults /\ faults' = faults + 1

TorInit ==
    /\ servers = <<>> /\ clients = <<>>
    /\ auth = [h \in Clients \cup Servers |-> "new"]
    /\ lists = [c \in Clients |-> <<>>]
    /\ known = [c \in Clients |-> {}]
    /\ remaining = [c \in Clients |-> NumBlocks]
    /\ downloaded = [c \in Clients |-> 0]
    /\ status = [c \in Clients |-> "run"]
    /\ act = [c \in Clients |-> NoServer]
    /\ cl = [c \in Clients |-> [s \in Servers |-> NoClientEnd]]
    /\ sv = [c \in Clients |-> [s \in Servers |-> NoServerEnd]]
    /\ net = [c \in Clients |-> [s \in Servers |-> NoNet]]
    /\ faults = 0

-----------------------------------------------------------------------------
(* The authority, and what clients and servers say to it.                  *)

\* TS_AUTH_REGISTER at a server, TC_AUTH_REQUEST_NODES at a client.
TellAuthority(h) ==
    /\ auth[h] = "new" /\ (h \in Clients => status[h] = "run" /\ act[h] = NoServer)
    /\ auth' = [auth EXCEPT ![h] = "sent"]
    /\ UNCHANGED <<servers, clients, lists, known, countVars, status, act, cl, sv,
                   net, faults>>

\* TA_MSG_REGISTER: every client that asked before is told of the server.
HandleRegister(s) ==
    /\ auth[s] = "sent" /\ auth' = [auth EXCEPT ![s] = "done"]
    /\ servers' = Append(servers, s)
    /\ lists' = [c \in Clients |->
                    IF \E i \in 1..Len(clients) : clients[i] = c
                    THEN Append(lists[c], <<s>>) ELSE lists[c]]
    /\ UNCHANGED <<clients, known, countVars, status, act, cl, sv, net, faults>>

\* TA_MSG_REQUEST_NODES.
HandleRequestNodes(c) ==
    /\ auth[c] = "sent" /\ auth' = [auth EXCEPT ![c] = "done"]
    /\ clients' = Append(clients, c)
    /\ lists' = [lists EXCEPT ![c] = Append(@, servers)]
    /\ UNCHANGED <<servers, known, countVars, status, act, cl, sv, net, faults>>

\* A new connection, in its first state.
Opening == [NoClientEnd EXCEPT
    !.state = IF UseProxy THEN "TC_SOCKS_REQUEST_INIT" ELSE "TC_SERVER_REQUEST"]

\* TC_AUTH_RECEIVE_NODES: of all that one recv returns, the first list is read.
Unknown(c, list) == {list[i] : i \in 1..Len(list)} \ known[c]

ReceiveNodes(c) ==
    /\ status[c] = "run" /\ act[c] = NoServer /\ auth[c] # "new"
    /\ \E n \in 1..Len(lists[c]) :
          LET new == Unknown(c, Head(lists[c]))
          IN  /\ lists' = [lists EXCEPT ![c] = Rest(@, n)]
              /\ known' = [known EXCEPT ![c] = @ \cup new]
              /\ cl' = [cl EXCEPT ![c] = [s \in Servers |->
                           IF s \in new THEN Opening ELSE cl[c][s]]]
              /\ net' = [net EXCEPT ![c] = [s \in Servers |->
                            IF s \in new THEN [NoNet EXCEPT !.phase = "connecting"]
                            ELSE net[c][s]]]
              /\ sv' = [sv EXCEPT ![c] = [s \in Servers |->
                           IF s \in new THEN NoServerEnd ELSE sv[c][s]]]
    /\ UNCHANGED <<servers, clients, auth, countVars, status, act, faults>>

-----------------------------------------------------------------------------
(* The end of an activation of a client, and its restart.                  *)

\* A client that closes leaves what it sent to be read.
Hangup(c) ==
    net' = [net EXCEPT ![c] = [s \in Servers |->
               IF net[c][s].phase \in {"relay", "closed"}
               THEN [net[c][s] EXCEPT !.phase = "closed", !.down = <<>>] ELSE NoNet]]

\* torrentClient_shutdown and torrentClient_start, at once, after TC_ERR_FATAL and
\* TC_ERR_SOCKSCONN.  The old connection to the authority stays open, but nothing
\* that comes on it is read.  The wrong variant keeps a count.
KeptCount(c) == downloaded[c]
NewCount(c) == 0

Restart(c) ==
    /\ auth' = [auth EXCEPT ![c] = "new"]
    /\ clients' = SelectSeq(clients, LAMBDA d : d # c)
    /\ lists' = [lists EXCEPT ![c] = <<>>]
    /\ known' = [known EXCEPT ![c] = {}]
    /\ remaining' = [remaining EXCEPT ![c] = NumBlocks]
    /\ downloaded' = [downloaded EXCEPT ![c] = NewCount(c)]
    /\ act' = [act EXCEPT ![c] = NoServer]
    /\ cl' = [cl EXCEPT ![c] = [s \in Servers |-> NoClientEnd]]
    /\ Hangup(c)
    /\ UNCHANGED <<servers, status, sv>>

\* What the event loop of the client finds ready.
SocketReady(c, s) ==
    /\ cl[c][s].state # "TC_SERVER_IDLE"
    /\ \/ net[c][s].phase = "reset"
       \/ cl[c][s].ev = "IN" /\ net[c][s].down # <<>>
       \/ /\ cl[c][s].ev = "OUT" /\ Len(net[c][s].up) < Room
          /\ net[c][s].phase \in {"init", "conn", "relay"}

\* [client-complete]: everything is freed, and the loop goes on with the other
\* descriptors that were ready, if there are any, without a client.
Complete(c, s) ==
    /\ \/ status' = [status EXCEPT ![c] = "complete"]
       \/ /\ lists[c] # <<>> \/ \E o \in Servers \ {s} : SocketReady(c, o)
          /\ status' = [status EXCEPT ![c] = "crashed"]
    /\ Hangup(c)

\* Nothing changes but the connection of the activation, which ends or goes on.
exceptOne == <<authVars, known, status>>
Goes(c, s, end) == /\ cl' = [cl EXCEPT ![c][s] = end]
                   /\ UNCHANGED <<exceptOne, countVars, act, sv, faults>>
Ends(c, s, end) == /\ cl' = [cl EXCEPT ![c][s] = end]
                   /\ act' = [act EXCEPT ![c] = NoServer]
                   /\ UNCHANGED <<exceptOne, sv, faults>>

-----------------------------------------------------------------------------
(* torrentClient_activate, one case of its switch at a time.               *)

Activated(c, s, state) == act[c] = s /\ cl[c][s].state = state

SocksRequest(c, s) ==
    \/ /\ Activated(c, s, "TC_SOCKS_REQUEST_INIT")
       /\ Goes(c, s, [cl[c][s] EXCEPT !.state = "TC_SEND", !.next = "TC_SOCKS_TOREPLY_INIT",
                          !.buf = @ \o Both("init"), !.ev = "OUT"])
       /\ UNCHANGED net
    \/ /\ Activated(c, s, "TC_SOCKS_REQUEST_CONN")
       /\ Goes(c, s, [cl[c][s] EXCEPT !.state = "TC_SEND", !.next = "TC_SOCKS_TOREPLY_CONN",
                          !.buf = @ \o Both("request"), !.ev = "OUT"])
       /\ UNCHANGED net

SocksToReply(c, s) ==
    \/ /\ Activated(c, s, "TC_SOCKS_TOREPLY_INIT")
       /\ Goes(c, s, [cl[c][s] EXCEPT !.state = "TC_RECEIVE", !.ev = "IN",
                          !.next = "TC_SOCKS_REPLY_INIT"])
       /\ UNCHANGED net
    \/ /\ Activated(c, s, "TC_SOCKS_TOREPLY_CONN")
       /\ Goes(c, s, [cl[c][s] EXCEPT !.state = "TC_RECEIVE", !.ev = "IN",
                          !.next = "TC_SOCKS_REPLY_CONN"])
       /\ UNCHANGED net

\* A refused authentication (TC_ERR_SOCKSINIT) is no reason to restart.
SocksReplyInit(c, s) ==
    /\ Activated(c, s, "TC_SOCKS_REPLY_INIT") /\ UNCHANGED net
    /\ LET e == cl[c][s]
       IN  \/ /\ Len(e.buf) < 2
              /\ Goes(c, s, [e EXCEPT !.state = "TC_SOCKS_TOREPLY_INIT"])
           \/ /\ Len(e.buf) >= 2 /\ e.buf[1][1] = "choice"
              /\ Goes(c, s, [e EXCEPT !.state = "TC_SOCKS_REQUEST_CONN",
                                 !.buf = Rest(@, 2)])
           \/ /\ Len(e.buf) >= 2 /\ e.buf[1][1] # "choice"
              /\ Ends(c, s, e) /\ UNCHANGED countVars

\* A proxy that refuses, or sends the client elsewhere, leads to a restart: of the
\* descriptor that torrentClient_connect returns it expects TC_SUCCESS.
SocksReplyConn(c, s) ==
    /\ Activated(c, s, "TC_SOCKS_REPLY_CONN")
    /\ LET e == cl[c][s]
       IN  \/ /\ Len(e.buf) < 2
              /\ Goes(c, s, [e EXCEPT !.state = "TC_SOCKS_TOREPLY_CONN"])
              /\ UNCHANGED net
           \/ /\ Len(e.buf) >= 2 /\ e.buf[1][1] = "granted"
              /\ Goes(c, s, [e EXCEPT !.state = "TC_SERVER_REQUEST", !.ev = "OUT",
                                 !.next = "TC_SERVER_REQUEST", !.buf = Rest(@, 2)])
              /\ UNCHANGED net
           \/ /\ Len(e.buf) >= 2 /\ e.buf[1][1] # "granted"
              /\ Restart(c) /\ UNCHANGED faults

Send(c, s) ==
    LET e == cl[c][s]
        n == Least(Len(e.buf), Room - Len(net[c][s].up))
    IN  /\ Activated(c, s, "TC_SEND")
        /\ net[c][s].phase \in {"init", "conn", "relay"} /\ n > 0
        /\ net' = [net EXCEPT ![c][s].up = @ \o SubSeq(e.buf, 1, n)]
        /\ Goes(c, s, [e EXCEPT !.buf = Rest(@, n),
                           !.state = IF n = Len(e.buf) THEN e.next ELSE "TC_SEND"])

Receive(c, s) ==
    /\ Activated(c, s, "TC_RECEIVE")
    /\ \E n \in 1..Len(net[c][s].down) :
          /\ net' = [net EXCEPT ![c][s].down = Rest(@, n)]
          /\ Goes(c, s, [cl[c][s] EXCEPT !.buf = @ \o SubSeq(net[c][s].down, 1, n),
                             !.state = cl[c][s].next])

\* A block is taken from those that remain, whichever connection it comes over.
Taken(c) == remaining[c] - 1

ServerRequest(c, s) ==
    LET e == cl[c][s]
    IN  /\ Activated(c, s, "TC_SERVER_REQUEST")
        /\ \/ /\ remaining[c] <= 0
              /\ Ends(c, s, [e EXCEPT !.state = "TC_SERVER_IDLE", !.ev = "IN"])
              /\ UNCHANGED <<net, countVars>>
           \/ /\ remaining[c] > 0
              /\ net[c][s].phase = "relay" /\ Len(net[c][s].up) < Room
              /\ net' = [net EXCEPT ![c][s].up = Append(@, <<"FILE_REQUEST", 1>>)]
              /\ remaining' = [remaining EXCEPT ![c] = Taken(c)]
              /\ Ends(c, s, [e EXCEPT !.state = "TC_SERVER_TRANSFER", !.ev = "IN",
                                 !.down = 0, !.up = 0, !.buf = <<>>])
              /\ UNCHANGED downloaded

\* What comes next when so much of a block went down and up.  The wrong variant
\* goes on waiting for more when all of it is there.
StaysArmed(e) == IF e.down >= DownBlock /\ e.up >= UpBlock
                 THEN [e EXCEPT !.state = "TC_SERVER_FINISHED", !.ev = "IN"]
                 ELSE IF e.up >= UpBlock THEN [e EXCEPT !.ev = "IN"] ELSE e
Transferred(e) == IF e.down >= DownBlock /\ e.up >= UpBlock
                  THEN [e EXCEPT !.state = "TC_SERVER_FINISHED", !.ev = "IN"]
                  ELSE IF e.down >= DownBlock THEN [e EXCEPT !.ev = "OUT"]
                  ELSE IF e.up >= UpBlock THEN [e EXCEPT !.ev = "IN"] ELSE e

ServerTransfer(c, s) ==
    LET e == cl[c][s]
    IN  /\ Activated(c, s, "TC_SERVER_TRANSFER")
        /\ \/ /\ e.ev = "IN" /\ e.down < DownBlock
              /\ \E n \in 1..Least(Len(net[c][s].down), DownBlock - e.down) :
                    /\ net' = [net EXCEPT ![c][s].down = Rest(@, n)]
                    /\ Ends(c, s, Transferred([e EXCEPT !.down = @ + n]))
           \/ /\ e.ev = "OUT" /\ e.up < UpBlock
              /\ LET n == Least(Room - Len(net[c][s].up), UpBlock - e.up)
                 IN  /\ net[c][s].phase = "relay" /\ n > 0
                     /\ net' = [net EXCEPT ![c][s].up = @ \o Block(n)]
                     /\ Ends(c, s, Transferred([e EXCEPT !.up = @ + n]))
        /\ UNCHANGED countVars

\* TC_BLOCK_DOWNLOADED; the last one completes the client.
ServerFinished(c, s) ==
    /\ Activated(c, s, "TC_SERVER_FINISHED")
    /\ \E n \in 1..Len(net[c][s].down) :
          LET found == Contains(SubSeq(net[c][s].down, 1, n), "FINISHED")
          IN  /\ downloaded' = [downloaded EXCEPT ![c] = IF found THEN @ + 1 ELSE @]
              /\ cl' = IF found THEN [cl EXCEPT ![c][s].state = "TC_SERVER_REQUEST",
                                                ![c][s].ev = "OUT"] ELSE cl
              /\ act' = [act EXCEPT ![c] = NoServer]
              /\ \/ /\ downloaded'[c] < NumBlocks
                    /\ net' = [net EXCEPT ![c][s].down = Rest(@, n)]
                    /\ UNCHANGED status
                 \/ downloaded'[c] >= NumBlocks /\ Complete(c, s)
    /\ UNCHANGED <<authVars, known, remaining, sv, faults>>

\* EWOULDBLOCK.
Sending == {"TC_SEND", "TC_SERVER_REQUEST", "TC_SERVER_TRANSFER"}
Blocks(c, s) ==
    /\ act[c] = s /\ net[c][s].phase # "reset"
    /\ \/ /\ cl[c][s].state \in Sending /\ cl[c][s].ev = "OUT"
          /\ Len(net[c][s].up) >= Room
          /\ cl[c][s].state = "TC_SERVER_REQUEST" => remaining[c] > 0
       \/ /\ cl[c][s].state \in {"TC_RECEIVE", "TC_SERVER_TRANSFER", "TC_SERVER_FINISHED"}
          /\ cl[c][s].ev = "IN" /\ net[c][s].down = <<>>
    /\ Ends(c, s, cl[c][s])
    /\ UNCHANGED <<net, countVars>>

\* A send or recv on a connection that is gone.
Fatal(c, s) ==
    /\ act[c] = s /\ net[c][s].phase = "reset"
    /\ \/ cl[c][s].state \in {"TC_SEND", "TC_RECEIVE", "TC_SERVER_TRANSFER",
                              "TC_SERVER_FINISHED"}
       \/ cl[c][s].state = "TC_SERVER_REQUEST" /\ remaining[c] > 0
    /\ Restart(c) /\ UNCHANGED faults

ClientEvent(c, s) ==
    /\ status[c] = "run" /\ act[c] = NoServer /\ SocketReady(c, s)
    /\ act' = [act EXCEPT ![c] = s]
    /\ UNCHANGED <<authVars, known, countVars, status, cl, sv, net, faults>>

ClientStep(c) ==
    \E s \in Servers :
        \/ SocksRequest(c, s) \/ SocksToReply(c, s) \/ SocksReplyInit(c, s)
        \/ SocksReplyConn(c, s) \/ Send(c, s) \/ Receive(c, s) \/ ServerRequest(c, s)
        \/ ServerTransfer(c, s) \/ ServerFinished(c, s) \/ Blocks(c, s) \/ Fatal(c, s)

-----------------------------------------------------------------------------
(* torrentServer_activate.                                                 *)

\* Nothing changes but a connection at its server.
AtServer(c, s, end, n) ==
    /\ sv' = [sv EXCEPT ![c][s] = end] /\ net' = [net EXCEPT ![c][s] = n]
    /\ UNCHANGED <<authVars, known, countVars, status, act, cl, faults>>

Accept(c, s) ==
    /\ net[c][s].phase = "relay" /\ sv[c][s].state = "none"
    /\ AtServer(c, s, [NoServerEnd EXCEPT !.state = "TS_IDLE", !.ev = {"IN"}], net[c][s])

\* TS_IDLE and TS_REQUEST.
ReadRequest(c, s) ==
    LET w == net[c][s]
        fresh == IF sv[c][s].state = "TS_IDLE"
                 THEN [sv[c][s] EXCEPT !.down = 0, !.up = 0] ELSE sv[c][s]
    IN  /\ sv[c][s].state \in {"TS_IDLE", "TS_REQUEST"}
        /\ \E n \in 1..Len(w.up) :
              AtServer(c, s,
                  IF Contains(SubSeq(w.up, 1, n), "FILE_REQUEST")
                  THEN [fresh EXCEPT !.state = "TS_TRANSFER", !.ev = {"IN", "OUT"}]
                  ELSE [fresh EXCEPT !.state = "TS_REQUEST", !.ev = {"IN"}],
                  [w EXCEPT !.up = Rest(@, n)])

\* Both directions are complete.  The wrong variant looks at its own.
OneWay(e) == e.up >= DownBlock
BothWays(e) == e.down >= UpBlock /\ e.up >= DownBlock

\* What the server has still to send.
LeftToSend(e) == DownBlock - e.up

\* TS_TRANSFER: what is there is received, what there is room for is sent.  For
\* the server the block sizes of the client are swapped.
Exchange(c, s) ==
    /\ sv[c][s].state = "TS_TRANSFER"
    /\ \E events \in SUBSET sv[c][s].ev \ {{}} :
       \E n \in 0..Len(net[c][s].up), m \in 0..Room :
          LET e == sv[c][s]
              w == net[c][s]
              f == [e EXCEPT !.down = @ + n, !.up = @ + m]
          IN  /\ IF "IN" \in events /\ e.down < UpBlock
                 THEN n > 0 /\ n <= UpBlock - e.down ELSE n = 0
              /\ IF "OUT" \in events /\ e.up < DownBlock
                 THEN m > 0 /\ m = Least(LeftToSend(e), Room - Len(w.down))
                      /\ w.phase = "relay"
                 ELSE m = 0
              /\ AtServer(c, s,
                     IF BothWays(f) THEN [f EXCEPT !.state = "TS_FINISHED", !.ev = {"OUT"}]
                     ELSE IF f.down >= UpBlock THEN [f EXCEPT !.ev = {"OUT"}]
                     ELSE IF f.up >= DownBlock THEN [f EXCEPT !.ev = {"IN"}] ELSE f,
                     [w EXCEPT !.up = Rest(@, n), !.down = @ \o Block(m)])

SayFinished(c, s) ==
    /\ sv[c][s].state = "TS_FINISHED"
    /\ net[c][s].phase = "relay" /\ Len(net[c][s].down) < Room
    /\ AtServer(c, s, [sv[c][s] EXCEPT !.state = "TS_IDLE", !.ev = {"IN"}],
                [net[c][s] EXCEPT !.down = Append(@, <<"FINISHED", 1>>)])

\* recv returns 0: the connection is closed.  (After an error it is kept.)
ServerClose(c, s) ==
    /\ "IN" \in sv[c][s].ev /\ net[c][s].phase = "closed"
    /\ net[c][s].up = <<>>
    /\ AtServer(c, s, NoServerEnd, net[c][s])

ServerActivate(c, s) ==
    ReadRequest(c, s) \/ Exchange(c, s) \/ SayFinished(c, s) \/ ServerClose(c, s)

-----------------------------------------------------------------------------
(* The network and the proxy.                                              *)

AtNet(c, s, n) ==
    /\ net' = [net EXCEPT ![c][s] = n]
    /\ UNCHANGED <<authVars, known, countVars, status, act, cl, sv>>

Connect(c, s) ==
    /\ net[c][s].phase = "connecting"
    /\ AtNet(c, s, [net[c][s] EXCEPT !.phase = IF UseProxy THEN "init" ELSE "relay"])
    /\ UNCHANGED faults

ProxyAnswers(c, s, from, to, yes, no, fault) ==
    LET w == net[c][s]
    IN  /\ w.phase = from /\ Len(w.up) >= 2
        /\ \/ /\ UNCHANGED faults
              /\ AtNet(c, s, [w EXCEPT !.up = Rest(@, 2), !.phase = to, !.down = Both(yes)])
           \/ /\ TorFails(fault)
              /\ AtNet(c, s, [w EXCEPT !.up = Rest(@, 2), !.down = Both(no)])

Proxy(c, s) ==
    \/ ProxyAnswers(c, s, "init", "conn", "choice", "noauth", "reject")
    \/ ProxyAnswers(c, s, "conn", "relay", "granted", "failed", "refuse")

Reset(c, s) ==
    /\ net[c][s].phase \in {"init", "conn", "relay"} /\ status[c] = "run"
    /\ TorFails("reset")
    /\ AtNet(c, s, [NoNet EXCEPT !.phase = "reset"])

TorNext ==
    \/ \E h \in Clients \cup Servers : TellAuthority(h)
    \/ \E s \in Servers : HandleRegister(s)
    \/ \E c \in Clients :
          \/ HandleRequestNodes(c) \/ ReceiveNodes(c) \/ ClientStep(c)
          \/ \E s \in Servers :
                \/ ClientEvent(c, s) \/ Accept(c, s) \/ ServerActivate(c, s)
                \/ Connect(c, s) \/ Proxy(c, s) \/ Reset(c, s)

\* Every event loop hands out what is ready, and the network and the proxy answer.
TorSpec ==
    /\ TorInit /\ [][TorNext]_torVars
    /\ \A h \in Clients \cup Servers : SF_torVars(TellAuthority(h))
    /\ \A s \in Servers : WF_torVars(HandleRegister(s))
    /\ \A c \in Clients :
          /\ WF_torVars(HandleRequestNodes(c)) /\ SF_torVars(ReceiveNodes(c))
          /\ WF_torVars(ClientStep(c))
          /\ \A s \in Servers :
                /\ SF_torVars(ClientEvent(c, s)) /\ WF_torVars(Accept(c, s))
                /\ WF_torVars(ServerActivate(c, s))
                /\ WF_torVars(Connect(c, s)) /\ WF_torVars(Proxy(c, s))

-----------------------------------------------------------------------------
(* Properties.                                                             *)

\* The connections of a client share its counts, and each block is in one place:
\* still to be asked for, under way on one connection, or downloaded.  No
\* interleaving of connections and no restart asks for a block twice, or forgets
\* one.
UnderWay(c) == {s \in Servers : cl[c][s].state \in {"TC_SERVER_TRANSFER", "TC_SERVER_FINISHED"}}
BlocksConserved ==
    \A c \in Clients : status[c] = "run" =>
        remaining[c] + downloaded[c] + Cardinality(UnderWay(c)) = NumBlocks

\* A client counts a block only when both ends have all of theirs, and the server
\* waits for the next request.
BlockExact ==
    [][\A c \in Clients : downloaded'[c] = downloaded[c] + 1 =>
          LET s == act[c]
          IN  /\ cl[c][s].down = DownBlock /\ cl[c][s].up = UpBlock
              /\ sv[c][s].down = UpBlock /\ sv[c][s].up = DownBlock
              /\ sv[c][s].state \in {"TS_IDLE", "TS_REQUEST"}]_torVars

\* A client that knows a server which it can reach gets all of its blocks, over
\* resets, refusals and restarts.  (A proxy that rejects the authentication is
\* not asked again.)
Rejected(c, s) == /\ cl[c][s].state = "TC_SOCKS_REPLY_INIT"
                  /\ cl[c][s].buf # <<>> /\ cl[c][s].buf[1][1] = "noauth"
Completes ==
    \A c \in Clients :
        <>[](status[c] # "run" \/ \A s \in known[c] : Rejected(c, s))
=============================================================================
