-------------------------------- MODULE Ping --------------------------------
(***************************************************************************)
(* The ping plug-in: a client that sends a time-stamped ping at every      *)
(* interval, directly or through a SOCKS proxy, to the server of the same  *)
(* plug-in (ping-client.c, ping-server.c), and the event loop that         *)
(* restarts the client when its connection fails (ping.c, and in the same  *)
(* way ping-service.c).  Event loop and timers run on one thread; proxy,   *)
(* network and server side move between any two steps of an activation.    *)
(***************************************************************************)
EXTENDS Naturals, Sequences, FiniteSets

CONSTANTS
    SocksModes,   \* whether a proxy is given (socksAddr is not INADDR_NONE)
    PingFaults,   \* what may go wrong: "connect", "hangup", "refuse", "reject"
    MaxFaults,    \* how often (bound)
    MaxPings,     \* pings in a run (bound)
    PingSizes,    \* values of pingSize, in units of a ping's text
    PingBuf,      \* sizeof(PingClient.buf), in units
    PingCap,      \* units a socket buffer takes
    RecvCap       \* units the server's buffer takes in one recv

ASSUME PingAssumption ==
    /\ SocksModes \subseteq BOOLEAN
    /\ PingFaults \subseteq {"connect", "hangup", "refuse", "reject"}
    /\ MaxFaults \in Nat /\ MaxPings \in Nat /\ PingSizes \subseteq Nat \ {0}
    /\ PingBuf \in Nat /\ PingCap \in Nat \ {0, 1} /\ RecvCap \in Nat \ {0}

VARIABLES
    useSocks,         \* a proxy was given
    pingSize,         \* PingClient.pingSize
    clientState,      \* PingClient.clientState
    clientNextstate,  \* PingClient.clientNextstate
    rd,               \* PingClient.buf_read_offset
    pend,             \* PingClient.buf from there to buf_write_offset
    by,               \* who runs pingClient_activate: "none", "event", "wake"
    sock,             \* PingClient.sockd: "connecting", "up", or "bad"
    events,           \* what epoll watches it for
    pingTimers,       \* callbacks to pingClient_sendPing that are due
    wakeTimers,       \* callbacks to pingClient_wakeup that are due
    pingsSent,        \* PingClient.pingsSent
    up, down,         \* units on the client's connection, in either direction
    phase,            \* the other end: "init", "conn", "relay", "closed"
    arrived,          \* units that reached the server's end, one connection after the
                      \* other, with End where a connection ends
    pingsTransfered,  \* Ping.pingsTransfered
    handed,           \* history: time stamps handed whole to a socket so far
    total,            \* pings sent, as the client counts them, in all
    faults            \* failures so far

clientVars == <<clientState, clientNextstate, rd, pend>>
timerVars == <<pingTimers, wakeTimers>>
countVars == <<pingsSent, handed, total>>
optVars == <<useSocks, pingSize>>
peerVars == <<optVars, arrived, pingsTransfered>>
pingVars == <<clientVars, by, sock, events, timerVars, countVars, up, down,
              phase, peerVars, faults>>

PingStates ==
    {"SOCKS_REQUEST_INIT", "SOCKS_TOREPLY_INIT", "SOCKS_REPLY_INIT",
     "SOCKS_REQUEST_CONN", "SOCKS_TOREPLY_CONN", "SOCKS_REPLY_CONN",
     "SEND", "RECEIVE", "PING", "IDLE"}

\* Every message is two units long, so that it can be cut in between.
Messages == {"init", "choice", "noauth", "request", "granted", "failed"}
Whole(m) == << <<m, 1>>, <<m, 2>> >>

\* A ping is text: a line with the cookie, one with the time and an empty line, over
\* and over, and cut at pingSize.  Each word and each line end is two units.
CookieUnit == 1
TimeUnit == 5
LineEndUnits == {3, 7, 9}
StampLen == 10
PingText == [i \in 1..pingSize |-> <<"ping", 1 + ((i - 1) % StampLen)>>]

End == <<"end", 1>>
PingUnits == (Messages \cup {"ping", "end"}) \X (1..StampLen)

\* The word (or line end) whose first unit is k stands whole at place i of a text.
WordAt(us, i, k) ==
    i \in 1..Len(us) - 1 /\ us[i] = <<"ping", k>> /\ us[i + 1] = <<"ping", k + 1>>

\* The time stamps that stand whole in a text.
StampsIn(us) == Cardinality({i \in 1..Len(us) - 1 : WordAt(us, i, TimeUnit)})

\* A failure of kind f happens now.
Fails(f) == f \in PingFaults /\ faults < MaxFaults /\ faults' = faults + 1

-----------------------------------------------------------------------------
(* Start, restart and return.                                              *)

\* pingClient_start: the handshake comes first.  The wrong variant skips it.
SkipHandshake == "PING"
FirstPingState == IF useSocks THEN "SOCKS_REQUEST_INIT" ELSE "PING"
FirstPhase == IF useSocks THEN "init" ELSE "relay"

PingInit ==
    /\ useSocks \in SocksModes /\ pingSize \in PingSizes
    /\ clientState = FirstPingState /\ clientNextstate = "SOCKS_REQUEST_INIT"
    /\ rd = 0 /\ pend = <<>> /\ by = "none"
    /\ sock = "connecting" /\ events = "OUT"
    /\ pingTimers = 0 /\ wakeTimers = 0
    /\ pingsSent = 0 /\ handed = 0 /\ total = 0
    /\ up = <<>> /\ down = <<>> /\ phase = FirstPhase
    /\ arrived = <<>> /\ pingsTransfered = 0 /\ faults = 0

\* pingClient_connect.  An error code is positive, and pingClient_start takes it
\* for a descriptor that nothing watches.
PingConnect ==
    \/ sock' = "connecting" /\ UNCHANGED faults
    \/ sock' = "bad" /\ Fails("connect")

\* The server's end of a connection that is over: what it received is still read.
Ended(us) == IF us = <<>> \/ us[Len(us)] = End THEN us ELSE Append(us, End)

\* pingClient_shutdown, pingClient_start and the callback to pingClient_wakeup.
\* The buffer and its offsets are those of the connection that failed.
Restart ==
    /\ PingConnect
    /\ clientState' = FirstPingState
    /\ events' = "OUT"
    /\ pingsSent' = 0
    /\ up' = <<>> /\ down' = <<>> /\ phase' = FirstPhase
    /\ wakeTimers' = wakeTimers + 1
    /\ arrived' = Ended(arrived)
    /\ UNCHANGED <<clientNextstate, rd, pend, handed, total, optVars, pingsTransfered>>

\* The codes after which ping_activate restarts the client.  The wrong variant
\* forgets the refused request.
FatalOnly(code) == code = "FATAL"
RestartsOn(code) == code \in {"FATAL", "SOCKSCONN"}

\* An activation ends; pingClient_wakeup ignores what it returns.
EndActivation == by' = "none"

EndsWith(code) ==
    /\ EndActivation
    /\ \/ /\ by = "event" /\ RestartsOn(code)
          /\ Restart
          /\ UNCHANGED pingTimers
       \/ /\ ~(by = "event" /\ RestartsOn(code))
          /\ UNCHANGED <<clientVars, sock, events, timerVars, countVars, up, down,
                         phase, peerVars, faults>>

-----------------------------------------------------------------------------
(* pingClient_activate, one case of its switch at a time.                  *)

Running(s) == by # "none" /\ clientState = s

Goto(s, next, r, p, e) ==
    /\ clientState' = s /\ clientNextstate' = next
    /\ rd' = r /\ pend' = p /\ events' = e
    /\ UNCHANGED <<by, sock, timerVars, countVars, down, phase, peerVars, faults>>

\* The assertions say that the buffer has room for the message; the process ends if
\* one fails.
HasRoom == rd + Len(pend) + 2 <= PingBuf

SocksRequest ==
    \/ /\ Running("SOCKS_REQUEST_INIT") /\ HasRoom
       /\ Goto("SEND", "SOCKS_TOREPLY_INIT", rd, pend \o Whole("init"), "OUT")
       /\ UNCHANGED up
    \/ /\ Running("SOCKS_REQUEST_CONN") /\ HasRoom
       /\ Goto("SEND", "SOCKS_TOREPLY_CONN", rd, pend \o Whole("request"), "OUT")
       /\ UNCHANGED up

SocksToReply ==
    \/ /\ Running("SOCKS_TOREPLY_INIT")
       /\ Goto("RECEIVE", "SOCKS_REPLY_INIT", rd, pend, "IN") /\ UNCHANGED up
    \/ /\ Running("SOCKS_TOREPLY_CONN")
       /\ Goto("RECEIVE", "SOCKS_REPLY_CONN", rd, pend, "IN") /\ UNCHANGED up

\* A reply is looked at once all of it is there.
SocksReplyInit ==
    /\ Running("SOCKS_REPLY_INIT")
    /\ \/ /\ Len(pend) < 2
          /\ Goto("SOCKS_TOREPLY_INIT", clientNextstate, rd, pend, events)
          /\ UNCHANGED up
       \/ /\ Len(pend) >= 2 /\ pend[1][1] = "choice"
          /\ Goto("SOCKS_REQUEST_CONN", clientNextstate, rd + 2,
                  SubSeq(pend, 3, Len(pend)), events)
          /\ UNCHANGED up
       \/ /\ Len(pend) >= 2 /\ pend[1][1] # "choice"
          /\ EndsWith("SOCKSINIT")

SocksReplyConn ==
    /\ Running("SOCKS_REPLY_CONN")
    /\ \/ /\ Len(pend) < 2
          /\ Goto("SOCKS_TOREPLY_CONN", clientNextstate, rd, pend, events)
          /\ UNCHANGED up
       \/ /\ Len(pend) >= 2 /\ pend[1][1] = "granted"
          /\ Goto("PING", "PING", rd + 2, SubSeq(pend, 3, Len(pend)), "OUT")
          /\ UNCHANGED up
       \/ /\ Len(pend) >= 2 /\ pend[1][1] # "granted"
          /\ EndsWith("SOCKSCONN")

\* The offset after n more units were sent from a buffer of len: a drained buffer
\* is reset.
NextOffset(n, len) == IF n = len THEN 0 ELSE rd + n

\* send takes what the socket has room for.
SendUnits ==
    LET room == PingCap - Len(up)
        n == IF room < Len(pend) THEN room ELSE Len(pend)
    IN  /\ Running("SEND") /\ sock = "up" /\ phase # "closed" /\ n > 0
        /\ up' = up \o SubSeq(pend, 1, n)
        /\ Goto(IF n = Len(pend) THEN clientNextstate ELSE "SEND", clientNextstate,
                NextOffset(n, Len(pend)), SubSeq(pend, n + 1, Len(pend)), events)

\* EWOULDBLOCK, or ENOTCONN.
SendLater ==
    /\ Running("SEND")
    /\ sock = "connecting" \/ (sock = "up" /\ phase # "closed" /\ Len(up) >= PingCap)
    /\ EndsWith("WOULDBLOCK")

SendFails ==
    /\ Running("SEND")
    /\ sock = "bad" \/ (sock = "up" /\ phase = "closed")
    /\ EndsWith("FATAL")

Receive ==
    /\ Running("RECEIVE")
    /\ \/ \E n \in 1..Len(down) :
             /\ rd + Len(pend) + n <= PingBuf
             /\ clientState' = clientNextstate
             /\ pend' = pend \o SubSeq(down, 1, n)
             /\ down' = SubSeq(down, n + 1, Len(down))
             /\ UNCHANGED <<clientNextstate, rd, by, sock, events, timerVars, countVars,
                            up, phase, peerVars, faults>>
       \/ down = <<>> /\ phase # "closed" /\ EndsWith("WOULDBLOCK")
       \/ down = <<>> /\ phase = "closed" /\ EndsWith("FATAL")

\* case PING: the first ping is scheduled; case IDLE: nothing to do.  The wrong
\* variant stays in state PING.
StayInPing == "PING"
AfterPing == "IDLE"

PingCase ==
    /\ Running("PING")
    /\ clientState' = AfterPing
    /\ events' = "IN"
    /\ pingTimers' = pingTimers + 1
    /\ EndActivation
    /\ UNCHANGED <<clientNextstate, rd, pend, sock, wakeTimers, countVars, up, down,
                   phase, peerVars, faults>>

IdleCase == Running("IDLE") /\ EndsWith("SUCCESS")

-----------------------------------------------------------------------------
(* Timers and events.                                                      *)

\* pingClient_sendPing.  What send could not take is not sent again, and a
\* socket that would block, or is not connected yet, counts as a sent ping.
SendPing ==
    LET room == PingCap - Len(up)
        n == IF sock # "up" THEN 0 ELSE IF room < pingSize THEN room ELSE pingSize
        text == SubSeq(PingText, 1, n)
    IN  /\ by = "none" /\ pingTimers > 0 /\ total < MaxPings
        /\ sock = "connecting" \/ (sock = "up" /\ phase # "closed")
        /\ up' = up \o text
        /\ handed' = handed + StampsIn(text)
        /\ pingsSent' = pingsSent + 1 /\ total' = total + 1
        /\ UNCHANGED <<clientVars, by, sock, events, timerVars, down, phase,
                       peerVars, faults>>

SendPingFails ==
    /\ by = "none" /\ pingTimers > 0 /\ total < MaxPings
    /\ sock = "bad" \/ (sock = "up" /\ phase = "closed")
    /\ pingTimers' = pingTimers - 1
    /\ Restart
    /\ UNCHANGED by

Wakeup ==
    /\ by = "none" /\ wakeTimers > 0
    /\ by' = "wake" /\ wakeTimers' = wakeTimers - 1
    /\ UNCHANGED <<clientVars, sock, events, pingTimers, countVars, up, down, phase,
                   peerVars, faults>>

\* epoll is level triggered; a hang-up is reported whatever was asked for.
ClientEvent ==
    /\ by = "none" /\ sock = "up"
    /\ \/ phase = "closed"
       \/ events = "OUT" /\ Len(up) < PingCap
       \/ events = "IN" /\ down # <<>>
    /\ by' = "event"
    /\ UNCHANGED <<clientVars, sock, events, timerVars, countVars, up, down, phase,
                   peerVars, faults>>

ActivateStep ==
    \/ SocksRequest \/ SocksToReply \/ SocksReplyInit \/ SocksReplyConn
    \/ SendUnits \/ SendLater \/ SendFails \/ Receive \/ PingCase \/ IdleCase

-----------------------------------------------------------------------------
(* The other end: the network, a SOCKS proxy that hangs up on anything but *)
(* the handshake, and the ping server.                                     *)

exceptPeer == <<optVars, clientVars, by, events, timerVars, countVars>>

NetConnect ==
    /\ sock = "connecting" /\ sock' = "up"
    /\ UNCHANGED <<exceptPeer, up, down, phase, peerVars, faults>>

ProxyAnswers(from, ask, to, yes, no, fault) ==
    /\ sock = "up" /\ phase = from /\ Len(up) >= 2
    /\ up' = SubSeq(up, 3, Len(up))
    /\ \/ /\ SubSeq(up, 1, 2) = Whole(ask)
          /\ phase' = to /\ down' = down \o Whole(yes) /\ UNCHANGED faults
       \/ /\ SubSeq(up, 1, 2) = Whole(ask) /\ Fails(fault)
          /\ phase' = "closed" /\ down' = down \o Whole(no)
       \/ /\ SubSeq(up, 1, 2) # Whole(ask)
          /\ phase' = "closed" /\ UNCHANGED <<down, faults>>
    /\ UNCHANGED <<exceptPeer, sock, peerVars>>

Proxy ==
    \/ ProxyAnswers("init", "init", "conn", "choice", "noauth", "reject")
    \/ ProxyAnswers("conn", "request", "relay", "granted", "failed", "refuse")

HangUp ==
    /\ sock = "up" /\ phase # "closed" /\ Fails("hangup")
    /\ phase' = "closed" /\ up' = <<>>
    /\ UNCHANGED <<exceptPeer, sock, down, peerVars>>

Relay ==
    /\ sock = "up" /\ phase = "relay" /\ up # <<>>
    /\ arrived' = Append(arrived, Head(up)) /\ up' = Tail(up)
    /\ UNCHANGED <<exceptPeer, sock, down, phase, pingsTransfered, faults>>

\* Where the parts begin into which g_strsplit cuts a text at its line ends, and
\* which of them are empty: one before each second line end in a row, and the last,
\* when the text ends with a line end.
PartsOf(us) ==
    {1} \cup {i + 2 : i \in {j \in 1..Len(us) : \E k \in LineEndUnits : WordAt(us, j, k)}}
Empty(us, i) == i = Len(us) + 1 \/ \E k \in LineEndUnits : WordAt(us, i, k)

\* A ping is counted for every empty part after a cookie and a time, which are never
\* forgotten before the end of the text: a ping that ends it counts twice.  The
\* wrong variant counts every empty part.
EmptyParts(us) == Cardinality({i \in PartsOf(us) : Empty(us, i)})
Parsed(us) ==
    LET parts == PartsOf(us)
    IN  Cardinality({i \in parts :
            /\ Empty(us, i)
            /\ \E a \in parts : a < i /\ WordAt(us, a, CookieUnit)
            /\ \E b \in parts : b < i /\ WordAt(us, b, TimeUnit)})

\* pingServer_activate and the report of ping_activate: what one recv returns is
\* parsed by itself, and the rest of a line that it cuts is not understood.
ServerActivate ==
    \E n \in 1..Len(arrived) :
        /\ \/ /\ n <= RecvCap /\ \A i \in 1..n : arrived[i] # End
              /\ n < RecvCap /\ n < Len(arrived) => arrived[n + 1] = End
              /\ pingsTransfered' = pingsTransfered + Parsed(SubSeq(arrived, 1, n))
           \/ n = 1 /\ arrived[1] = End /\ UNCHANGED pingsTransfered
        /\ arrived' = SubSeq(arrived, n + 1, Len(arrived))
        /\ UNCHANGED <<exceptPeer, sock, up, down, phase, faults>>

PingNext ==
    \/ ActivateStep \/ SendPing \/ SendPingFails \/ Wakeup \/ ClientEvent
    \/ NetConnect \/ Proxy \/ HangUp \/ Relay \/ ServerActivate

\* Event loop and timers run, the network and the proxy answer.
PingSpec ==
    /\ PingInit /\ [][PingNext]_pingVars
    /\ WF_pingVars(ActivateStep) /\ WF_pingVars(ClientEvent) /\ WF_pingVars(NetConnect)
    /\ SF_pingVars(SendPing) /\ SF_pingVars(SendPingFails) /\ SF_pingVars(Wakeup)
    /\ WF_pingVars(Proxy) /\ WF_pingVars(Relay) /\ WF_pingVars(ServerActivate)

-----------------------------------------------------------------------------
(* Properties.                                                             *)

\* There is one chain of ping callbacks, and only while the client is idle:
\* restarts, wake-ups and events never leave two pingClient_sendPing callbacks
\* pending, which would double the ping rate from then on, and none fires during
\* the handshake of a new connection.
OneChain == pingTimers = IF clientState = "IDLE" THEN 1 ELSE 0

\* A ping is only written to a connection whose proxy has granted the request.
PingAfterGrant ==
    phase \in {"init", "conn"} => \A i \in 1..Len(up) : up[i][1] # "ping"

\* The server reports a ping only for a time stamp that a client handed whole to its
\* socket, and none more than twice, in whatever pieces the texts are sent, cut off,
\* received and parsed.  (Twice: pingServer_activate takes the end of what it received
\* for another empty line, so a ping that ends there is reported twice.)
NoPhantomPing == pingsTransfered <= 2 * handed

\* The two failures the client does not come back from: an authentication
\* refusal, and a connect that failed at once.
Stuck ==
    \/ sock = "bad"
    \/ clientState = "SOCKS_REPLY_INIT" /\ Len(pend) >= 2 /\ pend[1][1] # "choice"

\* Hang-ups and refused requests never stop the pings: the client reconnects and
\* goes on until all are sent.
PingsGoOn == <>(total = MaxPings \/ Stuck)
=============================================================================
