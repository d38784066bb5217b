----------------------------- MODULE FileGetter -----------------------------
(***************************************************************************)
(* The HTTP client of the filetransfer plug-in (filegetter.c): downloads   *)
(* one file at a time over a non-blocking socket, directly or through a    *)
(* SOCKS proxy, and keeps the connection if it is told to.                 *)
(*                                                                         *)
(* The filegetter_t is the record fg, so that the calls which only change  *)
(* it are functions on records that a caller can compose.  A run of        *)
(* filegetter_activate is a sequence of steps, one per trip through the    *)
(* switch; run says where it is, ret what the last one returned.  The      *)
(* caller takes over at "back" (and uses "over" for a jump of its own).    *)
(***************************************************************************)
EXTENDS Net

CONSTANTS
    FgBufSize,     \* sizeof(fg->buf), FT_BUF_SIZE
    ReqCap,        \* capacity of the path from a client socket to its peer
    UseSocks,      \* sspec names a SOCKS proxy
    Persistent,    \* sspec.persistent
    SocksLen,      \* SocksLen[m]: length of SOCKS message m
    FgFaults       \* the client's system calls that may fail

NoCode == "none"
FgFaultKinds == {"connect", "refused", "recv", "send"}

\* The messages of the SOCKS handshake.
SocksRequests == {"socks-init", "socks-conn"}
Choices == {"choice-ok", "choice-bad"}
SocksReplies == {"conn-ok", "conn-bad", "conn-moved"}
SocksMessages == SocksRequests \cup Choices \cup SocksReplies

ASSUME GetterAssumption ==
    /\ ReqCap \in Nat \ {0}
    /\ UseSocks \in BOOLEAN /\ Persistent \in BOOLEAN
    /\ SocksLen \in [SocksMessages -> Nat \ {0}]
    /\ SocksLen["conn-moved"] = SocksLen["conn-ok"]   \* both name an IPv4 address
    /\ FgFaults \subseteq FgFaultKinds
    /\ Files \cap SocksMessages = {}

\* FT_BUF_SIZE holds each request and each header, so the asserts on buffer space
\* and FG_ASSERTBUF never fire.
ASSUME GetterBufferAssumption ==
    /\ FgBufSize \in Nat /\ HdrLen < FgBufSize /\ NotFoundLen < FgBufSize
    /\ \A m, n \in SocksMessages : SocksLen[m] + SocksLen[n] < FgBufSize
    /\ \A m \in SocksMessages, k \in RequestKinds :
          SocksLen[m] + ReqLen[k] < FgBufSize

VARIABLES
    fg,       \* the filegetter_t
    run,      \* "no", or where filegetter_activate is: "enter", "switch", "back"
    ret,      \* the code the last activation returned
    aborted   \* an assertion failed and the process is gone

getterVars == <<fg, run, ret, aborted>>

\* memset(fg, 0) and filegetter_start: waiting for a specification.  all is the
\* aggregate allstats.body_bytes_downloaded, body the units counted in curstats.
FgZero == [state |-> "FG_IDLE", nextstate |-> "FG_IDLE", sockd |-> NoSock,
           events |-> "OUT", buf |-> <<>>, rd |-> 0, spec |-> NoKind,
           expected |-> 0, body |-> <<>>, all |-> 0]
FgStarted == [FgZero EXCEPT !.state = "FG_SPEC"]

\* filegetter_shutdown, but for closing the socket.
FgStopped == [fg EXCEPT !.state = "FG_IDLE", !.sockd = NoSock]

\* filegetter_set_specs: a new file, everything about the previous one forgotten.
SetSpecs(f, k) ==
    [f EXCEPT !.spec = k, !.buf = <<>>, !.rd = 0, !.expected = 0, !.body = <<>>]

GetterInit ==
    /\ fg = FgStarted
    /\ run = "no"
    /\ ret = NoCode
    /\ aborted = FALSE

-----------------------------------------------------------------------------
(* Sockets.                                                                *)

\* close(c) on the client's side; its unread data is gone.
CloseEnd(f, c) ==
    IF c = NoSock THEN f
    ELSE [f EXCEPT ![c] = IF @ \in {"open", "closed"} THEN "closed" ELSE "none"]
DropData(f, c) == IF c = NoSock THEN f ELSE [f EXCEPT ![c] = <<>>]

\* filegetter_disconnect.  The wrong variant forgets close.
KeepOpen == UNCHANGED <<conn, cli, req, rep>>
Disconnect ==
    /\ cli' = CloseEnd(cli, fg.sockd)
    /\ rep' = DropData(rep, fg.sockd)
    /\ UNCHANGED <<conn, req>>

\* A connection that neither end holds any more.
Unused(c) == cli[c] \in {"none", "closed"} /\ conn[c] \in {"free", "closed"}

\* socket and a non-blocking connect that does not fail at once: the connection
\* is being set up on c.
ConnectOn(c, closed) ==
    /\ Unused(c) /\ c # closed
    /\ cli' = [CloseEnd(cli, closed) EXCEPT ![c] = "connecting"]
    /\ req' = [req EXCEPT ![c] = <<>>]
    /\ rep' = [DropData(rep, closed) EXCEPT ![c] = <<>>]
    /\ conn' = [conn EXCEPT ![c] = "free"]

\* socket, and a connect that fails at once: filegetter_connect returns without
\* closing the descriptor, which is connected to nothing.
LeftOpen(f, c) == [f EXCEPT ![c] = "stray"]

\* fg holds the new socket, watched for writability.  The wrong variant does not
\* store it.
NotStored(f, c) == [f EXCEPT !.events = "OUT"]
Opened(f, c) == [f EXCEPT !.sockd = c, !.events = "OUT"]

\* The kernel finishes setting up a connection, or finds nobody listening.
Establish(c) ==
    /\ cli[c] = "connecting"
    /\ \/ /\ cli' = [cli EXCEPT ![c] = "open"]
          /\ conn' = [conn EXCEPT ![c] = "pending"]
       \/ /\ "refused" \in FgFaults
          /\ cli' = [cli EXCEPT ![c] = "refused"]
          /\ UNCHANGED conn
    /\ UNCHANGED <<req, rep, getterVars>>

\* epoll is level triggered, and reports errors and hang-ups whatever the interest.
FgReady ==
    /\ fg.sockd # NoSock
    /\ LET c == fg.sockd IN
       \/ cli[c] = "refused"
       \/ cli[c] = "open" /\ conn[c] = "closed"
       \/ cli[c] = "open" /\ fg.events = "OUT" /\ Len(req[c]) < ReqCap
       \/ cli[c] = "open" /\ fg.events = "IN" /\ rep[c] # <<>>

-----------------------------------------------------------------------------
(* filegetter_download.                                                    *)

FirstState == IF UseSocks THEN "FG_REQUEST_SOCKS_INIT" ELSE "FG_REQUEST_HTTP"

\* A download over the connection that is still there.
ReuseConnection(k) ==
    /\ Persistent /\ fg.sockd # NoSock
    /\ fg' = [SetSpecs(fg, k) EXCEPT !.state = "FG_REQUEST_HTTP", !.events = "OUT"]
    /\ UNCHANGED <<conn, netVars>>

\* A download over a new connection.  A socket that fg still holds stays open.
NewConnection(k, c) ==
    /\ ~(Persistent /\ fg.sockd # NoSock)
    /\ ConnectOn(c, NoSock)
    /\ fg' = [Opened(SetSpecs(fg, k), c) EXCEPT !.state = FirstState]

\* socket or connect fails: the specs are set, the state is not.  The descriptor
\* of a socket whose connect failed stays open, and fg does not know it.
ConnectFails(k) ==
    /\ ~(Persistent /\ fg.sockd # NoSock)
    /\ "connect" \in FgFaults
    /\ fg' = SetSpecs(fg, k)
    /\ \/ UNCHANGED cli
       \/ \E c \in Socks : Unused(c) /\ cli' = LeftOpen(cli, c)
    /\ UNCHANGED <<conn, req, rep>>

-----------------------------------------------------------------------------
(* filegetter_activate.                                                    *)

Returns(code) == run' = "back" /\ ret' = code /\ UNCHANGED aborted
Goto == UNCHANGED <<run, ret, aborted>>

\* filegetter_die: shut down and report a fatal error.
Die == fg' = FgStopped /\ Disconnect /\ Returns("FG_ERR_FATAL")

NetUnchanged == UNCHANGED <<conn, netVars>>

\* FG_ASSERTSTATE.
StateOK ==
    /\ fg.state # "FG_IDLE" /\ fg.sockd # NoSock
    /\ fg.rd < FgBufSize /\ Len(fg.buf) < FgBufSize /\ fg.rd <= Len(fg.buf)

Enter ==
    /\ run = "enter"
    /\ \/ StateOK /\ run' = "switch" /\ UNCHANGED aborted
       \/ ~StateOK /\ run' = "no" /\ aborted' = TRUE
    /\ UNCHANGED <<fg, ret>> /\ NetUnchanged

At(s) == run = "switch" /\ fg.state = s

\* case FG_SPEC: activated although there is nothing to download.
NeedSpec ==
    /\ At("FG_SPEC")
    /\ Returns("FG_ERR_NEEDFSPEC")
    /\ UNCHANGED fg /\ NetUnchanged

\* The units of request message m of length n.
Message(m, n) == [i \in 1..n |-> [k |-> m, first |-> i = 1, last |-> i = n]]

\* cases FG_REQUEST_*: append the request to the buffer, send it, then wait for
\* the reply.
MakeRequest(s, m, n, next) ==
    /\ At(s)
    /\ fg' = [fg EXCEPT !.buf = @ \o Message(m, n), !.state = "FG_SEND",
                        !.nextstate = next, !.events = "OUT"]
    /\ Goto /\ NetUnchanged

Requests ==
    \/ MakeRequest("FG_REQUEST_SOCKS_INIT", "socks-init", SocksLen["socks-init"],
                   "FG_TOREPLY_SOCKS_INIT")
    \/ MakeRequest("FG_REQUEST_SOCKS_CONN", "socks-conn", SocksLen["socks-conn"],
                   "FG_TOREPLY_SOCKS_CONN")
    \/ MakeRequest("FG_REQUEST_HTTP", fg.spec, ReqLen[fg.spec], "FG_TOREPLY_HTTP")

\* cases FG_TOREPLY_*: watch for input, receive, then look at it.
ToReply(s, next) ==
    /\ At(s)
    /\ fg' = [fg EXCEPT !.events = "IN", !.state = "FG_RECEIVE",
                        !.nextstate = next]
    /\ Goto /\ NetUnchanged

ToReplies ==
    \/ ToReply("FG_TOREPLY_SOCKS_INIT", "FG_REPLY_SOCKS_INIT")
    \/ ToReply("FG_TOREPLY_SOCKS_CONN", "FG_REPLY_SOCKS_CONN")
    \/ ToReply("FG_TOREPLY_HTTP", "FG_REPLY_HTTP")

\* How much of the buffer has not been looked at, and what its first unit says.
Avail == Len(fg.buf) - fg.rd
Head1 == fg.buf[fg.rd + 1][1]

\* case FG_REPLY_SOCKS_INIT.
SocksInitReply ==
    /\ At("FG_REPLY_SOCKS_INIT")
    /\ \/ /\ Avail < SocksLen["choice-ok"]
          /\ fg' = [fg EXCEPT !.state = "FG_TOREPLY_SOCKS_INIT"]
          /\ Goto
       \/ /\ Avail >= SocksLen["choice-ok"] /\ Head1 = "choice-bad"
          /\ Returns("FG_ERR_SOCKSINIT")
          /\ UNCHANGED fg
       \/ /\ Avail >= SocksLen["choice-ok"] /\ Head1 = "choice-ok"
          /\ fg' = [fg EXCEPT !.rd = @ + SocksLen["choice-ok"],
                              !.state = "FG_REQUEST_SOCKS_CONN"]
          /\ Goto
    /\ NetUnchanged

\* The buffer once the SOCKS connection reply has been read.
Connected == [fg EXCEPT !.rd = @ + SocksLen["conn-ok"],
                        !.state = "FG_REQUEST_HTTP", !.nextstate = "FG_REQUEST_HTTP"]

\* case FG_REPLY_SOCKS_CONN, except for a reply that names another address.
SocksConnReply ==
    /\ At("FG_REPLY_SOCKS_CONN")
    /\ \/ /\ Avail < SocksLen["conn-ok"]
          /\ fg' = [fg EXCEPT !.state = "FG_TOREPLY_SOCKS_CONN"]
          /\ Goto
       \/ /\ Avail >= SocksLen["conn-ok"] /\ Head1 = "conn-bad"
          /\ Returns("FG_ERR_SOCKSCONN")
          /\ UNCHANGED fg
       \/ /\ Avail >= SocksLen["conn-ok"] /\ Head1 = "conn-ok"
          /\ fg' = Connected
          /\ Goto
    /\ NetUnchanged

\* The proxy named another address: close the socket and connect there.  When
\* that fails fg->sockd keeps the number of the closed socket.  If connect failed
\* and socket had given that number to the new descriptor, fg holds it and will
\* close it; else nobody does.
SocksMoved ==
    /\ At("FG_REPLY_SOCKS_CONN")
    /\ Avail >= SocksLen["conn-ok"] /\ Head1 = "conn-moved"
    /\ \/ \E c \in Socks :
             /\ ConnectOn(c, fg.sockd)
             /\ fg' = Opened(Connected, c)
             /\ Goto
       \/ /\ "connect" \in FgFaults
          /\ \/ /\ cli' = CloseEnd(cli, fg.sockd)
                /\ fg' = [fg EXCEPT !.rd = @ + SocksLen["conn-ok"]]
             \/ \E c \in Socks :
                   /\ Unused(c) /\ c # fg.sockd
                   /\ cli' = LeftOpen(CloseEnd(cli, fg.sockd), c)
                   /\ \E n \in {c, fg.sockd} :
                         fg' = [fg EXCEPT !.rd = @ + SocksLen["conn-ok"], !.sockd = n]
          /\ rep' = DropData(rep, fg.sockd)
          /\ UNCHANGED <<conn, req>>
          /\ Returns("FG_ERR_SOCKSCONN")

\* strcasestr: the first n units of the reply of kind k are in the buffer.
Holds(k, n) == \E i \in fg.rd .. Len(fg.buf) - n : \A j \in 1..n : fg.buf[i + j] = <<k, j>>
HeaderEnd(k) == CHOOSE i \in 1..Len(fg.buf) : fg.buf[i] = <<k, HdrLen>>

\* case FG_REPLY_HTTP: an error, an incomplete header, or a header that announces
\* how much is coming.
HttpReply ==
    /\ At("FG_REPLY_HTTP")
    /\ \/ /\ Holds(NotFound, NotFoundLen)
          /\ fg' = [fg EXCEPT !.rd = @ + NotFoundLen, !.state = "FG_SPEC",
                              !.nextstate = "FG_REQUEST_HTTP"]
          /\ Returns("FG_ERR_404")
       \/ /\ ~Holds(NotFound, NotFoundLen) /\ \A k \in Files : ~Holds(k, HdrLen)
          /\ fg' = [fg EXCEPT !.state = "FG_RECEIVE", !.nextstate = "FG_REPLY_HTTP"]
          /\ Goto
       \/ /\ ~Holds(NotFound, NotFoundLen)
          /\ \E k \in Files :
                /\ Holds(k, HdrLen)
                /\ fg' = [fg EXCEPT !.expected = FileLen[k], !.rd = HeaderEnd(k),
                                    !.state = "FG_CHECK_DOWNLOAD"]
          /\ Goto
    /\ NetUnchanged

\* The buffer after send took n units: reset when all of it is gone.
\* The wrong variant forgets that.
NotDrained(n) == [fg EXCEPT !.rd = @ + n,
                            !.state = IF fg.rd + n = Len(fg.buf) THEN fg.nextstate ELSE @]
Drained(n) ==
    IF fg.rd + n = Len(fg.buf)
    THEN [fg EXCEPT !.rd = 0, !.buf = <<>>, !.state = fg.nextstate]
    ELSE [fg EXCEPT !.rd = @ + n]

\* case FG_SEND.  What is sent to a peer that has closed goes nowhere.
Send ==
    /\ At("FG_SEND")
    /\ LET c == fg.sockd
           room == Smaller(Avail, ReqCap - Len(req[c]))
       IN \/ /\ cli[c] = "connecting" \/ (cli[c] = "open" /\ Len(req[c]) >= ReqCap)
             /\ Returns("FG_ERR_WOULDBLOCK")
             /\ UNCHANGED fg /\ NetUnchanged
          \/ /\ \/ cli[c] = "refused" \/ conn[c] = "closed" \/ "send" \in FgFaults
             /\ Die
          \/ /\ cli[c] = "open" /\ room > 0
             /\ req' = [req EXCEPT ![c] = IF conn[c] = "closed" THEN @ ELSE
                                          @ \o SubSeq(fg.buf, fg.rd + 1, fg.rd + room)]
             /\ fg' = Drained(room)
             /\ Goto /\ UNCHANGED <<conn, cli, rep>>

\* case FG_RECEIVE.  recv returns 0 when the peer has closed, and also when there
\* is no space in the buffer.
Receive ==
    /\ At("FG_RECEIVE")
    /\ LET c == fg.sockd
           n == Smaller(FgBufSize - Len(fg.buf), Len(rep[c]))
       IN \/ /\ rep[c] = <<>> /\ conn[c] # "closed" /\ cli[c] = "open"
             /\ Returns("FG_ERR_WOULDBLOCK")
             /\ UNCHANGED fg /\ NetUnchanged
          \/ /\ \/ rep[c] = <<>> /\ conn[c] = "closed"
                \/ Len(fg.buf) = FgBufSize
                \/ "recv" \in FgFaults
             /\ Die
          \/ /\ n > 0
             /\ fg' = [fg EXCEPT !.buf = @ \o SubSeq(rep[c], 1, n),
                                 !.state = fg.nextstate]
             /\ rep' = [rep EXCEPT ![c] = SubSeq(@, n + 1, Len(@))]
             /\ Goto /\ UNCHANGED <<conn, cli, req>>

\* The wrong variant compares with the wrong operator.
EnoughEarly(n, m) == n + 1 >= m
Enough(n, m) == n >= m

\* case FG_CHECK_DOWNLOAD: count what came, and stop when it is all there.
CheckDownload ==
    LET more == SubSeq(fg.buf, fg.rd + 1, Len(fg.buf))
        taken == [fg EXCEPT !.body = @ \o more, !.all = @ + Len(more),
                            !.buf = <<>>, !.rd = 0]
    IN  /\ At("FG_CHECK_DOWNLOAD")
        /\ \/ /\ Enough(Len(taken.body), fg.expected)
              /\ Returns("FG_OK_200")
              /\ IF Persistent
                 THEN /\ fg' = [taken EXCEPT !.state = "FG_SPEC"]
                      /\ UNCHANGED <<conn, netVars>>
                 ELSE /\ fg' = [taken EXCEPT !.state = "FG_SPEC", !.sockd = NoSock]
                      /\ Disconnect
           \/ /\ ~Enough(Len(taken.body), fg.expected)
              /\ fg' = [taken EXCEPT !.state = "FG_RECEIVE",
                                     !.nextstate = "FG_CHECK_DOWNLOAD"]
              /\ Goto /\ UNCHANGED <<conn, netVars>>

GetterStep ==
    \/ Enter \/ NeedSpec \/ Requests \/ ToReplies
    \/ SocksInitReply \/ SocksConnReply \/ SocksMoved
    \/ HttpReply \/ Send \/ Receive \/ CheckDownload

-----------------------------------------------------------------------------
(* Properties of the filegetter, whatever it is composed with.             *)

\* What is counted as the body of a file is a prefix of that file, in order and
\* never too long, whatever chunks the header and the body arrive in, and after
\* whatever was downloaded over the connection before.
BodyInOrder ==
    /\ fg.body # <<>> => fg.spec \in Files
    /\ \A i \in 1..Len(fg.body) :
          i <= FileLen[fg.spec] /\ fg.body[i] = <<fg.spec, HdrLen + i>>

\* FG_OK_200 means the whole file and nothing else, FG_ERR_404 that there is none.
DownloadExact ==
    /\ BodyInOrder
    /\ run = "back" =>
           /\ ret = "FG_OK_200" =>
                 fg.spec \in Files /\ Len(fg.body) = FileLen[fg.spec]
           /\ ret = "FG_ERR_404" => fg.spec \notin Files

\* The assertions of FG_ASSERTSTATE hold whenever the filegetter is activated.
NoAbort == ~aborted

\* Of the descriptors the client has open, those it got a connection on, or may yet
\* get or be refused one on, are the one the filegetter holds: errors, 404s and a
\* proxy that sends it elsewhere leave none of these behind.  (The descriptors of
\* connects that failed at once do stay open, "stray", and are the only others.)
Tidy ==
    \A c \in Socks : cli[c] \in {"connecting", "refused", "open"} => c = fg.sockd
=============================================================================
