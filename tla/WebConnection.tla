--------------------------- MODULE WebConnection ----------------------------
(***************************************************************************)
(* A connection of the web browser (web/utility/connection.cc) and the     *)
(* socket event it listens to (myevent.cc): the SOCKS handshake, the one   *)
(* request it has under way, the callbacks it is registered with.          *)
(*                                                                         *)
(* The operators take the state s of the browser process and return the    *)
(* next one: s.conn[i] is connection i, s.req[u] the Request for URL u.    *)
(* What the network carries is a sequence of units, which stand for a      *)
(* line of the response's header or for a piece of its body.               *)
(***************************************************************************)
EXTENDS Integers, Sequences, SequencesExt

CONSTANTS
    Urls,         \* what can be requested
    Host,         \* [Urls -> hosts], the NetLoc of each
    Size,         \* [Urls -> Nat], pieces of the body
    ConnIds       \* Connection objects that exist at a time (bound)

ASSUME ConnectionAssumption ==
    /\ \A u \in Urls : Size[u] \in Nat \ {0}
    /\ ConnIds \subseteq Nat \ {0}

Hosts == {Host[u] : u \in Urls}

\* A failed myassert: the process ends.
Abort(s, why) == IF s.abort = "no" THEN [s EXCEPT !.abort = why] ELSE s

NewRequest == [retries |-> 0, first |-> 0, size |-> 0]

Unit(kind, val) == [kind |-> kind, val |-> val]

\* The web server's answer to GET u with first_byte_pos first: the length and, if
\* a range was asked for, the range, then the body from there on.
Response(u, first) ==
    <<Unit("status", 0), Unit("length", Size[u] - first)>>
      \o (IF first > 0 THEN <<Unit("range", first)>> ELSE <<>>)
      \o <<Unit("blank", 0)>>
      \o [k \in 1..(Size[u] - first) |-> Unit("body", first + k - 1)]

-----------------------------------------------------------------------------
(* The Connection object.  todo, inp, up and closed are the socket: what   *)
(* is on its way, what has arrived, whether it is connected and whether    *)
(* the other side has closed.                                              *)

NoConn ==
    [st |-> "none", host |-> "none", socks |-> "SOCKS5_NONE", sub |-> <<>>, act |-> <<>>,
     first |-> 0, out |-> FALSE, rsp |-> "STATUS_LINE", blen |-> -1, ranged |-> FALSE,
     mev |-> "INIT", readcb |-> "NULL", writecb |-> "NULL", wen |-> FALSE,
     todo |-> <<>>, inp |-> <<>>, up |-> FALSE, closed |-> FALSE]

EnableWrite(c) == IF c.wen THEN c ELSE [c EXCEPT !.writecb = "http", !.wen = TRUE]
DisableWrite(c) == IF c.wen THEN [c EXCEPT !.writecb = "NULL", !.wen = FALSE] ELSE c

\* The constructor and initiate_connection, to the SOCKS proxy if there is one.
NewConnection(h, proxy) ==
    LET c == [NoConn EXCEPT !.st = "CONNECTING", !.host = h, !.mev = "CONNECTING"]
    IN  IF proxy THEN [c EXCEPT !.writecb = "socks"]
        ELSE EnableWrite([c EXCEPT !.readcb = "http"])

QueueSize(c) == Len(c.sub) + Len(c.act)

\* The range of a request.  The wrong variant keeps that of the one before.
StickyFirst(c, r) == IF r.first > 0 THEN r.first ELSE c.first
FirstByte(c, r) == r.first

\* http_write_to_outbuf: without pipelining, the next request waits for the one
\* under way.  Before the connection is up the write event is left alone.
HttpWriteToOutbuf(s, i) ==
    LET c == s.conn[i]
        d == [c EXCEPT !.sub = Tail(@), !.act = Append(@, Head(c.sub)),
                       !.first = FirstByte(c, s.req[Head(c.sub)]), !.out = TRUE]
    IN  IF c.sub = <<>> \/ c.act # <<>> THEN s
        ELSE [s EXCEPT !.conn[i] = IF c.st = "CONNECTED" THEN EnableWrite(d) ELSE d]

\* submit_request of a Connection.
ConnSubmit(s, i, u) ==
    IF s.conn[i].st = "none" THEN Abort(s, "unusable")
    ELSE HttpWriteToOutbuf([s EXCEPT !.conn[i].sub = Append(@, u)], i)

\* send_: the socket has room for the one request that is under way.  To a
\* server that has closed the connection it is lost.
Send(s, i) ==
    LET t == HttpWriteToOutbuf(s, i)
        c == t.conn[i]
    IN  [t EXCEPT !.conn[i] =
            IF ~c.out THEN DisableWrite(c)
            ELSE [c EXCEPT !.out = FALSE, !.readcb = "http",
                           !.todo = IF c.closed THEN <<>>
                                    ELSE @ \o Response(Head(c.act), c.first)]]

OnConnect(s, i) ==
    IF s.conn[i].st # "CONNECTING" THEN Abort(s, "connect")
    ELSE Send([s EXCEPT !.conn[i].st = "CONNECTED"], i)

\* The proxy is connected: the greeting is written, and it will answer.
OnSocksConnected(s, i) ==
    [s EXCEPT !.conn[i] = [@ EXCEPT !.socks = "SOCKS5_GREETING", !.readcb = "socks",
                                    !.writecb = "NULL", !.todo = <<Unit("greet", 0)>>]]

\* on_socks5_proxy_writable: the request for the server is written.
OnSocksWritable(s, i) ==
    IF s.conn[i].socks # "SOCKS5_WRITE_REQUEST_NEXT" THEN s
    ELSE [s EXCEPT !.conn[i] = [@ EXCEPT !.socks = "SOCKS5_READ_RESP_NEXT",
                                         !.readcb = "socks", !.writecb = "NULL",
                                         !.todo = <<Unit("grant", 0)>>]]

\* on_socks5_proxy_readable, when the greeting is answered or the request granted.
OnSocksGreeted(s, i) ==
    [s EXCEPT !.conn[i] = [@ EXCEPT !.socks = "SOCKS5_WRITE_REQUEST_NEXT",
                                    !.inp = Tail(s.conn[i].inp),
                                    !.writecb = "socks", !.readcb = "NULL"]]
OnSocksGranted(s, i) ==
    IF s.conn[i].wen THEN Abort(s, "write-enabled")
    ELSE [s EXCEPT !.conn[i] =
            EnableWrite([@ EXCEPT !.st = "CONNECTED", !.socks = "SOCKS5_NONE",
                                  !.inp = Tail(s.conn[i].inp),
                                  !.readcb = "http", !.writecb = "NULL"])]

\* EPOLLOUT in myevent_socket_t::trigger.
OnOut(s, i) ==
    LET c == s.conn[i]
        t == [s EXCEPT !.conn[i].mev = "CONNECTED"]
    IN  CASE c.mev = "CONNECTING" /\ s.proxy -> OnSocksConnected(t, i)
          [] c.mev = "CONNECTING" /\ ~s.proxy -> OnConnect(t, i)
          [] c.mev # "CONNECTING" /\ c.writecb = "http" -> Send(s, i)
          [] c.mev # "CONNECTING" /\ c.writecb = "socks" -> OnSocksWritable(s, i)
          [] OTHER -> s

\* What epoll reports of a connection.
Ready(c) ==
    (IF c.up /\ (c.mev = "CONNECTING" \/ c.writecb # "NULL") THEN {"OUT"} ELSE {})
      \cup (IF c.up /\ c.readcb # "NULL" /\ (c.inp # <<>> \/ c.closed) THEN {"IN"} ELSE {})
=============================================================================
