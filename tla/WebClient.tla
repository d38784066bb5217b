----------------------------- MODULE WebClient ------------------------------
(***************************************************************************)
(* The web plug-in's browser process: its connections read responses and   *)
(* call back the connection manager and the browser, epoll hands out       *)
(* events, Shadow runs the callbacks that were scheduled, and the network  *)
(* delivers, or the server closes a connection.                            *)
(*                                                                         *)
(* Code takes no simulated time: a callback scheduled for now runs before  *)
(* anything else of the process.                                           *)
(***************************************************************************)
EXTENDS WebBrowser

CONSTANTS
    Settings,     \* what the browser is started with: a load timeout (timed), a SOCKS
                  \* proxy, max_persist_cnx_per_srv_; and how many connections
                  \* are closed or refused (drops, bound), how much happens of
                  \* what the code is not written for (odds, bound)
    MaxLoads      \* loads of the page (bound)

ASSUME ClientAssumption ==
    /\ Settings \subseteq [timed : BOOLEAN, proxy : BOOLEAN, persist : Nat \ {0},
                           drops : Nat, odds : Nat]
    /\ MaxLoads \in Nat \ {0}

VARIABLES
    s,        \* the process
    batch,    \* the events of the epoll_wait under way that are not yet handled
    left,     \* what may still go wrong: drops, connections that are closed or refused,
              \* and odds
    odd       \* history: what has happened that the code is not written for: "split", a
              \* response's header arrived in pieces; "pending", a connection was closed
              \* that may get a second request (MayQueue); "tie", a timer fired while a
              \* callback was waiting

webVars == <<s, batch, left, odd>>
faultVars == <<left, odd>>

\* A connection is dropped (n = 1) or not (n = 0), and this is f, if it is so.
Takes(n, f, so) ==
    /\ left.drops >= n /\ (so => left.odds > 0)
    /\ left' = [drops |-> left.drops - n, odds |-> IF so THEN left.odds - 1 ELSE left.odds]
    /\ odd' = IF so THEN odd \cup {f} ELSE odd

-----------------------------------------------------------------------------
(* What a connection does with what it reads.                              *)

\* retry_requests, for one request: give it up or submit it again.
RetryRequest(t, u) ==
    IF t.req[u].retries = MaxRetries THEN ResponseFinished(t, u)
    ELSE SubmitRequest([t EXCEPT !.req[u] = Retried(@)], u)
RetryRequests(t, us) ==
    LET after[k \in 0..Len(us)] ==
            IF k = 0 THEN t ELSE RetryRequest(after[k - 1], us[k])
    IN  after[Len(us)]

\* on_eof and on_error: handle_unusable_conn.
Unusable(t, i) ==
    LET c == t.conn[i]
    IN  IF c.sub # <<>> THEN Abort(ReleaseConn(t, i), "pending")
        ELSE RetryRequests(ReleaseConn(t, i), c.act)

\* The end of a body in http_receive.
BodyDone(t, i) ==
    LET u == Head(t.conn[i].act)
        popped == [t EXCEPT !.conn[i].act = Tail(@)]
        told == [ResponseFinished(popped, u) EXCEPT !.conn[i].blen = -1,
                                                    !.conn[i].rsp = "STATUS_LINE"]
    IN  HttpWriteToOutbuf(RequestDone(told, i), i)

\* notify_rsp_body_data (history: s.misplaced, the piece is not the next one).
BodyData(t, i, x) ==
    LET u == Head(t.conn[i].act)
    IN  [t EXCEPT !.conn[i].blen = @ - 1, !.req[u].size = @ + 1,
                  !.misplaced = @ \/ x.val # t.req[u].size]

\* The end of the header in http_receive, with response_meta_cb.
HeaderDone(t, i) ==
    LET c == t.conn[i]
    IN  IF ~c.ranged /\ c.first > 0 THEN Abort(t, "content-range")
        ELSE IF c.blen <= 0 THEN Abort(t, "empty-body")
        ELSE [t EXCEPT !.conn[i].rsp = "BODY", !.b.html = @ \/ Head(c.act) = Doc]

ContentRange(t, i, x) ==
    IF x.val # t.conn[i].first THEN Abort(t, "first-byte-pos")
    ELSE [t EXCEPT !.conn[i].ranged = TRUE]

\* One unit in http_receive.
HttpUnit(t, i, x) ==
    LET got == IF x.kind = "body" THEN BodyData(t, i, x) ELSE t
    IN  CASE t.abort # "no" -> t
          [] t.abort = "no" /\ x.kind = "status" ->
                [t EXCEPT !.conn[i].rsp = "HEADERS", !.conn[i].ranged = FALSE]
          [] t.abort = "no" /\ x.kind = "length" -> [t EXCEPT !.conn[i].blen = x.val]
          [] t.abort = "no" /\ x.kind = "range" -> ContentRange(t, i, x)
          [] t.abort = "no" /\ x.kind = "blank" -> HeaderDone(t, i)
          [] t.abort = "no" /\ x.kind = "body" ->
                IF got.conn[i].blen = 0 THEN BodyDone(got, i) ELSE got

\* http_receive reads all there is.  content_range_found (ranged) is a local
\* variable of it.
HttpReceive(t, i) ==
    LET start == [t EXCEPT !.conn[i].inp = <<>>, !.conn[i].ranged = FALSE]
        units == t.conn[i].inp
        after[k \in 0..Len(units)] ==
            IF k = 0 THEN start ELSE HttpUnit(after[k - 1], i, units[k])
    IN  [after[Len(units)] EXCEPT !.conn[i].ranged = FALSE]

\* on_read: with no request under way, or at the end of the stream, the
\* connection is unusable.
OnRead(t, i) ==
    LET r == HttpReceive(t, i)
    IN  IF t.conn[i].act = <<>> THEN Unusable([t EXCEPT !.conn[i].readcb = "NULL"], i)
        ELSE IF r.abort = "no" /\ t.conn[i].closed THEN Unusable(r, i)
        ELSE r

OnSocksReadable(t, i) ==
    LET c == t.conn[i]
    IN  CASE c.inp = <<>> -> Abort(t, "proxy-closed")
          [] c.inp # <<>> /\ Head(c.inp).kind = "greet" -> OnSocksGreeted(t, i)
          [] c.inp # <<>> /\ Head(c.inp).kind = "grant" -> OnSocksGranted(t, i)
          [] c.inp # <<>> /\ Head(c.inp).kind = "refuse" -> Unusable(t, i)

\* EPOLLIN in myevent_socket_t::trigger.
OnIn(t, i) ==
    CASE t.conn[i].readcb = "http" -> OnRead(t, i)
      [] t.conn[i].readcb = "socks" -> OnSocksReadable(t, i)
      [] OTHER -> t

\* trigger: first the write event, then the read event.
Triggered(t, e) ==
    LET out == IF "OUT" \in e.what THEN OnOut(t, e.i) ELSE t
    IN  IF "IN" \in e.what /\ out.abort = "no" THEN OnIn(out, e.i) ELSE out

-----------------------------------------------------------------------------
(* What runs the process.                                                  *)

Start0 ==
    [b |-> Browser, conn |-> [i \in ConnIds |-> NoConn], srv |-> [h \in Hosts |-> NoServer],
     req |-> [u \in Urls |-> NewRequest], cbs |-> <<>>, nap |-> FALSE, timers |-> <<>>,
     timed |-> FALSE, proxy |-> FALSE, persist |-> 1,
     abort |-> "no", lost |-> {}, misplaced |-> FALSE, report |-> "none"]

\* start: the first load.
WebInit ==
    /\ \E g \in Settings :
          /\ s = Load([Start0 EXCEPT !.timed = g.timed, !.proxy = g.proxy,
                                     !.persist = g.persist])
          /\ left = [drops |-> g.drops, odds |-> g.odds]
    /\ batch = {} /\ odd = {}

Running == s.abort = "no"
Quiet == Running /\ batch = {} /\ s.cbs = <<>>

\* The callback scheduled first: delete_cnx of connection k, or notified (0).
Callback ==
    LET k == Head(s.cbs)
        t == [s EXCEPT !.cbs = Tail(@)]
    IN  /\ Running /\ batch = {} /\ s.cbs # <<>>
        /\ k = 0 /\ s.b.state = "SB_INIT" => s.b.loadnum <= MaxLoads
        /\ s' = IF k = 0 THEN OnNotified(t) ELSE [t EXCEPT !.conn[k] = NoConn]
        /\ UNCHANGED <<batch, faultVars>>

\* The think time is over.
NapEnds ==
    /\ Quiet /\ s.nap
    /\ s' = [s EXCEPT !.nap = FALSE, !.cbs = <<0>>]
    /\ UNCHANGED <<batch, faultVars>>

\* timeout_timer_fired: the timers were all set for the same time.
TimerFires ==
    /\ Running /\ batch = {} /\ s.timers # <<>>
    /\ s' = OnTimeout([s EXCEPT !.timers = Tail(@)], Head(s.timers))
    /\ Takes(0, "tie", s.cbs # <<>>)
    /\ UNCHANGED batch

\* activate: epoll_wait returns all that is ready.
Activate ==
    /\ Quiet
    /\ batch' = {[i |-> i, what |-> Ready(s.conn[i])] :
                    i \in {j \in ConnIds : Ready(s.conn[j]) # {}}}
    /\ batch' # {}
    /\ UNCHANGED <<s, faultVars>>

\* loop_nonblock handles one of the events.
Trigger ==
    /\ Running
    /\ \E e \in batch : s' = Triggered(s, e) /\ batch' = batch \ {e}
    /\ UNCHANGED faultVars

-----------------------------------------------------------------------------
(* The network and the servers.                                            *)

Establish ==
    /\ Quiet
    /\ \E i \in ConnIds :
          /\ s.conn[i].st = "CONNECTING" /\ ~s.conn[i].up
          /\ s' = [s EXCEPT !.conn[i].up = TRUE]
    /\ UNCHANGED <<batch, faultVars>>

\* The first k units of q end within a header.
Splits(q, k) == k < Len(q) /\ q[k + 1].kind # "body"

\* Some of what is on its way arrives.
Arrive ==
    /\ Quiet
    /\ \E i \in ConnIds : \E k \in 1..Len(s.conn[i].todo) :
          /\ s' = [s EXCEPT !.conn[i].todo = SubSeq(@, k + 1, Len(@)),
                            !.conn[i].inp = @ \o SubSeq(s.conn[i].todo, 1, k)]
          /\ Takes(0, "split", Splits(s.conn[i].todo, k))
    /\ UNCHANGED batch

\* A second request is submitted to the connection, or will be: when a script ends,
\* the first of what it names takes the connection, and a waiting request follows.
MayQueue(c) == c.sub # <<>> \/ \E u \in Scripts : Contains(c.act, u)

\* The server, or the circuit behind the proxy, closes the connection: what was
\* on its way is lost.
Close ==
    /\ Quiet
    /\ \E i \in ConnIds :
          /\ s.conn[i].st = "CONNECTED" /\ ~s.conn[i].closed
          /\ s' = [s EXCEPT !.conn[i].todo = <<>>, !.conn[i].closed = TRUE]
          /\ Takes(1, "pending", MayQueue(s.conn[i]))
    /\ UNCHANGED batch

\* The proxy cannot reach the server.
Refuse ==
    /\ Quiet /\ Takes(1, "none", FALSE)
    /\ \E i \in ConnIds :
          /\ s.conn[i].todo = <<Unit("grant", 0)>>
          /\ s' = [s EXCEPT !.conn[i].todo = <<Unit("refuse", 0)>>]
    /\ UNCHANGED batch

Plugin == Callback \/ NapEnds \/ TimerFires \/ Activate \/ Trigger
Network == Establish \/ Arrive \/ Close \/ Refuse
WebNext == Plugin \/ Network

WebSpec == WebInit /\ [][WebNext]_webVars

-----------------------------------------------------------------------------
(* Properties.                                                             *)

\* The myassert that fails after what the code is not written for: the range of a
\* response is forgotten between two reads, a connection that ends has a second request,
\* the callback of a notification finds the load stopped and started again.
FailsAfter == [split |-> "content-range", pending |-> "pending", tie |-> "not-notified"]

\* No myassert fails, whatever is closed, refused, retried or timed out, but these three,
\* and each only after the event that it is written against.
NeverAborts == s.abort # "no" => \E f \in odd : s.abort = FailsAfter[f]

\* Every body is put together in order, without a gap and without a piece twice,
\* whatever is retried: the range a retry asks for is what is missing.
BodiesWhole == ~s.misplaced

\* Some server has the connection.
Live(i) == \E h \in Hosts : Contains(s.srv[h].conns, i)

\* A request the browser waits for is in one place: once in its server's queue, or
\* with one connection, or it was lost with the entry of its server.
Held(q, u) == Cardinality({k \in 1..Len(q) : q[k] = u})
Holders(u) == {i \in ConnIds : Live(i) /\ Contains(s.conn[i].sub \o s.conn[i].act, u)}
RequestsConserved ==
    Running => \A u \in Urls :
        Held(s.srv[Host[u]].reqs, u) + Cardinality(Holders(u))
          + (IF u \in s.lost THEN 1 ELSE 0) = IF u \in s.b.pending THEN 1 ELSE 0

\* Nothing is left to happen: no event, no timer, and nothing under way.
Idle ==
    /\ Quiet /\ ~s.nap /\ s.timers = <<>>
    /\ \A i \in ConnIds :
          LET c == s.conn[i]
          IN  c.st # "none" => c.up /\ c.todo = <<>> /\ Ready(c) = {}

\* A load never waits for nothing, except when no timeout is set and a request was
\* lost that waited at a server whose last connection was closed.
NeverStuck == Idle => s.lost # {} /\ ~s.timed

Loading == s.b.state # "SB_INIT"
Asked == IF Loading THEN {Doc} \cup s.b.embedded ELSE {}

Page == INSTANCE PageLoad WITH
    phase <- IF Loading THEN "loading" ELSE "idle",
    asked <- Asked,
    done <- Asked \ s.b.pending,
    bytes <- [u \in Urls |-> s.req[u].size],
    last <- s.report

\* The browser and its connections do what loading pages promises.
ImplementsPageLoad == Page!Spec
=============================================================================
