----------------------------- MODULE WebServer ------------------------------
(***************************************************************************)
(* The web server plug-in (web/webserver/webserver.cc, handler.cc): it     *)
(* accepts connections and answers the requests of each in order, reading  *)
(* files into a buffer and the buffer into the socket.                     *)
(*                                                                         *)
(* A line of a request, and the header and each piece of the body of a     *)
(* response, is one unit of the stream.  recv_from_client and              *)
(* send_to_client run to their end before anything else happens: pc says   *)
(* where.  Code takes no simulated time, so that delete_handler, which is  *)
(* scheduled for now, runs next.                                           *)
(***************************************************************************)
EXTENDS Integers, Sequences, FiniteSets, SequencesExt

CONSTANTS
    Conns,        \* connections of clients
    Files,        \* what docroot_ holds
    Size,         \* [Files -> Nat], pieces of each
    Wishes,       \* [Conns -> what its client may ask for]: sets of sequences of
                  \* [path, first], first -1 for no range
    Settings,     \* [ahead, cap]: requests a client sends before it has the response,
                  \* and what fits into a socket
    MaxPipeline,  \* MAX_PIPELINE_REQS
    Block,        \* pieces in a read of the file
    HighWater,    \* READ_HIGH_WATER_MARK
    Burst         \* pieces after which send_to_client looks at the requests

ASSUME ServerAssumption ==
    /\ Conns # {}
    /\ Size \in [Files -> Nat \ {0}]
    /\ \A c \in Conns : \A w \in Wishes[c] :
          /\ w \in Seq([path : Files, first : Int])
          /\ \A k \in 1..Len(w) : w[k].first \in -1..(Size[w[k].path] - 1)
    /\ Settings \subseteq [ahead : Nat \ {0}, cap : Nat \ {0}]
    /\ {MaxPipeline, Block, HighWater, Burst} \subseteq Nat \ {0}

VARIABLES
    setting,  \* which of Settings
    h,        \* [Conns -> Handler]
    cli,      \* [Conns -> the client]: its wish, what it has sent of it, what it
              \* received, whether it has closed
    wire,     \* [Conns -> [up, down]]: what is on its way to the server, to the client
    pc,       \* where the server is
    dels,     \* [Conns -> number of delete_handler callbacks scheduled]
    died,     \* the myassert that failed, or "no"
    odd       \* history: what has happened that the code is not written for: "split",
              \* a part was read of what a client had sent; "late", a write failed after
              \* the last file was read; "burst", a burst ended with the next request
              \* already read

srvVars == <<setting, h, cli, wire, pc, dels, died, odd>>

\* This is f, if it is so.
Odd(f, so) == odd' = IF so THEN odd \cup {f} ELSE odd

Unit(kind, path, val) == [kind |-> kind, path |-> path, val |-> val]

Request(r) ==
    <<Unit("get", r.path, 0)>>
      \o (IF r.first > 0 THEN <<Unit("range", r.path, r.first)>> ELSE <<>>)
      \o <<Unit("blank", r.path, 0)>>

\* The header says where the body begins (Content-Range, none for 0) and, with the
\* size of the file, how long it is.
Header(path, first) == Unit("header", path, IF first > 0 THEN first ELSE 0)
Pieces(path, from, to) == [k \in 1..(to - from) |-> Unit("body", path, from + k - 1)]

NoHandler ==
    [st |-> "none", inbuf |-> <<>>, req |-> "REQ_LINE", queue |-> <<>>, rsp |-> "META",
     off |-> 0, expect |-> 0, nread |-> 0, outbuf |-> <<>>, wen |-> FALSE, ren |-> TRUE]

NoClient == [wish |-> <<>>, sent |-> 0, got |-> <<>>, closed |-> FALSE]

Rest == [at |-> "idle", c |-> CHOOSE c \in Conns : TRUE, in |-> FALSE,
         blocked |-> FALSE, burst |-> 0]

SrvInit ==
    /\ setting \in Settings
    /\ h = [c \in Conns |-> NoHandler]
    /\ \E wish \in [Conns -> UNION {Wishes[c] : c \in Conns}] :
          /\ \A c \in Conns : wish[c] \in Wishes[c]
          /\ cli = [c \in Conns |-> [NoClient EXCEPT !.wish = wish[c]]]
    /\ wire = [c \in Conns |-> [up |-> <<>>, down |-> <<>>]]
    /\ pc = Rest
    /\ dels = [c \in Conns |-> 0]
    /\ died = "no"
    /\ odd = {}

-----------------------------------------------------------------------------
(* process_inbuf_, which takes one request at most from inbuf.             *)

\* How many of the lines of inbuf it takes.
Taken(q) ==
    LET blanks == {k \in 1..Len(q) : q[k].kind = "blank"}
    IN  IF blanks = {} THEN Len(q) ELSE CHOOSE k \in blanks : \A j \in blanks : k <= j

\* The request that the lines taken add, and the range they add to the last one.
Queued(x, lines) ==
    LET q == IF x.req = "REQ_LINE" /\ lines # <<>>
             THEN Append(x.queue, [path |-> Head(lines).path, first |-> -1])
             ELSE x.queue
        ranges == {k \in 1..Len(lines) : lines[k].kind = "range"}
    IN  IF ranges = {} THEN q
        ELSE [q EXCEPT ![Len(q)].first = lines[CHOOSE k \in ranges : TRUE].val]

\* A range of which the request is no longer in the queue: back() of an empty queue.
RangeOfNone(x) ==
    LET lines == SubSeq(x.inbuf, 1, Taken(x.inbuf))
    IN  /\ x.req = "HEADERS" /\ x.queue = <<>>
        /\ \E k \in 1..Len(lines) : lines[k].kind = "range"

\* More is wanted from the socket when the lines end within a request.
WantsMore(x) == x.inbuf = <<>> \/ x.inbuf[Taken(x.inbuf)].kind # "blank"

\* Whether the socket is read from at its end.  The wrong variant leaves that as it
\* is.
ReadAsBefore(x, more) == x.ren
ReadAgain(x, more) == x.ren \/ more

ProcessInbuf(x) ==
    LET n == Taken(x.inbuf)
        q == Queued(x, SubSeq(x.inbuf, 1, n))
        more == WantsMore(x)
    IN  [x EXCEPT !.inbuf = SubSeq(@, n + 1, Len(@)), !.queue = q,
                  !.req = CASE x.inbuf = <<>> -> @
                            [] x.inbuf # <<>> /\ more -> "HEADERS"
                            [] OTHER -> "REQ_LINE",
                  !.wen = @ \/ q # <<>> \/ ~more,
                  !.ren = ReadAgain(x, more)]

\* The myassert in it, and the undefined back().
TooMany(x) == Len(Queued(x, SubSeq(x.inbuf, 1, Taken(x.inbuf)))) > MaxPipeline
Processing(c, x) ==
    IF RangeOfNone(x) THEN died' = "back" /\ h' = h
    ELSE /\ died' = IF TooMany(x) THEN "pipeline" ELSE died
         /\ h' = [h EXCEPT ![c] = ProcessInbuf(x)]

-----------------------------------------------------------------------------
(* The server's steps.                                                     *)

Alive == died = "no"
At(where) == Alive /\ pc.at = where
Idle == At("idle") /\ \A c \in Conns : dels[c] = 0

\* webserver_t::on_readable and the constructor of Handler.
Accept(c) ==
    /\ Idle
    /\ h[c].st = "none" /\ cli[c].sent > 0
    /\ h' = [h EXCEPT ![c].st = "open"]
    /\ UNCHANGED <<setting, cli, wire, pc, dels, died, odd>>

Writable(c) == h[c].wen /\ (Len(wire[c].down) < setting.cap \/ cli[c].closed)
Readable(c) == h[c].ren /\ (wire[c].up # <<>> \/ cli[c].closed)

\* loop_nonblock finds the socket of a handler ready: trigger calls writecb, then
\* readcb.
SrvReady(c) ==
    /\ Idle
    /\ h[c].st = "open" /\ (Writable(c) \/ Readable(c))
    /\ pc' = [Rest EXCEPT !.at = IF Writable(c) THEN "add" ELSE "recv", !.c = c,
                          !.in = Writable(c) /\ Readable(c)]
    /\ UNCHANGED <<setting, h, cli, wire, dels, died, odd>>

\* After send_to_client, readcb, if there is something to read.
Sent == IF pc.in THEN [Rest EXCEPT !.at = "recv", !.c = pc.c] ELSE Rest

DeleteLater(c) == dels' = [dels EXCEPT ![c] = @ + 1]

\* The queue is full.  The wrong variant looks for one place more.
FullLater(x) == Len(x.queue) > MaxPipeline
Full(x) == Len(x.queue) = MaxPipeline

\* recv_from_client.
RecvFromClient ==
    LET c == pc.c
        x == h[c]
        up == wire[c].up
    IN  /\ At("recv")
        /\ pc' = Rest
        /\ UNCHANGED <<setting, cli>>
        /\ \/ /\ Full(x)
              /\ h' = [h EXCEPT ![c].ren = FALSE]
              /\ UNCHANGED <<wire, dels, died, odd>>
           \/ /\ ~Full(x) /\ up # <<>>
              /\ \E n \in 1..Len(up) :
                    /\ Processing(c, [x EXCEPT !.inbuf = @ \o SubSeq(up, 1, n)])
                    /\ wire' = [wire EXCEPT ![c].up = SubSeq(@, n + 1, Len(@))]
                    /\ Odd("split", n < Len(up))
              /\ UNCHANGED dels
           \/ /\ ~Full(x) /\ up = <<>> /\ cli[c].closed
              /\ DeleteLater(c)
              /\ UNCHANGED <<h, wire, died, odd>>

\* add_more in send_to_client: where it goes on.
Filling(x) == x.queue # <<>> /\ Len(x.outbuf) < HighWater
AddMore ==
    LET c == pc.c
        x == h[c]
        due == pc.burst >= Burst
        y == IF due /\ ~RangeOfNone(x) THEN ProcessInbuf(x) ELSE x
        next == [pc EXCEPT !.burst = IF due THEN 0 ELSE @]
    IN  /\ At("add")
        /\ \/ /\ y.queue = <<>> /\ y.outbuf = <<>>
              /\ Processing(c, [y EXCEPT !.wen = FALSE])
              /\ pc' = Sent
           \/ /\ y.queue # <<>> \/ y.outbuf # <<>>
              /\ h' = [h EXCEPT ![c] = y]
              /\ died' = CASE due /\ RangeOfNone(x) -> "back"
                           [] due /\ ~RangeOfNone(x) /\ TooMany(x) -> "pipeline"
                           [] OTHER -> died
              /\ pc' = IF Len(y.outbuf) >= HighWater /\ pc.blocked THEN Sent
                       ELSE [next EXCEPT !.at = IF Filling(y) THEN "fill" ELSE "send"]
        /\ Odd("burst", due /\ x.queue # <<>> /\ x.inbuf # <<>>)
        /\ UNCHANGED <<setting, cli, wire, dels>>

\* Where the answer begins in the file.  The wrong variant does not seek.
FileStart(first) == 0
StartAt(first) == IF first > 0 THEN first ELSE 0

\* The loop over the requests: the header of the first in the queue.
FillMeta ==
    LET c == pc.c
        x == h[c]
        r == Head(x.queue)
    IN  /\ At("fill") /\ Filling(x) /\ x.rsp = "META"
        /\ x.outbuf = <<>> \/ pc.blocked
        /\ h' = [h EXCEPT ![c] =
                   [x EXCEPT !.outbuf = Append(@, Header(r.path, r.first)), !.rsp = "BODY",
                             !.off = StartAt(r.first), !.nread = 0,
                             !.expect = Size[r.path] - StartAt(r.first)]]
        /\ pc' = [pc EXCEPT !.at = IF pc.blocked THEN "body" ELSE "send"]
        /\ UNCHANGED <<setting, cli, wire, dels, died, odd>>

FillBody ==
    /\ At("fill") /\ Filling(h[pc.c]) /\ h[pc.c].rsp = "BODY"
    /\ h[pc.c].outbuf = <<>> \/ pc.blocked
    /\ pc' = [pc EXCEPT !.at = "body"]
    /\ UNCHANGED <<setting, h, cli, wire, dels, died, odd>>

\* The loop ends, or what is in outbuf is sent first.
FillEnds ==
    /\ At("fill")
    /\ ~Filling(h[pc.c]) \/ (h[pc.c].outbuf # <<>> /\ ~pc.blocked)
    /\ pc' = [pc EXCEPT !.at = "send"]
    /\ UNCHANGED <<setting, h, cli, wire, dels, died, odd>>

\* A block of the file is read.  After a short one the request is done, and an
\* assertion says that all of the body was read.
Unexpected(n, y) == 0 < n /\ n < Block /\ y.nread # y.expect
ReadBlock ==
    LET c == pc.c
        x == h[c]
        path == Head(x.queue).path
        n == IF Size[path] - x.off < Block THEN Size[path] - x.off ELSE Block
        y == [x EXCEPT !.outbuf = @ \o Pieces(path, x.off, x.off + n),
                       !.off = @ + n, !.nread = @ + n]
        popped == [y EXCEPT !.queue = Tail(@), !.rsp = "META",
                            !.off = 0, !.nread = 0, !.expect = 0]
    IN  /\ At("body")
        /\ IF n = Block \/ Unexpected(n, y)
           THEN /\ h' = [h EXCEPT ![c] = y]
                /\ died' = IF n < Block THEN "length" ELSE died
           ELSE Processing(c, popped)
        /\ pc' = [pc EXCEPT !.at = "fill"]
        /\ UNCHANGED <<setting, cli, wire, dels, odd>>

\* send_more: as much as there is room for is written, which goes on after the client
\* has closed until an answer to it comes.
SendMore ==
    LET c == pc.c
        x == h[c]
        room == setting.cap - Len(wire[c].down)
        n == IF Len(x.outbuf) < room THEN Len(x.outbuf) ELSE room
    IN  /\ At("send") /\ x.outbuf # <<>> /\ ~pc.blocked
        /\ h' = [h EXCEPT ![c].outbuf = SubSeq(@, n + 1, Len(@))]
        /\ wire' = [wire EXCEPT ![c].down = @ \o SubSeq(x.outbuf, 1, n)]
        /\ pc' = [pc EXCEPT !.blocked = n < Len(x.outbuf), !.burst = @ + n]
        /\ UNCHANGED <<setting, cli, dels, died, odd>>

\* Writing fails.  With an empty queue the message names the front() of it.
WriteFails ==
    LET c == pc.c
    IN  /\ At("send") /\ h[c].outbuf # <<>> /\ ~pc.blocked
        /\ cli[c].closed
        /\ Odd("late", h[c].queue = <<>>)
        /\ died' \in IF h[c].queue = <<>> THEN {died, "front"} ELSE {died}
        /\ DeleteLater(c)
        /\ pc' = Sent
        /\ UNCHANGED <<setting, h, cli, wire>>

\* Nothing left to write, or no room: with a request left, back to add_more.
SendEnds ==
    /\ At("send")
    /\ h[pc.c].outbuf = <<>> \/ pc.blocked
    /\ pc' = IF h[pc.c].queue # <<>> THEN [pc EXCEPT !.at = "add"] ELSE Sent
    /\ UNCHANGED <<setting, h, cli, wire, dels, died, odd>>

\* delete_handler.
Delete ==
    /\ At("idle")
    /\ \E c \in Conns :
          /\ dels[c] > 0
          /\ dels' = [dels EXCEPT ![c] = @ - 1]
          /\ h' = [h EXCEPT ![c] = [NoHandler EXCEPT !.st = "gone"]]
          /\ died' = IF h[c].st = "gone" THEN "again" ELSE died
    /\ UNCHANGED <<setting, cli, wire, pc, odd>>

Handling ==
    \/ RecvFromClient \/ AddMore \/ FillMeta \/ FillBody \/ FillEnds
    \/ ReadBlock \/ SendMore \/ WriteFails \/ SendEnds \/ Delete

ServerStep == (\E c \in Conns : Accept(c) \/ SrvReady(c)) \/ Handling

-----------------------------------------------------------------------------
(* The clients.                                                            *)

\* The responses to the first n requests of a wish.
Answer(r) ==
    LET first == IF r.first = -1 THEN 0 ELSE r.first
    IN  <<Header(r.path, first)>> \o Pieces(r.path, first, Size[r.path])
Answers(w, n) == FlattenSeq([k \in 1..n |-> Answer(w[k])])
AllReceived(c, n) == Len(cli[c].got) >= Len(Answers(cli[c].wish, n))

\* A client sends its next request.
Ask(c) ==
    /\ Idle
    /\ LET n == cli[c].sent + 1
       IN  /\ n <= Len(cli[c].wish) /\ ~cli[c].closed
           /\ n > setting.ahead => AllReceived(c, n - setting.ahead)
           /\ cli' = [cli EXCEPT ![c].sent = n]
           /\ wire' = [wire EXCEPT ![c].up = @ \o Request(cli[c].wish[n])]
    /\ UNCHANGED <<setting, h, pc, dels, died, odd>>

\* A client reads what has come.
Receive(c) ==
    /\ Idle
    /\ wire[c].down # <<>> /\ ~cli[c].closed
    /\ cli' = [cli EXCEPT ![c].got = @ \o wire[c].down]
    /\ wire' = [wire EXCEPT ![c].down = <<>>]
    /\ UNCHANGED <<setting, h, pc, dels, died, odd>>

\* A client closes its connection.
Leave(c) ==
    /\ Idle
    /\ cli[c].sent > 0 /\ ~cli[c].closed
    /\ cli' = [cli EXCEPT ![c].closed = TRUE]
    /\ UNCHANGED <<setting, h, wire, pc, dels, died, odd>>

ClientStep == \E c \in Conns : Ask(c) \/ Receive(c) \/ Leave(c)
SrvNext == ServerStep \/ ClientStep

SrvSpec ==
    /\ SrvInit /\ [][SrvNext]_srvVars
    /\ WF_srvVars(Handling)
    /\ \A c \in Conns : /\ SF_srvVars(Accept(c)) /\ SF_srvVars(SrvReady(c))
                        /\ SF_srvVars(Ask(c)) /\ SF_srvVars(Receive(c))

-----------------------------------------------------------------------------
(* Properties.                                                             *)

\* As long as what was sent is read at once, what a client has received, and what is on
\* its way to it, is the beginning of the answers to what it has asked for, in order:
\* the right part of the right file, whatever was in the buffers at the time.
ResponsesExact ==
    \A c \in Conns :
        ~cli[c].closed /\ "split" \notin odd =>
            IsPrefix(cli[c].got \o wire[c].down, Answers(cli[c].wish, cli[c].sent))

\* A range of which the request is answered, a second request in the queue, the front()
\* of an empty queue and a second deletion: what each of them comes after.
DiesAfter == [back |-> "split", pipeline |-> "burst", front |-> "late",
              again |-> "late"]

\* No myassert fails, and nothing is freed twice, but these four, and each only after
\* the event that it is not written for.
ServerNeverAborts ==
    died # "no" => died \in DOMAIN DiesAfter /\ DiesAfter[died] \in odd

\* As long as no write has failed after the last file, a handler deletes itself once:
\* delete_handler is not scheduled twice, nor for one that it has deleted, when a write
\* fails and the stream ends in one trigger.
Gone(c) == IF h[c].st = "gone" THEN 1 ELSE 0
DeletedOnce == "late" \notin odd => \A c \in Conns : dels[c] + Gone(c) <= 1

\* A client that stays gets all it asks for, unless the server has died or was sent a
\* request that it read in parts.
AllAnswered ==
    \A c \in Conns :
        <>(\/ died # "no" \/ "split" \in odd
           \/ cli[c].closed \/ AllReceived(c, Len(cli[c].wish)))
=============================================================================
