-------------------------- MODULE WebServerProofs ---------------------------
(***************************************************************************)
(* Machine-checked proofs about the web server's handlers and what they    *)
(* answer, for any number of connections and any files, requests, block    *)
(* and buffer sizes, with the MAX_PIPELINE_REQS of the code.  First DInv,  *)
(* about types and places, and LInv, about the lives of the handlers; then *)
(* SInv, about the streams, as long as all that was sent is read at once.  *)
(***************************************************************************)
EXTENDS WebServer, TLAPS, SequenceTheorems, WellFoundedInduction

Reqs == [path : Files, first : Int]
Units ==
    [kind : {"get", "range", "blank", "header", "body"}, path : Files, val : Int]

HandlerType ==
    [st : {"none", "open", "gone"}, inbuf : Seq(Units), req : {"REQ_LINE", "HEADERS"},
     queue : Seq(Reqs), rsp : {"META", "BODY"}, off : Int, expect : Int, nread : Int,
     outbuf : Seq(Units), wen : BOOLEAN, ren : BOOLEAN]

Places == {"idle", "recv", "add", "fill", "body", "send"}
ClientType == [wish : Seq(Reqs), sent : Nat, got : Seq(Units), closed : BOOLEAN]
PcType == [at : Places, c : Conns, in : BOOLEAN, blocked : BOOLEAN, burst : Int]

\* The types of the variables, and no more in a socket than fits.
Types ==
    /\ setting \in Settings
    /\ h \in [Conns -> HandlerType]
    /\ cli \in [Conns -> ClientType]
    /\ wire \in [Conns -> [up : Seq(Units), down : Seq(Units)]]
    /\ pc \in PcType
    /\ dels \in [Conns -> Nat]
    /\ \A c \in Conns : Len(wire[c].down) <= setting.cap

\* While no assertion has failed, no queue is longer than the pipeline.
QueueFits == Alive => \A c \in Conns : Len(h[c].queue) <= MaxPipeline

\* The server works on an open handler, and reads a file only for a request that it
\* is answering.
AtWork ==
    /\ pc.at # "idle" => h[pc.c].st = "open"
    /\ pc.at = "body" => h[pc.c].queue # <<>> /\ h[pc.c].rsp = "BODY"

\* While the server sends, no deletion is scheduled.
Scheduled == pc.at \notin {"idle", "recv"} => \A c \in Conns : dels[c] = 0

DInv == Types /\ QueueFits /\ AtWork /\ Scheduled

-----------------------------------------------------------------------------
(* Facts about the operators.                                              *)

\* The beginning and the rest of a stream are streams of the same units.
LEMMA Split ==
    ASSUME NEW U, NEW s \in Seq(U), NEW n \in 0..Len(s)
    PROVE  /\ SubSeq(s, 1, n) \in Seq(U)
           /\ SubSeq(s, n + 1, Len(s)) \in Seq(U)
           /\ Len(SubSeq(s, 1, n)) = n
OBVIOUS

\* A set of natural numbers has a least element.
LEMMA Least ==
    ASSUME NEW S, S \subseteq Nat, S # {}
    PROVE  \E k \in S : \A j \in S : k <= j
<1> DEFINE R == {ss \in Nat \X Nat : ss[1] < ss[2]}
<1>1. IsWellFoundedOn(R, Nat)
  BY NatLessThanWellFounded DEF OpToRel
<1>2. PICK k \in S : \A j \in S : ~ (<<j, k>> \in R)
  <2> HIDE DEF R
  <2> QED BY <1>1, WFMin
<1>3. ASSUME NEW j \in S PROVE k <= j
  <2>1. j \in Nat /\ k \in Nat /\ ~ (j < k)
    BY <1>2
  <2> QED BY <2>1
<1> QED BY <1>3

\* process_inbuf_ takes lines that are there.
LEMMA TakenType ==
    ASSUME NEW q \in Seq(Units)
    PROVE  Taken(q) \in 0..Len(q)
<1> DEFINE blanks == {k \in 1..Len(q) : q[k].kind = "blank"}
<1>1. CASE blanks = {}
  BY <1>1 DEF Taken
<1>2. CASE blanks # {}
  <2>1. \E k \in blanks : \A j \in blanks : k <= j
    <3>1. blanks \subseteq Nat
      OBVIOUS
    <3> HIDE DEF blanks
    <3> QED BY <1>2, <3>1, Least
  <2> DEFINE first == CHOOSE k \in blanks : \A j \in blanks : k <= j
  <2>2. first \in blanks
    <3> HIDE DEF blanks
    <3> QED BY <2>1
  <2>3. Taken(q) = first
    BY <1>2 DEF Taken
  <2> HIDE DEF first
  <2> QED BY <2>2, <2>3
<1> QED BY <1>1, <1>2

\* A request added to the queue is a request; the range goes to the last one.
LEMMA QueuedType ==
    ASSUME NEW x \in HandlerType, NEW lines \in Seq(Units)
    PROVE  Queued(x, lines) \in Seq(Reqs)
<1> DEFINE q == IF x.req = "REQ_LINE" /\ lines # <<>>
                THEN Append(x.queue, [path |-> Head(lines).path, first |-> -1])
                ELSE x.queue
           ranges == {k \in 1..Len(lines) : lines[k].kind = "range"}
           val == lines[CHOOSE k \in ranges : TRUE].val
<1>1. x.queue \in Seq(Reqs)
  BY DEF HandlerType
<1>2. q \in Seq(Reqs)
  <2>1. CASE lines # <<>>
    <3>1. Head(lines) \in Units
      BY <2>1
    <3>2. [path |-> Head(lines).path, first |-> -1] \in Reqs
      BY <3>1 DEF Units, Reqs
    <3> QED BY <1>1, <3>2
  <2> QED BY <1>1, <2>1
<1>3. CASE ranges = {}
  BY <1>2, <1>3 DEF Queued
<1>4. CASE ranges # {}
  <2>1. (CHOOSE k \in ranges : TRUE) \in ranges
    <3> HIDE DEF ranges
    <3> QED BY <1>4
  <2>2. val \in Int
    <3> DEFINE m == CHOOSE k \in ranges : TRUE
    <3>1. m \in 1..Len(lines)
      BY <2>1
    <3> HIDE DEF m
    <3>2. lines[m] \in Units
      BY <3>1
    <3>3. lines[m].val \in Int
      BY <3>2 DEF Units
    <3> QED BY <3>3 DEF m
  <2>3. \A v \in Int : [q EXCEPT ![Len(q)].first = v] \in Seq(Reqs)
    <3> HIDE DEF q
    <3> TAKE v \in Int
    <3>1. \A r \in Reqs : [r EXCEPT !.first = v] \in Reqs
      BY DEF Reqs
    <3>2. q \in [1..Len(q) -> Reqs] /\ Len(q) \in Nat
      BY <1>2
    <3>3. [q EXCEPT ![Len(q)].first = v] \in [1..Len(q) -> Reqs]
      BY <3>1, <3>2
    <3> QED BY <3>2, <3>3
  <2>4. Queued(x, lines) = [q EXCEPT ![Len(q)].first = val]
    BY <1>4 DEF Queued
  <2> HIDE DEF q, val
  <2> QED BY <2>2, <2>3, <2>4
<1> QED BY <1>3, <1>4

\* process_inbuf_ leaves a handler, and st as it was.
LEMMA ProcessType ==
    ASSUME NEW x \in HandlerType
    PROVE  /\ ProcessInbuf(x) \in HandlerType
           /\ ProcessInbuf(x).st = x.st
           /\ ProcessInbuf(x).queue = Queued(x, SubSeq(x.inbuf, 1, Taken(x.inbuf)))
<1> DEFINE n == Taken(x.inbuf)
           q == Queued(x, SubSeq(x.inbuf, 1, n))
<1>1. x.inbuf \in Seq(Units)
  BY DEF HandlerType
<1>2. n \in 0..Len(x.inbuf)
  BY <1>1, TakenType
<1> HIDE DEF n
<1>3. SubSeq(x.inbuf, 1, n) \in Seq(Units) /\ SubSeq(x.inbuf, n + 1, Len(x.inbuf)) \in Seq(Units)
  BY <1>1, <1>2, Split
<1>4. q \in Seq(Reqs)
  BY <1>3, QueuedType
<1> HIDE DEF q
<1>5. \A b \in {x.inbuf}, rr \in {"REQ_LINE", "HEADERS"}, w \in BOOLEAN, r \in BOOLEAN :
         LET y == [x EXCEPT !.inbuf = SubSeq(@, n + 1, Len(@)), !.queue = q,
                            !.req = rr, !.wen = w, !.ren = r]
         IN  y \in HandlerType /\ y.st = x.st /\ y.queue = q
  BY <1>3, <1>4 DEF HandlerType
<1> DEFINE more == WantsMore(x)
           rr == CASE x.inbuf = <<>> -> x.req
                   [] x.inbuf # <<>> /\ more -> "HEADERS"
                   [] OTHER -> "REQ_LINE"
           w == x.wen \/ q # <<>> \/ ~more
           r == ReadAgain(x, more)
<1>6. rr \in {"REQ_LINE", "HEADERS"} /\ w \in BOOLEAN /\ r \in BOOLEAN
  BY DEF HandlerType, ReadAgain
<1>7. ProcessInbuf(x) =
        [x EXCEPT !.inbuf = SubSeq(@, n + 1, Len(@)), !.queue = q,
                  !.req = rr, !.wen = w, !.ren = r]
  BY DEF ProcessInbuf, n, q
<1> HIDE DEF rr, w, r
<1>8. ProcessInbuf(x) \in HandlerType /\ ProcessInbuf(x).st = x.st
        /\ ProcessInbuf(x).queue = q
  BY <1>5, <1>6, <1>7
<1> QED BY <1>8 DEF q, n

\* The assertions of process_inbuf_ see to it that the queue fits.
LEMMA ProcessingKeeps ==
    ASSUME Types, QueueFits, Alive, NEW c \in Conns, NEW x \in HandlerType,
           x.st = h[c].st, Processing(c, x)
    PROVE  /\ h' \in [Conns -> HandlerType]
           /\ \A d \in Conns : h'[d].st = h[d].st
           /\ QueueFits'
<1>1. CASE RangeOfNone(x)
  BY <1>1 DEF Processing, Types, QueueFits, Alive
<1>2. CASE ~RangeOfNone(x)
  <2> DEFINE y == ProcessInbuf(x)
             q == Queued(x, SubSeq(x.inbuf, 1, Taken(x.inbuf)))
  <2>1. y \in HandlerType /\ y.st = x.st /\ y.queue = q
    BY ProcessType
  <2>2. /\ h' = [h EXCEPT ![c] = y]
        /\ died' = IF Len(q) > MaxPipeline THEN "pipeline" ELSE died
    BY <1>2 DEF Processing, TooMany
  <2> HIDE DEF y, q
  <2>3. h' \in [Conns -> HandlerType] /\ \A d \in Conns : h'[d].st = h[d].st
    BY <2>1, <2>2 DEF Types
  <2>4. Len(q) \in Nat /\ MaxPipeline \in Nat
    <3>1. q \in Seq(Reqs)
      BY <2>1 DEF HandlerType
    <3> QED BY <3>1, ServerAssumption
  <2>5. ASSUME Alive', NEW d \in Conns
        PROVE  Len(h'[d].queue) <= MaxPipeline
    <3>1. CASE d = c
      BY <2>1, <2>2, <2>4, <2>5, <3>1 DEF Alive, Types
    <3>2. CASE d # c
      BY <2>2, <3>2 DEF QueueFits, Types
    <3> QED BY <3>1, <3>2
  <2> QED BY <2>3, <2>5 DEF QueueFits
<1> QED BY <1>1, <1>2

\* After send_to_client the server rests, or reads from the same handler.
LEMMA SentType ==
    ASSUME Types
    PROVE  /\ Rest \in PcType /\ Rest.at = "idle"
           /\ Sent \in PcType /\ Sent.at \in {"idle", "recv"}
           /\ Sent.at # "idle" => Sent.c = pc.c
<1>1. Rest \in PcType /\ Rest.at = "idle"
  BY ServerAssumption DEF Rest, PcType, Places
<1>2. pc.c \in Conns
  BY DEF Types, PcType
<1> QED BY <1>1, <1>2 DEF Sent, PcType, Places

\* The handler that the server sends with.
LEMMA Sending ==
    ASSUME DInv, pc.at \notin {"idle", "recv"}
    PROVE  /\ pc.c \in Conns /\ h[pc.c] \in HandlerType /\ h[pc.c].st = "open"
           /\ \A c \in Conns : dels[c] = 0
BY DEF DInv, Types, PcType, AtWork, Scheduled

\* A step of sending that leaves the deletions alone keeps what is said of them.
LEMMA SendingKeeps ==
    ASSUME DInv, pc.at \notin {"idle", "recv"},
           h' \in [Conns -> HandlerType], \A d \in Conns : h'[d].st = h[d].st,
           pc' = Sent \/ (pc'.c = pc.c /\ pc'.at # "idle"),
           pc'.at = "body" => h'[pc.c].queue # <<>> /\ h'[pc.c].rsp = "BODY",
           UNCHANGED dels
    PROVE  AtWork' /\ Scheduled'
<1>1. h[pc.c].st = "open" /\ pc.c \in Conns /\ \A c \in Conns : dels[c] = 0
  BY Sending
<1>2. pc' = Sent => pc'.at \in {"idle", "recv"} /\ (pc'.at # "idle" => pc'.c = pc.c)
  BY SentType DEF DInv
<1>3. AtWork'
  BY <1>1, <1>2 DEF AtWork
<1>4. Scheduled'
  BY <1>1 DEF Scheduled
<1> QED BY <1>3, <1>4

-----------------------------------------------------------------------------
(* Every step keeps the invariant.                                         *)

\* At the start no handler exists.
LEMMA InitKeeps == SrvInit => DInv
<1> SUFFICES ASSUME SrvInit PROVE DInv
  OBVIOUS
<1>1. NoHandler \in HandlerType /\ NoHandler.queue = <<>> /\ Len(<<>>) = 0
  BY DEF NoHandler, HandlerType
<1>2. h \in [Conns -> HandlerType] /\ \A c \in Conns : h[c].queue = <<>>
  BY <1>1 DEF SrvInit
<1>3. cli \in [Conns -> ClientType]
  <2>1. PICK wish : /\ \A c \in Conns : wish[c] \in Wishes[c]
                    /\ cli = [c \in Conns |-> [NoClient EXCEPT !.wish = wish[c]]]
    BY DEF SrvInit
  <2>2. \A c \in Conns : wish[c] \in Seq(Reqs)
    BY <2>1, ServerAssumption DEF Reqs
  <2>3. \A w \in Seq(Reqs) : [NoClient EXCEPT !.wish = w] \in ClientType
    <3>1. <<>> \in Seq(Units)
      OBVIOUS
    <3> QED BY <3>1 DEF NoClient, ClientType
  <2> QED BY <2>1, <2>2, <2>3
<1>4. wire = [c \in Conns |-> [up |-> <<>>, down |-> <<>>]] /\ setting \in Settings
  BY DEF SrvInit
<1>5. setting.cap \in Nat
  BY <1>4, ServerAssumption
<1>6. wire \in [Conns -> [up : Seq(Units), down : Seq(Units)]]
      /\ \A c \in Conns : Len(wire[c].down) <= setting.cap
  BY <1>4, <1>5
<1>7. pc = Rest /\ pc \in PcType /\ pc.at = "idle"
  BY ServerAssumption DEF SrvInit, Rest, PcType, Places
<1>8. dels = [c \in Conns |-> 0]
  BY DEF SrvInit
<1>9. Types
  BY <1>2, <1>3, <1>4, <1>6, <1>7, <1>8 DEF Types
<1>10. QueueFits
  BY <1>1, <1>2, ServerAssumption DEF QueueFits
<1>11. AtWork /\ Scheduled
  BY <1>7, <1>8 DEF AtWork, Scheduled
<1> QED BY <1>9, <1>10, <1>11 DEF DInv

\* A new handler is open.
LEMMA AcceptKeeps ==
    ASSUME DInv, NEW c \in Conns, Accept(c)
    PROVE  DInv'
<1>1. h' = [h EXCEPT ![c].st = "open"] /\ UNCHANGED <<setting, cli, wire, pc, dels, died>>
  BY DEF Accept
<1>2. pc.at = "idle" /\ dels[c] = 0
  BY DEF Accept, Idle, At
<1>3. Types'
  <2>1. \A x \in HandlerType : [x EXCEPT !.st = "open"] \in HandlerType
    BY DEF HandlerType
  <2> QED BY <1>1, <2>1 DEF DInv, Types
<1>4. \A d \in Conns : h'[d].queue = h[d].queue /\ (d # c => h'[d] = h[d])
  BY <1>1 DEF DInv, Types, HandlerType
<1>5. QueueFits'
  BY <1>1, <1>4 DEF DInv, QueueFits, Alive
<1>6. AtWork' /\ Scheduled'
  BY <1>1, <1>2, <1>4 DEF DInv, AtWork, Scheduled
<1> QED BY <1>3, <1>5, <1>6 DEF DInv

\* A handler that is triggered is open, and none is to be deleted.
LEMMA ReadyKeeps ==
    ASSUME DInv, NEW c \in Conns, SrvReady(c)
    PROVE  DInv'
<1>1. /\ UNCHANGED <<setting, h, cli, wire, dels, died>>
      /\ h[c].st = "open" /\ \A d \in Conns : dels[d] = 0
  BY DEF SrvReady, Idle
<1>2. pc' \in PcType /\ pc'.at \in {"add", "recv"} /\ pc'.c = c
  <2>1. Rest \in PcType
    BY SentType DEF DInv
  <2>2. h[c].wen \in BOOLEAN /\ h[c].ren \in BOOLEAN /\ cli[c].closed \in BOOLEAN
    <3>1. h[c] \in HandlerType /\ cli[c] \in ClientType
      BY DEF DInv, Types
    <3> QED BY <3>1 DEF HandlerType, ClientType
  <2>3. (Writable(c) /\ Readable(c)) \in BOOLEAN
    BY <2>2 DEF Writable, Readable
  <2> QED BY <2>1, <2>3 DEF SrvReady, PcType, Places
<1>3. Types'
  BY <1>1, <1>2 DEF DInv, Types
<1>4. QueueFits' /\ AtWork' /\ Scheduled'
  BY <1>1, <1>2 DEF DInv, QueueFits, AtWork, Scheduled, Alive
<1> QED BY <1>3, <1>4 DEF DInv

\* Lines of requests are read, or the end of the stream.
LEMMA RecvKeeps ==
    ASSUME DInv, RecvFromClient
    PROVE  DInv'
<1> DEFINE c == pc.c
           x == h[c]
           up == wire[c].up
<1>1. c \in Conns /\ x \in HandlerType /\ x.queue \in Seq(Reqs) /\ up \in Seq(Units)
  BY DEF DInv, Types, PcType, HandlerType
<1>2. pc.at = "recv" /\ died = "no" /\ x.st = "open" /\ UNCHANGED <<setting, cli>>
  BY DEF RecvFromClient, At, Alive, DInv, AtWork
<1>3. pc' \in PcType /\ pc'.at = "idle"
  BY SentType DEF RecvFromClient, DInv
<1>4. AtWork'
  BY <1>3 DEF AtWork
<1>5. CASE Full(x) /\ h' = [h EXCEPT ![c].ren = FALSE] /\ UNCHANGED <<wire, dels, died>>
  <2>1. \A y \in HandlerType : /\ [y EXCEPT !.ren = FALSE] \in HandlerType
                              /\ [y EXCEPT !.ren = FALSE].st = y.st
                              /\ [y EXCEPT !.ren = FALSE].queue = y.queue
    BY DEF HandlerType
  <2>2. /\ h' \in [Conns -> HandlerType]
        /\ \A d \in Conns : h'[d].st = h[d].st /\ h'[d].queue = h[d].queue
    BY <1>1, <1>5, <2>1 DEF DInv, Types
  <2>3. Types'
    BY <1>2, <1>3, <1>5, <2>2 DEF DInv, Types
  <2>4. QueueFits' /\ Scheduled'
    BY <1>3, <1>5, <2>2 DEF DInv, QueueFits, Alive, Scheduled
  <2> QED BY <1>4, <2>3, <2>4 DEF DInv
<1>6. ASSUME NEW n \in 0..Len(up), UNCHANGED dels,
             Processing(c, [x EXCEPT !.inbuf = @ \o SubSeq(up, 1, n)]),
             wire' = [wire EXCEPT ![c].up = SubSeq(@, n + 1, Len(@))]
      PROVE  DInv'
  <2> DEFINE y == [x EXCEPT !.inbuf = @ \o SubSeq(up, 1, n)]
  <2>1. SubSeq(up, 1, n) \in Seq(Units) /\ SubSeq(up, n + 1, Len(up)) \in Seq(Units)
    BY <1>1, Split
  <2>2. y \in HandlerType /\ y.st = x.st
    <3>1. x.inbuf \o SubSeq(up, 1, n) \in Seq(Units)
      BY <1>1, <2>1 DEF HandlerType
    <3> QED BY <1>1, <3>1 DEF HandlerType
  <2>3. /\ h' \in [Conns -> HandlerType] /\ \A d \in Conns : h'[d].st = h[d].st
        /\ QueueFits'
    BY <1>1, <1>2, <1>6, <2>2, ProcessingKeeps DEF DInv, Alive
  <2>4. /\ wire' \in [Conns -> [up : Seq(Units), down : Seq(Units)]]
        /\ \A d \in Conns : wire'[d].down = wire[d].down
    BY <1>1, <1>6, <2>1 DEF DInv, Types
  <2>5. Types'
    BY <1>2, <1>3, <1>6, <2>3, <2>4 DEF DInv, Types
  <2>6. Scheduled'
    BY <1>3, <1>6, <2>3 DEF DInv, Scheduled
  <2> QED BY <1>4, <2>3, <2>5, <2>6 DEF DInv
<1>7. CASE ~Full(x) /\ DeleteLater(c) /\ UNCHANGED <<h, wire, died>>
  <2>1. dels' \in [Conns -> Nat]
    BY <1>1, <1>7 DEF DInv, Types, DeleteLater
  <2>2. Types'
    BY <1>2, <1>3, <1>7, <2>1 DEF DInv, Types
  <2>3. QueueFits' /\ Scheduled'
    BY <1>3, <1>7 DEF DInv, QueueFits, Alive, Scheduled
  <2> QED BY <1>4, <2>2, <2>3 DEF DInv
<1>8. CASE /\ \E n \in 1..Len(up) :
                 /\ Processing(c, [x EXCEPT !.inbuf = @ \o SubSeq(up, 1, n)])
                 /\ wire' = [wire EXCEPT ![c].up = SubSeq(@, n + 1, Len(@))]
           /\ UNCHANGED dels
  <2>1. PICK n \in 1..Len(up) :
                 /\ Processing(c, [x EXCEPT !.inbuf = @ \o SubSeq(up, 1, n)])
                 /\ wire' = [wire EXCEPT ![c].up = SubSeq(@, n + 1, Len(@))]
    BY <1>8
  <2>2. n \in 0..Len(up)
    BY <1>1, <2>1
  <2> QED BY <1>6, <1>8, <2>1, <2>2
<1> QED BY <1>5, <1>7, <1>8 DEF RecvFromClient

\* What is read, and what there is to send, is of the types it should be.
LEMMA AddMoreKeeps ==
    ASSUME DInv, AddMore
    PROVE  DInv'
<1> DEFINE c == pc.c
           x == h[c]
           due == pc.burst >= Burst
           y == IF due /\ ~RangeOfNone(x) THEN ProcessInbuf(x) ELSE x
           next == [pc EXCEPT !.burst = IF due THEN 0 ELSE @]
<1>1. /\ pc.at = "add" /\ died = "no" /\ pc \in PcType
      /\ UNCHANGED <<setting, cli, wire, dels>>
  BY DEF AddMore, At, Alive, DInv, Types
<1>2. c \in Conns /\ x \in HandlerType /\ x.st = "open" /\ \A d \in Conns : dels[d] = 0
  BY <1>1, Sending
<1>3. y \in HandlerType /\ y.st = x.st
  BY <1>2, ProcessType
<1>4. next \in PcType /\ next.c = c /\ next.at = "add"
  BY <1>1 DEF PcType
<1>5. pc' \in PcType /\ (pc' = Sent \/ (pc'.c = c /\ pc'.at \in {"fill", "send"}))
  <2>1. Sent \in PcType
    BY SentType DEF DInv
  <2>2. pc' = Sent \/ pc' = [next EXCEPT !.at = "fill"] \/ pc' = [next EXCEPT !.at = "send"]
    BY DEF AddMore
  <2> HIDE DEF next
  <2> QED BY <1>4, <2>1, <2>2 DEF PcType, Places
<1>6. /\ h' \in [Conns -> HandlerType] /\ \A d \in Conns : h'[d].st = h[d].st
      /\ QueueFits'
  <2>1. CASE Processing(c, [y EXCEPT !.wen = FALSE])
    <3>1. [y EXCEPT !.wen = FALSE] \in HandlerType /\ [y EXCEPT !.wen = FALSE].st = h[c].st
      <4> HIDE DEF y
      <4> QED BY <1>3 DEF HandlerType
    <3> HIDE DEF y
    <3> QED BY <1>1, <1>2, <2>1, <3>1, ProcessingKeeps DEF DInv, Alive
  <2>2. CASE /\ h' = [h EXCEPT ![c] = y]
             /\ died' = CASE due /\ RangeOfNone(x) -> "back"
                           [] due /\ ~RangeOfNone(x) /\ TooMany(x) -> "pipeline"
                           [] OTHER -> died
    <3>1. h' \in [Conns -> HandlerType] /\ \A d \in Conns : h'[d].st = h[d].st
      BY <1>2, <1>3, <2>2 DEF DInv, Types
    <3>2. CASE due /\ ~RangeOfNone(x)
      <4>1. Processing(c, x)
        BY <1>2, <2>2, <3>2 DEF Processing
      <4> QED BY <1>1, <1>2, <4>1, ProcessingKeeps DEF DInv, Alive
    <3>3. CASE ~(due /\ ~RangeOfNone(x))
      <4>1. h' = h
        BY <2>2, <3>3 DEF DInv, Types
      <4> QED BY <3>1, <4>1, <1>1 DEF DInv, QueueFits, Alive
    <3> QED BY <3>1, <3>2, <3>3
  <2> QED BY <2>1, <2>2 DEF AddMore
<1>7. Types'
  BY <1>1, <1>5, <1>6 DEF DInv, Types
<1>8. AtWork' /\ Scheduled'
  <2>1. pc'.at # "body" /\ (pc' = Sent \/ (pc'.c = c /\ pc'.at # "idle"))
    BY <1>5, SentType DEF DInv
  <2> QED BY <1>1, <1>6, <2>1, SendingKeeps
<1> QED BY <1>6, <1>7, <1>8 DEF DInv

\* A step that changes only where the server is, while it sends.
LEMMA MoveKeeps ==
    ASSUME DInv, pc.at \notin {"idle", "recv"},
           UNCHANGED <<setting, h, cli, wire, dels, died>>,
           pc' \in PcType, pc' = Sent \/ (pc'.c = pc.c /\ pc'.at # "idle"),
           pc'.at = "body" => h[pc.c].queue # <<>> /\ h[pc.c].rsp = "BODY"
    PROVE  DInv'
<1>1. Types' /\ QueueFits'
  BY DEF DInv, Types, QueueFits, Alive
<1>2. AtWork' /\ Scheduled'
  BY SendingKeeps DEF DInv, Types
<1> QED BY <1>1, <1>2 DEF DInv

\* The loop over the requests starts to read a file, ends, or sends.
LEMMA LoopKeeps ==
    ASSUME DInv, FillBody \/ FillEnds \/ SendEnds
    PROVE  DInv'
<1>1. pc \in PcType /\ Sent \in PcType
  BY SentType DEF DInv, Types
<1>2. \A a \in Places : /\ [pc EXCEPT !.at = a] \in PcType /\ [pc EXCEPT !.at = a].c = pc.c
                       /\ [pc EXCEPT !.at = a].at = a
  BY <1>1 DEF PcType
<1>3. CASE FillBody
  <2>1. pc' = [pc EXCEPT !.at = "body"] /\ pc.at = "fill"
        /\ h[pc.c].queue # <<>> /\ h[pc.c].rsp = "BODY"
    BY <1>3 DEF FillBody, At, Filling
  <2>2. UNCHANGED <<setting, h, cli, wire, dels, died>>
    BY <1>3 DEF FillBody
  <2> QED BY <1>2, <2>1, <2>2, MoveKeeps DEF Places
<1>4. CASE FillEnds
  <2>1. pc' = [pc EXCEPT !.at = "send"] /\ pc.at = "fill"
        /\ UNCHANGED <<setting, h, cli, wire, dels, died>>
    BY <1>4 DEF FillEnds, At
  <2> QED BY <1>2, <2>1, MoveKeeps DEF Places
<1>5. CASE SendEnds
  <2>1. (pc' = [pc EXCEPT !.at = "add"] \/ pc' = Sent) /\ pc.at = "send"
        /\ UNCHANGED <<setting, h, cli, wire, dels, died>>
    BY <1>5 DEF SendEnds, At
  <2>2. CASE pc' = [pc EXCEPT !.at = "add"]
    BY <1>2, <2>1, <2>2, MoveKeeps DEF Places
  <2>3. CASE pc' = Sent
    <3>1. Sent.at # "body"
      BY SentType DEF DInv
    <3> QED BY <1>1, <2>1, <2>3, <3>1, MoveKeeps
  <2> QED BY <2>1, <2>2, <2>3
<1> QED BY <1>3, <1>4, <1>5

\* A field that is assigned a value of its type leaves a handler, and the others alone.
Same(y, x) == y \in HandlerType /\ y.st = x.st /\ y.queue = x.queue
LEMMA HandlerUpdates ==
    \A x \in HandlerType :
      /\ \A o \in Seq(Units) : Same([x EXCEPT !.outbuf = o], x)
      /\ \A r \in {"META", "BODY"} : Same([x EXCEPT !.rsp = r], x)
      /\ \A n \in Int : /\ Same([x EXCEPT !.off = n], x)
                        /\ Same([x EXCEPT !.nread = n], x)
                        /\ Same([x EXCEPT !.expect = n], x)
      /\ \A q \in Seq(Reqs) : /\ [x EXCEPT !.queue = q] \in HandlerType
                              /\ [x EXCEPT !.queue = q].st = x.st
<1> TAKE x \in HandlerType
<1>1. \A o \in Seq(Units) : Same([x EXCEPT !.outbuf = o], x)
  BY DEF Same, HandlerType
<1>2. \A r \in {"META", "BODY"} : Same([x EXCEPT !.rsp = r], x)
  BY DEF Same, HandlerType
<1>3. \A n \in Int : Same([x EXCEPT !.off = n], x)
  BY DEF Same, HandlerType
<1>4. \A n \in Int : Same([x EXCEPT !.nread = n], x)
  BY DEF Same, HandlerType
<1>5. \A n \in Int : Same([x EXCEPT !.expect = n], x)
  BY DEF Same, HandlerType
<1>6. \A q \in Seq(Reqs) : /\ [x EXCEPT !.queue = q] \in HandlerType
                          /\ [x EXCEPT !.queue = q].st = x.st
  BY DEF HandlerType
<1> QED BY <1>1, <1>2, <1>3, <1>4, <1>5, <1>6

\* The header that is put into the buffer, and where the file is read from.
LEMMA FillMetaKeeps ==
    ASSUME DInv, FillMeta
    PROVE  DInv'
<1> DEFINE c == pc.c
           x == h[c]
           r == Head(x.queue)
           y == [x EXCEPT !.outbuf = Append(@, Header(r.path, r.first)), !.rsp = "BODY",
                          !.off = StartAt(r.first), !.nread = 0,
                          !.expect = Size[r.path] - StartAt(r.first)]
<1>1. /\ pc.at = "fill" /\ UNCHANGED <<setting, cli, wire, dels, died>>
      /\ x.queue # <<>> /\ h' = [h EXCEPT ![c] = y]
  <2>1. pc.at = "fill" /\ x.queue # <<>>
    BY DEF FillMeta, At, Filling
  <2>2. UNCHANGED <<setting, cli, wire, dels, died>>
    BY DEF FillMeta
  <2>3. h' = [h EXCEPT ![c] = y]
    BY DEF FillMeta
  <2> QED BY <2>1, <2>2, <2>3
<1>2. c \in Conns /\ x \in HandlerType /\ pc \in PcType
  BY <1>1, Sending DEF DInv, Types
<1>3. r \in Reqs /\ Header(r.path, r.first) \in Units /\ StartAt(r.first) \in Int
      /\ Size[r.path] \in Int
  <2>1. x.queue \in Seq(Reqs)
    BY <1>2 DEF HandlerType
  <2>2. r \in Reqs
    BY <1>1, <2>1
  <2> HIDE DEF r
  <2> QED BY <2>2, ServerAssumption DEF Reqs, Units, Header, Unit, StartAt
<1>4. y \in HandlerType /\ y.st = x.st /\ y.queue = x.queue
  <2>1. Append(x.outbuf, Header(r.path, r.first)) \in Seq(Units)
    BY <1>2, <1>3 DEF HandlerType
  <2>2. Size[r.path] - StartAt(r.first) \in Int
    BY <1>3
  <2>3. \A o \in Seq(Units), f \in Int, e \in Int :
           Same([x EXCEPT !.outbuf = o, !.rsp = "BODY", !.off = f, !.nread = 0,
                          !.expect = e], x)
    <3> HIDE DEF x
    <3> TAKE o \in Seq(Units), f \in Int, e \in Int
    <3> DEFINE x1 == [x EXCEPT !.outbuf = o]
               x2 == [x1 EXCEPT !.rsp = "BODY"]
               x3 == [x2 EXCEPT !.off = f]
               x4 == [x3 EXCEPT !.nread = 0]
               x5 == [x4 EXCEPT !.expect = e]
    <3>1. Same(x1, x) /\ x1 \in HandlerType
      BY <1>2, HandlerUpdates DEF Same
    <3> HIDE DEF x1
    <3>2. Same(x2, x1) /\ x2 \in HandlerType
      BY <3>1, HandlerUpdates DEF Same
    <3> HIDE DEF x2
    <3>3. Same(x3, x2) /\ x3 \in HandlerType
      BY <3>2, HandlerUpdates DEF Same
    <3> HIDE DEF x3
    <3>4. Same(x4, x3) /\ x4 \in HandlerType
      <4>1. \A n \in Int : Same([x3 EXCEPT !.nread = n], x3)
        BY <3>3, HandlerUpdates
      <4> QED BY <4>1 DEF Same
    <3> HIDE DEF x4
    <3>5. Same(x5, x4)
      BY <3>4, HandlerUpdates
    <3>6. Same(x5, x)
      BY <3>1, <3>2, <3>3, <3>4, <3>5 DEF Same
    <3> QED BY <3>6 DEF x1, x2, x3, x4
  <2> HIDE DEF r, x
  <2> QED BY <1>3, <2>1, <2>2, <2>3 DEF Same
<1>4a. y.rsp = "BODY"
  <2> HIDE DEF x
  <2> QED BY <1>2 DEF HandlerType
<1> HIDE DEF y
<1>5. h' \in [Conns -> HandlerType] /\ h'[c].rsp = "BODY"
      /\ \A d \in Conns : h'[d].st = h[d].st /\ h'[d].queue = h[d].queue
  BY <1>1, <1>2, <1>4, <1>4a DEF DInv, Types
<1>6. pc' \in PcType /\ pc'.c = pc.c /\ pc'.at # "idle"
  BY <1>2 DEF FillMeta, PcType, Places
<1>7. Types' /\ QueueFits'
  BY <1>1, <1>5, <1>6 DEF DInv, Types, QueueFits, Alive
<1>8. AtWork' /\ Scheduled'
  BY <1>1, <1>2, <1>5, <1>6, SendingKeeps
<1> QED BY <1>7, <1>8 DEF DInv

\* What a read returns: pieces of the file, none when there are none left.
LEMMA PiecesType ==
    ASSUME NEW path \in Files, NEW from \in Int, NEW to \in Int
    PROVE  Pieces(path, from, to) \in Seq(Units)
<1> DEFINE n == IF to > from THEN to - from ELSE 0
<1>1. n \in Nat /\ 1..(to - from) = 1..n
  OBVIOUS
<1>2. \A k \in 1..n : Unit("body", path, from + k - 1) \in Units
  BY <1>1 DEF Unit, Units
<1>3. [k \in 1..n |-> Unit("body", path, from + k - 1)] \in [1..n -> Units]
  BY <1>2
<1>4. Pieces(path, from, to) = [k \in 1..n |-> Unit("body", path, from + k - 1)]
  BY <1>1 DEF Pieces
<1> HIDE DEF n
<1>5. \A f \in [1..n -> Units] : f \in Seq(Units)
  BY <1>1, SeqDef
<1> QED BY <1>3, <1>4, <1>5

\* A block is read for a request, and the last one takes it from the queue.
LEMMA ReadBlockKeeps ==
    ASSUME DInv, ReadBlock
    PROVE  DInv'
<1> DEFINE c == pc.c
           x == h[c]
           path == Head(x.queue).path
           n == IF Size[path] - x.off < Block THEN Size[path] - x.off ELSE Block
           y == [x EXCEPT !.outbuf = @ \o Pieces(path, x.off, x.off + n),
                          !.off = @ + n, !.nread = @ + n]
           popped == [y EXCEPT !.queue = Tail(@), !.rsp = "META",
                               !.off = 0, !.nread = 0, !.expect = 0]
<1>1. /\ pc.at = "body" /\ died = "no" /\ UNCHANGED <<setting, cli, wire, dels>>
      /\ x.queue # <<>>
  BY DEF ReadBlock, At, Alive, DInv, AtWork
<1>2. c \in Conns /\ x \in HandlerType /\ pc \in PcType
  BY <1>1, Sending DEF DInv, Types
<1>3. x.queue \in Seq(Reqs) /\ x.off \in Int /\ x.nread \in Int /\ x.outbuf \in Seq(Units)
  BY <1>2 DEF HandlerType
<1>4. path \in Files
  <2>1. Head(x.queue) \in Reqs
    BY <1>1, <1>3
  <2> QED BY <2>1 DEF Reqs
<1>5. n \in Int
  <2>1. Size[path] \in Int /\ Block \in Int
    BY <1>4, ServerAssumption
  <2> HIDE DEF path
  <2> QED BY <1>3, <2>1
<1>6. y \in HandlerType /\ y.st = x.st /\ y.queue = x.queue
  <2>1. x.outbuf \o Pieces(path, x.off, x.off + n) \in Seq(Units)
    <3>1. Pieces(path, x.off, x.off + n) \in Seq(Units)
      BY <1>3, <1>4, <1>5, PiecesType
    <3> QED BY <1>3, <3>1
  <2> HIDE DEF x, path, n
  <2>2. x.off + n \in Int /\ x.nread + n \in Int
    BY <1>3, <1>5
  <2> QED BY <1>2, <2>1, <2>2 DEF HandlerType
<1>7. popped \in HandlerType /\ popped.st = x.st
  <2> HIDE DEF y
  <2>1. Tail(y.queue) \in Seq(Reqs)
    BY <1>1, <1>3, <1>6
  <2> DEFINE y1 == [y EXCEPT !.queue = Tail(y.queue)]
             y2 == [y1 EXCEPT !.rsp = "META"]
             y3 == [y2 EXCEPT !.off = 0]
             y4 == [y3 EXCEPT !.nread = 0]
             y5 == [y4 EXCEPT !.expect = 0]
  <2>2. y1 \in HandlerType /\ y1.st = y.st
    BY <1>6, <2>1, HandlerUpdates
  <2> HIDE DEF y1
  <2>3. Same(y2, y1) /\ y2 \in HandlerType
    BY <2>2, HandlerUpdates DEF Same
  <2> HIDE DEF y2
  <2>4. Same(y3, y2) /\ y3 \in HandlerType
    <3>1. \A v \in Int : Same([y2 EXCEPT !.off = v], y2)
      BY <2>3, HandlerUpdates
    <3> QED BY <3>1 DEF Same
  <2> HIDE DEF y3
  <2>5. Same(y4, y3) /\ y4 \in HandlerType
    <3>1. \A v \in Int : Same([y3 EXCEPT !.nread = v], y3)
      BY <2>4, HandlerUpdates
    <3> QED BY <3>1 DEF Same
  <2> HIDE DEF y4
  <2>6. Same(y5, y4)
    <3>1. \A v \in Int : Same([y4 EXCEPT !.expect = v], y4)
      BY <2>5, HandlerUpdates
    <3> QED BY <3>1
  <2>7. y5 \in HandlerType /\ y5.st = x.st
    BY <1>6, <2>2, <2>3, <2>4, <2>5, <2>6 DEF Same
  <2> QED BY <2>7 DEF y1, y2, y3, y4
<1>8. pc' \in PcType /\ pc'.c = pc.c /\ pc'.at = "fill"
  BY <1>2 DEF ReadBlock, PcType, Places
<1>9. \/ Processing(c, popped)
      \/ h' = [h EXCEPT ![c] = y] /\ died' \in {died, "length"}
  BY DEF ReadBlock
<1> HIDE DEF y, popped
<1>10. /\ h' \in [Conns -> HandlerType] /\ \A d \in Conns : h'[d].st = h[d].st
       /\ QueueFits'
  <2>1. CASE Processing(c, popped)
    BY <1>1, <1>2, <1>7, <2>1, ProcessingKeeps DEF DInv, Alive
  <2>2. CASE h' = [h EXCEPT ![c] = y] /\ died' \in {died, "length"}
    <3>1. h' \in [Conns -> HandlerType]
          /\ \A d \in Conns : h'[d].st = h[d].st /\ h'[d].queue = h[d].queue
      BY <1>2, <1>6, <2>2 DEF DInv, Types
    <3> QED BY <2>2, <3>1 DEF DInv, QueueFits, Alive
  <2> QED BY <1>9, <2>1, <2>2
<1>11. Types'
  BY <1>1, <1>8, <1>10 DEF DInv, Types
<1>12. AtWork' /\ Scheduled'
  BY <1>1, <1>8, <1>10, SendingKeeps
<1> QED BY <1>10, <1>11, <1>12 DEF DInv

\* No more is written than fits into the socket.
LEMMA SendMoreKeeps ==
    ASSUME DInv, SendMore
    PROVE  DInv'
<1> DEFINE c == pc.c
           x == h[c]
           room == setting.cap - Len(wire[c].down)
           n == IF Len(x.outbuf) < room THEN Len(x.outbuf) ELSE room
           y == [x EXCEPT !.outbuf = SubSeq(@, n + 1, Len(@))]
           down == wire[c].down \o SubSeq(x.outbuf, 1, n)
<1>1. pc.at = "send" /\ UNCHANGED <<setting, cli, dels, died>>
  BY DEF SendMore, At
<1>2. /\ h' = [h EXCEPT ![c].outbuf = SubSeq(@, n + 1, Len(@))]
      /\ wire' = [wire EXCEPT ![c].down = @ \o SubSeq(x.outbuf, 1, n)]
      /\ pc' = [pc EXCEPT !.blocked = n < Len(x.outbuf), !.burst = @ + n]
  BY DEF SendMore
<1>3. c \in Conns /\ x \in HandlerType /\ pc \in PcType /\ setting \in Settings
  BY <1>1, Sending DEF DInv, Types
<1>4. x.outbuf \in Seq(Units) /\ wire[c].down \in Seq(Units)
      /\ Len(wire[c].down) <= setting.cap
  BY <1>3 DEF DInv, Types, HandlerType
<1>5. setting.cap \in Nat
  BY <1>3, ServerAssumption
<1>6. room \in Nat
  BY <1>4, <1>5
<1>7. n \in 0..Len(x.outbuf) /\ n <= room
  <2> HIDE DEF room
  <2>1. Len(x.outbuf) \in Nat
    BY <1>4
  <2> QED BY <1>6, <2>1
<1> HIDE DEF n
<1>8. y \in HandlerType /\ y.queue = x.queue /\ y.st = x.st
  <2>1. SubSeq(x.outbuf, n + 1, Len(x.outbuf)) \in Seq(Units)
    BY <1>4, <1>7, Split
  <2> QED BY <1>3, <2>1, HandlerUpdates DEF Same
<1>9. down \in Seq(Units) /\ Len(down) <= setting.cap
  <2>1. SubSeq(x.outbuf, 1, n) \in Seq(Units) /\ Len(SubSeq(x.outbuf, 1, n)) = n
    BY <1>4, <1>7, Split
  <2>2. down \in Seq(Units) /\ Len(down) = Len(wire[c].down) + n
    BY <1>4, <2>1, ConcatProperties
  <2>3. Len(wire[c].down) \in Nat /\ n \in Nat
    BY <1>4, <1>7
  <2> HIDE DEF down
  <2> QED BY <1>5, <1>7, <2>2, <2>3 DEF room
<1>10. h' = [h EXCEPT ![c] = y]
  BY <1>2, <1>3 DEF DInv, Types
<1> HIDE DEF y
<1>11. h' \in [Conns -> HandlerType]
       /\ \A d \in Conns : h'[d].st = h[d].st /\ h'[d].queue = h[d].queue
  BY <1>3, <1>8, <1>10 DEF DInv, Types
<1>12. wire' \in [Conns -> [up : Seq(Units), down : Seq(Units)]]
       /\ \A d \in Conns : Len(wire'[d].down) <= setting.cap
  <2>1. wire' = [wire EXCEPT ![c].down = down]
    BY <1>2
  <2> HIDE DEF down
  <2> QED BY <1>3, <1>9, <2>1 DEF DInv, Types
<1>13. pc' \in PcType /\ pc'.c = pc.c /\ pc'.at = "send"
  <2>1. pc.burst + n \in Int /\ (n < Len(x.outbuf)) \in BOOLEAN
    BY <1>3, <1>7 DEF PcType
  <2>2. pc' = [at |-> pc.at, c |-> pc.c, in |-> pc.in, blocked |-> n < Len(x.outbuf),
               burst |-> pc.burst + n]
    BY <1>2, <1>3 DEF PcType
  <2> QED BY <1>1, <1>3, <2>1, <2>2 DEF PcType
<1>14. Types' /\ QueueFits'
  BY <1>1, <1>11, <1>12, <1>13 DEF DInv, Types, QueueFits, Alive
<1>15. AtWork' /\ Scheduled'
  BY <1>1, <1>11, <1>13, SendingKeeps
<1> QED BY <1>14, <1>15 DEF DInv

\* When writing fails a deletion is scheduled.
LEMMA WriteFailsKeeps ==
    ASSUME DInv, WriteFails
    PROVE  DInv'
<1>1. pc.at = "send" /\ died = "no" /\ UNCHANGED <<setting, h, cli, wire>>
      /\ DeleteLater(pc.c) /\ pc' = Sent
  BY DEF WriteFails, At, Alive
<1>2. pc.c \in Conns /\ h[pc.c].st = "open"
  BY <1>1, Sending
<1>3. /\ Sent \in PcType /\ Sent.at \in {"idle", "recv"}
      /\ Sent.at # "idle" => Sent.c = pc.c
  BY SentType DEF DInv
<1>4. dels' \in [Conns -> Nat]
  BY <1>1, <1>2 DEF DInv, Types, DeleteLater
<1>5. Types' /\ QueueFits'
  BY <1>1, <1>3, <1>4 DEF DInv, Types, QueueFits, Alive
<1>6. AtWork' /\ Scheduled'
  BY <1>1, <1>2, <1>3 DEF AtWork, Scheduled
<1> QED BY <1>5, <1>6 DEF DInv

\* What is left of a handler that was deleted.
LEMMA DeleteKeeps ==
    ASSUME DInv, Delete
    PROVE  DInv'
<1>1. PICK c \in Conns :
         /\ dels[c] > 0 /\ dels' = [dels EXCEPT ![c] = @ - 1]
         /\ h' = [h EXCEPT ![c] = [NoHandler EXCEPT !.st = "gone"]]
  BY DEF Delete
<1>2. pc.at = "idle" /\ died = "no" /\ UNCHANGED <<setting, cli, wire, pc>>
  BY DEF Delete, At, Alive
<1>3. dels' \in [Conns -> Nat]
  <2>1. \A n \in Nat : n > 0 => n - 1 \in Nat
    OBVIOUS
  <2> QED BY <1>1, <2>1 DEF DInv, Types
<1>4. /\ [NoHandler EXCEPT !.st = "gone"] \in HandlerType
      /\ [NoHandler EXCEPT !.st = "gone"].queue = <<>>
  <2>1. NoHandler \in HandlerType /\ NoHandler.queue = <<>>
    <3>1. <<>> \in Seq(Units) /\ <<>> \in Seq(Reqs)
      BY EmptySeq
    <3> QED BY <3>1 DEF NoHandler, HandlerType
  <2>2. \A x \in HandlerType : /\ [x EXCEPT !.st = "gone"] \in HandlerType
                              /\ [x EXCEPT !.st = "gone"].queue = x.queue
    BY DEF HandlerType
  <2> QED BY <2>1, <2>2
<1>5. /\ h' \in [Conns -> HandlerType] /\ h'[c].queue = <<>>
      /\ \A d \in Conns : d # c => h'[d] = h[d]
  BY <1>1, <1>4 DEF DInv, Types
<1>6. Types'
  BY <1>2, <1>3, <1>5 DEF DInv, Types
<1>7. QueueFits'
  <2>1. Len(<<>>) = 0 /\ MaxPipeline \in Nat
    BY ServerAssumption
  <2> QED BY <1>2, <1>5, <2>1 DEF DInv, QueueFits, Alive
<1>8. AtWork' /\ Scheduled'
  BY <1>2 DEF AtWork, Scheduled
<1> QED BY <1>6, <1>7, <1>8 DEF DInv

\* What a client sends is lines of requests.
LEMMA RequestType ==
    ASSUME NEW r \in Reqs
    PROVE  Request(r) \in Seq(Units)
<1>1. /\ Unit("get", r.path, 0) \in Units /\ Unit("range", r.path, r.first) \in Units
      /\ Unit("blank", r.path, 0) \in Units
  BY DEF Unit, Units, Reqs
<1>2. /\ <<Unit("get", r.path, 0)>> \in Seq(Units)
      /\ (IF r.first > 0 THEN <<Unit("range", r.path, r.first)>> ELSE <<>>) \in Seq(Units)
      /\ <<Unit("blank", r.path, 0)>> \in Seq(Units)
  BY <1>1
<1> QED BY <1>2, ConcatProperties DEF Request

\* The clients leave the handlers alone.
LEMMA ClientKeeps ==
    ASSUME DInv, ClientStep
    PROVE  DInv'
<1>1. UNCHANGED <<setting, h, pc, dels, died>>
  BY DEF ClientStep, Ask, Receive, Leave
<1>2. PICK c \in Conns : Ask(c) \/ Receive(c) \/ Leave(c)
  BY DEF ClientStep
<1>3. /\ cli[c] \in ClientType /\ wire[c].up \in Seq(Units) /\ wire[c].down \in Seq(Units)
      /\ setting.cap \in Nat
  BY ServerAssumption DEF DInv, Types
<1>4. /\ cli' \in [Conns -> ClientType]
      /\ wire' \in [Conns -> [up : Seq(Units), down : Seq(Units)]]
      /\ \A d \in Conns : Len(wire'[d].down) <= setting.cap
  <2>1. CASE Ask(c)
    <3> DEFINE n == cli[c].sent + 1
               up == wire[c].up \o Request(cli[c].wish[n])
    <3>1. /\ n <= Len(cli[c].wish)
          /\ cli' = [cli EXCEPT ![c].sent = n] /\ wire' = [wire EXCEPT ![c].up = up]
      BY <2>1 DEF Ask
    <3>2. n \in Nat /\ n > 0 /\ cli[c].wish \in Seq(Reqs)
      BY <1>3 DEF ClientType
    <3>3. up \in Seq(Units)
      <4>1. cli[c].wish[n] \in Reqs
        <5> HIDE DEF n
        <5> QED BY <3>1, <3>2
      <4>2. Request(cli[c].wish[n]) \in Seq(Units)
        BY <4>1, RequestType
      <4> QED BY <1>3, <4>2, ConcatProperties
    <3> HIDE DEF n, up
    <3>4. cli' \in [Conns -> ClientType]
      <4>1. \A d \in Conns : cli[d] \in ClientType
        BY DEF DInv, Types
      <4> QED BY <3>1, <3>2, <4>1 DEF DInv, Types, ClientType
    <3> QED BY <3>1, <3>3, <3>4 DEF DInv, Types
  <2>2. CASE Receive(c)
    <3> DEFINE got == cli[c].got \o wire[c].down
    <3>1. cli' = [cli EXCEPT ![c].got = got] /\ wire' = [wire EXCEPT ![c].down = <<>>]
      BY <2>2 DEF Receive
    <3>2. got \in Seq(Units)
      BY <1>3, ConcatProperties DEF ClientType
    <3> HIDE DEF got
    <3>3. cli' \in [Conns -> ClientType]
      BY <3>1, <3>2 DEF DInv, Types, ClientType
    <3>4. <<>> \in Seq(Units) /\ Len(<<>>) = 0
      BY EmptySeq
    <3>5. /\ wire' \in [Conns -> [up : Seq(Units), down : Seq(Units)]]
          /\ wire'[c].down = <<>> /\ \A d \in Conns : d # c => wire'[d] = wire[d]
      BY <3>1, <3>4 DEF DInv, Types
    <3>6. ASSUME NEW d \in Conns PROVE Len(wire'[d].down) <= setting.cap
      <4>1. CASE d = c
        <5>1. Len(wire'[d].down) = 0
          BY <3>4, <3>5, <4>1
        <5> QED BY <1>3, <5>1
      <4>2. CASE d # c
        BY <3>5, <4>2 DEF DInv, Types
      <4> QED BY <4>1, <4>2
    <3> QED BY <3>3, <3>5, <3>6
  <2>3. CASE Leave(c)
    <3>1. cli' = [cli EXCEPT ![c].closed = TRUE] /\ wire' = wire
      BY <2>3 DEF Leave
    <3>2. cli' \in [Conns -> ClientType]
      BY <3>1 DEF DInv, Types, ClientType
    <3> QED BY <3>1, <3>2 DEF DInv, Types
  <2> QED BY <1>2, <2>1, <2>2, <2>3
<1>5. Types' /\ QueueFits' /\ AtWork' /\ Scheduled'
  BY <1>1, <1>4 DEF DInv, Types, QueueFits, Alive, AtWork, Scheduled
<1> QED BY <1>5 DEF DInv

\* DInv is inductive.
LEMMA StepKeeps ==
    ASSUME DInv, [SrvNext]_srvVars
    PROVE  DInv'
<1>1. ASSUME NEW c \in Conns, Accept(c) PROVE DInv'
  BY <1>1, AcceptKeeps
<1>2. ASSUME NEW c \in Conns, SrvReady(c) PROVE DInv'
  BY <1>2, ReadyKeeps
<1>3. CASE RecvFromClient
  BY <1>3, RecvKeeps
<1>4. CASE AddMore
  BY <1>4, AddMoreKeeps
<1>5. CASE FillMeta
  BY <1>5, FillMetaKeeps
<1>6. CASE FillBody \/ FillEnds \/ SendEnds
  BY <1>6, LoopKeeps
<1>7. CASE ReadBlock
  BY <1>7, ReadBlockKeeps
<1>8. CASE SendMore
  BY <1>8, SendMoreKeeps
<1>9. CASE WriteFails
  BY <1>9, WriteFailsKeeps
<1>10. CASE Delete
  BY <1>10, DeleteKeeps
<1>11. CASE ClientStep
  BY <1>11, ClientKeeps
<1>12. CASE UNCHANGED srvVars
  BY <1>12 DEF srvVars, DInv, Types, QueueFits, Alive, AtWork, Scheduled
<1> QED BY <1>1, <1>2, <1>3, <1>4, <1>5, <1>6, <1>7, <1>8, <1>9, <1>10, <1>11, <1>12
        DEF SrvNext, ServerStep, Handling

-----------------------------------------------------------------------------
(* The lives of the handlers: what is deleted, and what ends the server.   *)

\* Before a write has failed after the last file, a handler is to be deleted only if it
\* is there, and once.  If the server still has to look at what it can read, there is a
\* request left that was not answered, so that the end of the stream is not seen.
Once ==
    "late" \notin odd =>
        \A c \in Conns :
            /\ dels[c] <= 1
            /\ dels[c] = 1 => h[c].st = "open"
            /\ dels[c] = 1 /\ pc.at # "idle" =>
                  pc.at = "recv" /\ pc.c = c /\ h[c].queue # <<>>

\* While a file is read, what is missing of the answer is missing of the file.
FileAt(x) ==
    x.rsp = "BODY" =>
        x.queue # <<>> /\ x.expect + x.off = Size[Head(x.queue).path] + x.nread
FileStands == \A c \in Conns : FileAt(h[c])

\* Where a second request in the queue, the front() of an empty one and a second
\* deletion come from.
Fates ==
    died # "no" =>
        died \in DOMAIN DiesAfter /\ (died # "back" => DiesAfter[died] \in odd)

LInv == DInv /\ Once /\ FileStands /\ Fates

\* One request at most is added to the queue, none without a line, and the first stays.
LEMMA QueuedTells ==
    ASSUME NEW x \in HandlerType, NEW lines \in Seq(Units)
    PROVE  /\ Len(Queued(x, lines)) <= Len(x.queue) + 1
           /\ lines = <<>> => Queued(x, lines) = x.queue
           /\ x.queue # <<>> => /\ Queued(x, lines) # <<>>
                                /\ Head(Queued(x, lines)).path = Head(x.queue).path
<1> DEFINE q == IF x.req = "REQ_LINE" /\ lines # <<>>
                THEN Append(x.queue, [path |-> Head(lines).path, first |-> -1])
                ELSE x.queue
           ranges == {k \in 1..Len(lines) : lines[k].kind = "range"}
           val == lines[CHOOSE k \in ranges : TRUE].val
<1>1. x.queue \in Seq(Reqs)
  BY DEF HandlerType
<1>2. /\ q \in Seq(Reqs) /\ Len(q) \in {Len(x.queue), Len(x.queue) + 1}
      /\ x.queue # <<>> => q # <<>> /\ q[1] = x.queue[1]
      /\ lines = <<>> => q = x.queue
  <2>1. CASE lines # <<>>
    <3>1. PICK r \in Reqs : r = [path |-> Head(lines).path, first |-> -1]
      <4>1. Head(lines) \in Units
        BY <2>1
      <4>2. [path |-> Head(lines).path, first |-> -1] \in Reqs
        BY <4>1 DEF Units, Reqs
      <4> QED BY <4>2
    <3>2. Append(x.queue, r) \in Seq(Reqs) /\ Len(Append(x.queue, r)) = Len(x.queue) + 1
          /\ (x.queue # <<>> => Append(x.queue, r)[1] = x.queue[1])
          /\ Append(x.queue, r) # <<>>
      BY <1>1
    <3> QED BY <1>1, <2>1, <3>1, <3>2
  <2> QED BY <1>1, <2>1
<1> HIDE DEF q
<1>3. CASE ranges = {}
  <2>1. Queued(x, lines) = q
    BY <1>3 DEF Queued, q
  <2> QED BY <1>1, <1>2, <2>1
<1>4. CASE ranges # {}
  <2>1. Queued(x, lines) = [q EXCEPT ![Len(q)].first = val]
    BY <1>4 DEF Queued, q
  <2>2. PICK m \in Nat : m = Len(q)
    BY <1>2
  <2>3. PICK p : p = Queued(x, lines)
    OBVIOUS
  <2>4. p \in Seq(Reqs)
    BY <2>3, QueuedType
  <2> HIDE DEF val
  <2>5. q \in [1..m -> Reqs] /\ DOMAIN p = 1..m
    BY <1>2, <2>1, <2>2, <2>3
  <2>6. Len(p) = m
    BY <2>2, <2>4, <2>5
  <2>7. q # <<>> => p # <<>> /\ p[1].path = q[1].path
    <3>1. ASSUME q # <<>> PROVE 1 \in 1..m
      BY <1>2, <2>2, <3>1
    <3>2. ASSUME q # <<>> PROVE p[1].path = q[1].path
      <4>1. q[1] \in Reqs
        BY <2>5, <3>1, <3>2
      <4> QED BY <2>1, <2>3, <2>5, <3>1, <3>2, <4>1 DEF Reqs
    <3>3. q # <<>> => p # <<>>
      BY <1>2, <2>2, <2>6, <3>1
    <3> QED BY <3>2, <3>3
  <2>8. lines # <<>>
    BY <1>4
  <2> QED BY <1>1, <1>2, <2>2, <2>3, <2>4, <2>6, <2>7, <2>8
<1> QED BY <1>3, <1>4

\* The file stands where it stood after process_inbuf_.
LEMMA ProcessTells ==
    ASSUME NEW x \in HandlerType
    PROVE  /\ Len(ProcessInbuf(x).queue) <= Len(x.queue) + 1
           /\ x.inbuf = <<>> => ProcessInbuf(x).queue = x.queue
           /\ FileAt(x) => FileAt(ProcessInbuf(x))
<1>1. x.inbuf \in Seq(Units) /\ x.queue \in Seq(Reqs)
  BY DEF HandlerType
<1>2. PICK n \in 0..Len(x.inbuf) : n = Taken(x.inbuf)
  BY <1>1, TakenType
<1>3. PICK s \in Seq(Units) : s = SubSeq(x.inbuf, 1, n) /\ Len(s) = n
  BY <1>1, Split
<1>4. PICK y \in HandlerType : y = ProcessInbuf(x)
  BY ProcessType
<1>5. y.queue = Queued(x, s)
  BY <1>2, <1>3, <1>4, ProcessType
<1>6. y.rsp = x.rsp /\ y.off = x.off /\ y.expect = x.expect /\ y.nread = x.nread
  BY <1>4 DEF ProcessInbuf, HandlerType
<1>7. x.inbuf = <<>> => s = <<>>
  BY <1>3
<1>8. /\ Len(y.queue) <= Len(x.queue) + 1
      /\ x.inbuf = <<>> => y.queue = x.queue
      /\ x.queue # <<>> => y.queue # <<>> /\ Head(y.queue).path = Head(x.queue).path
  BY <1>5, <1>7, QueuedTells
<1>9. FileAt(x) => FileAt(y)
  BY <1>6, <1>8 DEF FileAt
<1> QED BY <1>4, <1>8, <1>9

\* With one place in the queue process_inbuf_ finds two requests only if there was one,
\* and the next was read.
LEMMA ProcessingTells ==
    ASSUME MaxPipeline = 1, Types, FileStands, Alive, NEW c \in Conns,
           NEW x \in HandlerType, Len(x.queue) <= 1, FileAt(x), Processing(c, x)
    PROVE  /\ FileStands'
           /\ \/ died' \in {"no", "back"}
              \/ died' = "pipeline" /\ x.queue # <<>> /\ x.inbuf # <<>>
<1>1. CASE RangeOfNone(x)
  BY <1>1 DEF Processing, FileStands
<1>2. CASE ~RangeOfNone(x)
  <2>1. PICK y \in HandlerType : y = ProcessInbuf(x)
    BY ProcessType
  <2>2. /\ h' = [h EXCEPT ![c] = y]
        /\ died' = IF Len(y.queue) > 1 THEN "pipeline" ELSE died
    BY <1>2, <2>1, ProcessType, MaxPipeline = 1 DEF Processing, TooMany
  <2>3. FileAt(y) /\ Len(y.queue) <= Len(x.queue) + 1
        /\ (x.inbuf = <<>> => y.queue = x.queue)
    BY <2>1, ProcessTells
  <2>4. FileStands'
    BY <2>2, <2>3 DEF FileStands, Types
  <2>5. Len(y.queue) > 1 => x.queue # <<>> /\ x.inbuf # <<>>
    <3>1. x.queue \in Seq(Reqs) /\ y.queue \in Seq(Reqs)
      BY DEF HandlerType
    <3> QED BY <2>3, <3>1
  <2> QED BY <2>2, <2>4, <2>5 DEF Alive
<1> QED BY <1>1, <1>2

\* The file of a handler stands when it, its queue and its state are as they were.
LEMMA FileSame ==
    ASSUME NEW x, NEW y, FileAt(x), y.queue = x.queue, y.rsp = x.rsp, y.off = x.off,
           y.expect = x.expect, y.nread = x.nread
    PROVE  FileAt(y)
BY DEF FileAt

\* The queue of a handler that is not full is empty.
LEMMA NotFull ==
    ASSUME MaxPipeline = 1, DInv, Alive, NEW c \in Conns
    PROVE  Len(h[c].queue) <= 1 /\ (~Full(h[c]) => h[c].queue = <<>>)
<1>1. h[c].queue \in Seq(Reqs)
  BY DEF DInv, Types, HandlerType
<1>2. Len(h[c].queue) <= 1
  BY MaxPipeline = 1 DEF DInv, QueueFits
<1>3. ~Full(h[c]) => Len(h[c].queue) # 1
  BY MaxPipeline = 1 DEF Full
<1>4. PICK q \in Seq(Reqs) : q = h[c].queue
  BY <1>1
<1>5. Len(q) <= 1 /\ Len(q) # 1 => q = <<>>
  <2>1. q # <<>> => Len(q) \in Nat \ {0}
    BY <1>4, EmptySeq
  <2> QED BY <2>1
<1> QED BY <1>2, <1>3, <1>4, <1>5

\* A step that leaves the server up, and the files where they stand.
LEMMA LivesOn ==
    ASSUME LInv, DInv', Once', FileStands', died' = "no"
    PROVE  LInv'
BY DEF LInv, Fates

-----------------------------------------------------------------------------

LEMMA InitLives == SrvInit => LInv
<1> SUFFICES ASSUME SrvInit PROVE LInv
  OBVIOUS
<1>1. DInv
  BY InitKeeps
<1>2. Once
  BY DEF SrvInit, Once
<1>3. FileStands
  BY DEF SrvInit, FileStands, FileAt, NoHandler
<1>4. Fates
  BY DEF SrvInit, Fates
<1> QED BY <1>1, <1>2, <1>3, <1>4 DEF LInv

\* While the server sends, nothing is to be deleted, before and after.
LEMMA OnceSending ==
    ASSUME LInv, pc.at \notin {"idle", "recv"}, UNCHANGED dels
    PROVE  Once'
<1>1. \A c \in Conns : dels[c] = 0
  BY DEF LInv, DInv, Scheduled
<1> QED BY <1>1 DEF Once

LEMMA AcceptLives ==
    ASSUME LInv, DInv', NEW c \in Conns, Accept(c)
    PROVE  LInv'
<1>1. /\ h' = [h EXCEPT ![c].st = "open"] /\ UNCHANGED <<pc, dels, died, odd>>
      /\ died = "no" /\ \A d \in Conns : dels[d] = 0
  BY DEF Accept, Idle, At, Alive
<1>2. h \in [Conns -> HandlerType]
  BY DEF LInv, DInv, Types
<1>3. FileStands'
  <2>1. FileAt(h[c]) /\ h[c] \in HandlerType
    BY <1>2 DEF LInv, FileStands
  <2>2. PICK y : y = [h[c] EXCEPT !.st = "open"]
    OBVIOUS
  <2>3. FileAt(y)
    BY <2>1, <2>2, FileSame DEF HandlerType
  <2> QED BY <1>1, <1>2, <2>2, <2>3 DEF LInv, FileStands
<1>4. Once'
  BY <1>1 DEF Once
<1> QED BY <1>1, <1>3, <1>4, LivesOn

\* The steps that leave the handlers and the deletions alone.
LEMMA MoveLives ==
    ASSUME LInv, DInv',
           (\E c \in Conns : SrvReady(c)) \/ FillBody \/ FillEnds \/ SendEnds
    PROVE  LInv'
<1>1. UNCHANGED <<h, dels, died, odd>> /\ died = "no"
  BY DEF SrvReady, FillBody, FillEnds, SendEnds, Idle, At, Alive
<1>2. FileStands'
  BY <1>1 DEF LInv, FileStands
<1>3. \A c \in Conns : dels[c] = 0
  <2>1. CASE \E c \in Conns : SrvReady(c)
    BY <2>1 DEF SrvReady, Idle
  <2>2. CASE FillBody \/ FillEnds \/ SendEnds
    <3>1. pc.at \in {"fill", "send"}
      BY <2>2 DEF FillBody, FillEnds, SendEnds, At
    <3> QED BY <3>1 DEF LInv, DInv, Scheduled
  <2> QED BY <2>1, <2>2
<1>4. Once'
  BY <1>1, <1>3 DEF Once
<1> QED BY <1>1, <1>2, <1>4, LivesOn

\* The end of the stream is not seen by a handler that is to be deleted.
LEMMA RecvLives ==
    ASSUME MaxPipeline = 1, LInv, DInv', RecvFromClient
    PROVE  LInv'
<1>1. PICK c \in Conns : c = pc.c
  BY DEF LInv, DInv, Types, PcType
<1>2. /\ pc.at = "recv" /\ died = "no" /\ pc'.at = "idle"
      /\ h \in [Conns -> HandlerType] /\ wire[c].up \in Seq(Units) /\ h[c].st = "open"
      /\ dels \in [Conns -> Nat] /\ FileAt(h[c])
  BY <1>1 DEF RecvFromClient, At, Alive, Rest, LInv, DInv, Types, AtWork, FileStands
<1>3. ~Full(h[c]) => h[c].queue = <<>>
  BY <1>2, NotFull, MaxPipeline = 1 DEF LInv, Alive
<1>4. odd \subseteq odd'
  BY DEF RecvFromClient, Odd
<1>5. CASE h' = [h EXCEPT ![c].ren = FALSE] /\ UNCHANGED <<dels, died, odd>>
  <2>1. PICK y : y = [h[c] EXCEPT !.ren = FALSE]
    OBVIOUS
  <2>2. FileAt(y) /\ y.st = h[c].st
    BY <1>2, <2>1, FileSame DEF HandlerType
  <2>3. FileStands' /\ \A d \in Conns : h'[d].st = h[d].st
    BY <1>2, <1>5, <2>1, <2>2 DEF LInv, FileStands
  <2>4. Once'
    BY <1>2, <1>5, <2>3 DEF LInv, Once
  <2> QED BY <1>2, <1>5, <2>3, <2>4, LivesOn
<1>6. ASSUME NEW n \in 1..Len(wire[c].up), UNCHANGED dels, ~Full(h[c]),
             Processing(c, [h[c] EXCEPT !.inbuf = @ \o SubSeq(wire[c].up, 1, n)])
      PROVE  LInv'
  <2>1. PICK x : x = [h[c] EXCEPT !.inbuf = @ \o SubSeq(wire[c].up, 1, n)]
    OBVIOUS
  <2>2. x \in HandlerType /\ x.queue = <<>> /\ x.st = h[c].st
    <3>1. SubSeq(wire[c].up, 1, n) \in Seq(Units)
      BY <1>2, Split
    <3>2. h[c].inbuf \o SubSeq(wire[c].up, 1, n) \in Seq(Units)
      BY <1>2, <3>1 DEF HandlerType
    <3> QED BY <1>2, <1>3, <1>6, <2>1, <3>2 DEF HandlerType
  <2>3. FileAt(x)
    BY <1>2, <2>1, FileSame DEF HandlerType
  <2>4. FileStands' /\ died' \in {"no", "back"}
    <3>1. Len(x.queue) <= 1
      BY <2>2
    <3> QED BY <1>2, <1>6, <2>1, <2>2, <2>3, <3>1, ProcessingTells, MaxPipeline = 1
            DEF LInv, DInv, Alive
  <2>5. \A d \in Conns : h'[d].st = h[d].st
    BY <1>2, <1>6, <2>1, <2>2, ProcessingKeeps DEF LInv, DInv, Alive
  <2>6. Once'
    BY <1>2, <1>4, <1>6, <2>5 DEF LInv, Once
  <2>7. Fates'
    BY <2>4 DEF Fates, DiesAfter
  <2> QED BY <2>4, <2>6, <2>7 DEF LInv
<1>7. CASE ~Full(h[c]) /\ DeleteLater(c) /\ UNCHANGED <<h, died, odd>>
  <2>1. FileStands'
    BY <1>7 DEF LInv, FileStands
  <2>2. Once'
    <3> SUFFICES ASSUME "late" \notin odd, NEW d \in Conns
                 PROVE  dels'[d] <= 1 /\ (dels'[d] = 1 => h[d].st = "open")
      BY <1>2, <1>7 DEF Once
    <3>1. dels[c] # 1 /\ dels[c] <= 1
      BY <1>1, <1>2, <1>3, <1>7 DEF LInv, Once
    <3>2. dels'[c] = 1
      BY <1>2, <1>7, <3>1 DEF DeleteLater
    <3>3. d # c => dels'[d] = dels[d]
      BY <1>7 DEF DeleteLater
    <3> QED BY <1>2, <3>2, <3>3 DEF LInv, Once
  <2> QED BY <1>2, <1>7, <2>1, <2>2, LivesOn
<1> QED BY <1>1, <1>5, <1>6, <1>7 DEF RecvFromClient

\* A burst that ends with the next request read may find it one too many.
LEMMA AddMoreLives ==
    ASSUME MaxPipeline = 1, LInv, DInv', AddMore
    PROVE  LInv'
<1>1. PICK c \in Conns : c = pc.c
  BY DEF LInv, DInv, Types, PcType
<1> DEFINE x == h[c]
           due == pc.burst >= Burst
           y == IF due /\ ~RangeOfNone(x) THEN ProcessInbuf(x) ELSE x
           z == [y EXCEPT !.wen = FALSE]
<1>2. /\ pc.at = "add" /\ died = "no" /\ UNCHANGED dels
      /\ h \in [Conns -> HandlerType] /\ x \in HandlerType /\ FileAt(x)
  BY <1>1 DEF AddMore, At, Alive, LInv, DInv, Types, FileStands
<1>3. Once'
  BY <1>2, OnceSending
<1>4. Len(x.queue) <= 1
  BY <1>2, NotFull, MaxPipeline = 1 DEF LInv, Alive
<1>5. Odd("burst", due /\ x.queue # <<>> /\ x.inbuf # <<>>)
  BY <1>1 DEF AddMore
<1>6. y \in HandlerType /\ FileAt(y)
  BY <1>2, ProcessType, ProcessTells
<1>7. CASE y.queue = <<>> /\ Processing(c, z)
  <2> HIDE DEF y
  <2>1. z \in HandlerType /\ z.queue = <<>> /\ FileAt(z)
    <3>1. PICK v : v = z
      OBVIOUS
    <3>2. v \in HandlerType /\ v.queue = <<>>
      BY <1>6, <1>7, <3>1 DEF HandlerType
    <3>3. FileAt(v)
      BY <1>6, <3>1, FileSame DEF HandlerType
    <3> QED BY <3>1, <3>2, <3>3
  <2>2. Len(z.queue) <= 1
    BY <2>1
  <2> HIDE DEF z
  <2>3. FileStands' /\ died' \in {"no", "back"}
    BY <1>2, <1>7, <2>1, <2>2, ProcessingTells, MaxPipeline = 1 DEF LInv, DInv, Alive
  <2>4. Fates'
    BY <2>3 DEF Fates, DiesAfter
  <2> QED BY <1>3, <2>3, <2>4 DEF LInv
<1>8. CASE /\ h' = [h EXCEPT ![c] = y]
           /\ died' = CASE due /\ RangeOfNone(x) -> "back"
                         [] due /\ ~RangeOfNone(x) /\ TooMany(x) -> "pipeline"
                         [] OTHER -> died
  <2>1. CASE due /\ ~RangeOfNone(x)
    <3>1. Processing(c, x)
      BY <1>2, <1>8, <2>1 DEF Processing
    <3>2. /\ FileStands'
          /\ \/ died' \in {"no", "back"}
             \/ died' = "pipeline" /\ x.queue # <<>> /\ x.inbuf # <<>>
      BY <1>2, <1>4, <3>1, ProcessingTells, MaxPipeline = 1 DEF LInv, DInv, Alive
    <3>3. died' = "pipeline" => "burst" \in odd'
      BY <1>5, <2>1, <3>2 DEF Odd
    <3>4. Fates'
      BY <3>2, <3>3 DEF Fates, DiesAfter
    <3> QED BY <1>3, <3>2, <3>4 DEF LInv
  <2>2. CASE ~(due /\ ~RangeOfNone(x))
    <3>1. h' = h /\ died' \in {"no", "back"}
      BY <1>2, <1>8, <2>2
    <3>2. FileStands' /\ Fates'
      BY <3>1 DEF LInv, FileStands, Fates, DiesAfter
    <3> QED BY <1>3, <3>2 DEF LInv
  <2> QED BY <2>1, <2>2
<1> QED BY <1>1, <1>7, <1>8 DEF AddMore

\* At the header the file stands where the answer begins.
LEMMA FillMetaLives ==
    ASSUME LInv, DInv', FillMeta
    PROVE  LInv'
<1>1. PICK c \in Conns : c = pc.c
  BY DEF LInv, DInv, Types, PcType
<1>2. /\ pc.at = "fill" /\ died = "no" /\ UNCHANGED <<dels, died, odd>>
      /\ h \in [Conns -> HandlerType] /\ h[c] \in HandlerType /\ h[c].queue # <<>>
  BY <1>1 DEF FillMeta, At, Alive, Filling, LInv, DInv, Types
<1>3. PICK r : r = Head(h[c].queue)
  OBVIOUS
<1>4. r.path \in Files /\ r.first \in Int
  <2>1. h[c].queue \in Seq(Reqs)
    BY <1>2 DEF HandlerType
  <2>2. r \in Reqs
    BY <1>2, <1>3, <2>1
  <2> QED BY <2>2 DEF Reqs
<1>5. PICK y : y = [h[c] EXCEPT !.outbuf = Append(@, Header(r.path, r.first)),
                                !.rsp = "BODY", !.off = StartAt(r.first), !.nread = 0,
                                !.expect = Size[r.path] - StartAt(r.first)]
  OBVIOUS
<1>6. h' = [h EXCEPT ![c] = y]
  BY <1>1, <1>3, <1>5 DEF FillMeta
<1>7. /\ y.queue = h[c].queue /\ y.off = StartAt(r.first) /\ y.nread = 0
      /\ y.expect = Size[r.path] - StartAt(r.first)
  BY <1>2, <1>5 DEF HandlerType
<1>8. FileAt(y)
  <2>1. StartAt(r.first) \in Int /\ Size[r.path] \in Int
    BY <1>4, ServerAssumption DEF StartAt
  <2>2. y.expect + y.off = Size[r.path] + y.nread
    BY <1>7, <2>1
  <2> QED BY <1>2, <1>3, <1>7, <2>2 DEF FileAt
<1>9. FileStands'
  BY <1>2, <1>6, <1>8 DEF LInv, FileStands
<1>10. Once'
  BY <1>2, OnceSending
<1> QED BY <1>2, <1>9, <1>10, LivesOn

\* At the end of the file nothing is missing of the answer.
LEMMA ReadBlockLives ==
    ASSUME MaxPipeline = 1, LInv, DInv', ReadBlock
    PROVE  LInv'
<1>1. PICK c \in Conns : c = pc.c
  BY DEF LInv, DInv, Types, PcType
<1>2. PICK x \in HandlerType : x = h[c]
  BY DEF LInv, DInv, Types
<1>3. /\ pc.at = "body" /\ died = "no" /\ UNCHANGED <<dels, odd>>
      /\ h \in [Conns -> HandlerType] /\ x.queue # <<>> /\ x.rsp = "BODY"
      /\ x.queue \in Seq(Reqs) /\ x.off \in Int /\ x.nread \in Int /\ x.expect \in Int
      /\ x.outbuf \in Seq(Units)
  BY <1>1, <1>2 DEF ReadBlock, At, Alive, LInv, DInv, Types, AtWork, HandlerType
<1>a. x.off \in Int /\ x.nread \in Int /\ x.expect \in Int
  BY <1>3
<1>4. PICK path \in Files : path = Head(x.queue).path
  <2>1. Head(x.queue) \in Reqs
    BY <1>3
  <2> QED BY <2>1 DEF Reqs
<1>5. PICK sz \in Int : sz = Size[path]
  BY ServerAssumption
<1>6. x.expect + x.off = sz + x.nread
  BY <1>1, <1>2, <1>3, <1>4, <1>5 DEF LInv, FileStands, FileAt
<1>7. Block \in Int
  BY ServerAssumption
<1>8. PICK n \in Int : n = IF sz - x.off < Block THEN sz - x.off ELSE Block
  BY <1>3, <1>5, <1>7
<1>b. x.expect + (x.off + n) = sz + (x.nread + n)
  BY <1>6, <1>8, <1>a
<1>9. PICK o \in Seq(Units) : o = x.outbuf \o Pieces(path, x.off, x.off + n)
  <2>1. x.off + n \in Int
    BY <1>3, <1>8
  <2>2. Pieces(path, x.off, x.off + n) \in Seq(Units)
    BY <1>3, <1>4, <2>1, PiecesType
  <2>3. x.outbuf \o Pieces(path, x.off, x.off + n) \in Seq(Units)
    BY <1>3, <2>2, ConcatProperties
  <2> QED BY <2>3
<1>10. PICK a \in Int, b \in Int : a = x.off + n /\ b = x.nread + n
  BY <1>3, <1>8
<1>11. PICK y \in HandlerType : y = [x EXCEPT !.outbuf = o, !.off = a, !.nread = b]
  <2>1. [x EXCEPT !.outbuf = o, !.off = a, !.nread = b] \in HandlerType
    BY <1>2, <1>9, <1>10 DEF HandlerType
  <2> QED BY <2>1
<1>12. /\ y.queue = x.queue /\ y.rsp = "BODY" /\ y.off = a /\ y.nread = b
       /\ y.expect = x.expect
  BY <1>3, <1>11 DEF HandlerType
<1>13. FileAt(y)
  <2>1. x.expect + a = sz + b
    BY <1>10, <1>b
  <2> QED BY <1>3, <1>4, <1>5, <1>12, <2>1 DEF FileAt
<1>14. ~Unexpected(n, y)
  <2>1. n < Block => x.nread + n = x.expect
    BY <1>6, <1>7, <1>8, <1>a
  <2> QED BY <1>10, <1>12, <2>1 DEF Unexpected
<1>15. PICK t \in Seq(Reqs) : t = Tail(x.queue) /\ Len(t) = Len(x.queue) - 1
  <2>1. Tail(x.queue) \in Seq(Reqs) /\ Len(Tail(x.queue)) = Len(x.queue) - 1
    BY <1>3
  <2> QED BY <2>1
<1>16. PICK z : z = [y EXCEPT !.queue = t, !.rsp = "META", !.off = 0, !.nread = 0,
                              !.expect = 0]
  OBVIOUS
<1>17. z \in HandlerType /\ z.queue = t /\ FileAt(z)
  <2>1. z \in HandlerType
    <3>1. y \in HandlerType /\ t \in Seq(Reqs) /\ 0 \in Int
      BY <1>11, <1>15
    <3> QED BY <1>16, <3>1 DEF HandlerType
  <2>2. z.queue = t /\ z.rsp = "META"
    BY <1>11, <1>16 DEF HandlerType
  <2> QED BY <2>1, <2>2 DEF FileAt
<1>18. Len(t) <= 1 /\ t = <<>>
  <2>1. Len(x.queue) <= 1
    BY <1>1, <1>2, <1>3, NotFull, MaxPipeline = 1 DEF LInv, Alive
  <2>2. Len(x.queue) \in Nat /\ Len(t) \in Nat
    BY <1>3, <1>15, LenProperties
  <2>3. \A k, l \in Nat : l = k - 1 /\ k <= 1 => l = 0
    OBVIOUS
  <2>4. Len(t) = 0
    BY <1>15, <2>1, <2>2, <2>3
  <2>5. t = <<>>
    BY <1>15, <2>4, EmptySeq
  <2> QED BY <2>4, <2>5
<1>19. IF n = Block \/ Unexpected(n, y)
       THEN h' = [h EXCEPT ![c] = y] /\ died' = IF n < Block THEN "length" ELSE died
       ELSE Processing(c, z)
  BY <1>1, <1>2, <1>4, <1>5, <1>8, <1>9, <1>10, <1>11, <1>15, <1>16, <1>12 DEF ReadBlock
<1>20. Once'
  BY <1>3, OnceSending
<1>21. CASE Processing(c, z)
  <2>1. FileStands' /\ died' \in {"no", "back"}
    BY <1>3, <1>17, <1>18, <1>21, ProcessingTells, MaxPipeline = 1 DEF LInv, DInv, Alive
  <2>2. Fates'
    BY <2>1 DEF Fates, DiesAfter
  <2> QED BY <1>20, <2>1, <2>2 DEF LInv
<1>22. CASE n = Block /\ h' = [h EXCEPT ![c] = y]
              /\ died' = IF n < Block THEN "length" ELSE died
  <2>1. FileStands'
    BY <1>3, <1>13, <1>22 DEF LInv, FileStands
  <2>2. died' = "no"
    BY <1>3, <1>7, <1>22
  <2> QED BY <1>20, <2>1, <2>2, LivesOn
<1> QED BY <1>14, <1>19, <1>21, <1>22

LEMMA SendMoreLives ==
    ASSUME LInv, DInv', SendMore
    PROVE  LInv'
<1>1. PICK c \in Conns : c = pc.c
  BY DEF LInv, DInv, Types, PcType
<1>2. /\ pc.at = "send" /\ died = "no" /\ UNCHANGED <<dels, died, odd>>
      /\ h \in [Conns -> HandlerType] /\ h[c] \in HandlerType /\ FileAt(h[c])
  BY <1>1 DEF SendMore, At, Alive, LInv, DInv, Types, FileStands
<1>3. PICK o : h' = [h EXCEPT ![c].outbuf = o]
  BY <1>1 DEF SendMore
<1>4. PICK y : y = [h[c] EXCEPT !.outbuf = o]
  OBVIOUS
<1>5. FileAt(y)
  BY <1>2, <1>4, FileSame DEF HandlerType
<1>6. FileStands'
  BY <1>2, <1>3, <1>4, <1>5 DEF LInv, FileStands
<1>7. Once'
  BY <1>2, OnceSending
<1> QED BY <1>2, <1>6, <1>7, LivesOn

\* When writing fails and a request is left, that keeps the handler from being read.
LEMMA WriteFailsLives ==
    ASSUME LInv, DInv', WriteFails
    PROVE  LInv'
<1>1. PICK c \in Conns : c = pc.c
  BY DEF LInv, DInv, Types, PcType
<1>2. /\ pc.at = "send" /\ died = "no" /\ h' = h /\ DeleteLater(c) /\ pc' = Sent
      /\ Odd("late", h[c].queue = <<>>)
      /\ died' \in IF h[c].queue = <<>> THEN {died, "front"} ELSE {died}
  BY <1>1 DEF WriteFails, At, Alive
<1>3. h[c].st = "open" /\ (\A d \in Conns : dels[d] = 0) /\ dels \in [Conns -> Nat]
  BY <1>1, <1>2, Sending DEF LInv, DInv, Types
<1>4. Sent.at \in {"idle", "recv"} /\ (Sent.at # "idle" => Sent.c = c)
  BY <1>1, SentType DEF LInv, DInv
<1>5. dels'[c] = 1 /\ \A d \in Conns : d # c => dels'[d] = 0
  BY <1>2, <1>3 DEF DeleteLater
<1>6. "late" \in odd' \/ h[c].queue # <<>>
  BY <1>2 DEF Odd
<1>7. Once'
  BY <1>2, <1>3, <1>4, <1>5, <1>6 DEF Once
<1>8. FileStands'
  BY <1>2 DEF LInv, FileStands
<1>9. Fates'
  BY <1>2, <1>6 DEF Fates, DiesAfter
<1> QED BY <1>7, <1>8, <1>9 DEF LInv

\* A handler that is deleted is there, unless a write failed late.
LEMMA DeleteLives ==
    ASSUME LInv, DInv', Delete
    PROVE  LInv'
<1>1. PICK c \in Conns :
         /\ dels[c] > 0 /\ dels' = [dels EXCEPT ![c] = @ - 1]
         /\ h' = [h EXCEPT ![c] = [NoHandler EXCEPT !.st = "gone"]]
         /\ died' = IF h[c].st = "gone" THEN "again" ELSE died
  BY DEF Delete
<1>2. pc.at = "idle" /\ died = "no" /\ UNCHANGED <<pc, odd>>
      /\ h \in [Conns -> HandlerType] /\ dels \in [Conns -> Nat]
  BY DEF Delete, At, Alive, LInv, DInv, Types
<1>3. "late" \notin odd => dels[c] = 1 /\ h[c].st = "open"
  <2>1. "late" \notin odd => dels[c] <= 1
    BY DEF LInv, Once
  <2>2. dels[c] \in Nat /\ dels[c] > 0
    BY <1>1, <1>2
  <2>3. "late" \notin odd => dels[c] = 1
    BY <2>1, <2>2
  <2> QED BY <2>3 DEF LInv, Once
<1>4. Once'
  <2> SUFFICES ASSUME "late" \notin odd, NEW d \in Conns
               PROVE  dels'[d] <= 1 /\ (dels'[d] = 1 => h'[d].st = "open")
    BY <1>2 DEF Once
  <2>1. dels'[c] = 0
    BY <1>1, <1>2, <1>3
  <2>2. d # c => dels'[d] = dels[d] /\ h'[d] = h[d]
    BY <1>1, <1>2
  <2> QED BY <2>1, <2>2 DEF LInv, Once
<1>5. FileStands'
  <2>1. [NoHandler EXCEPT !.st = "gone"].rsp = "META"
    BY DEF NoHandler
  <2> QED BY <1>1, <1>2, <2>1 DEF LInv, FileStands, FileAt
<1>6. Fates'
  BY <1>1, <1>2, <1>3 DEF Fates, DiesAfter
<1> QED BY <1>4, <1>5, <1>6 DEF LInv

LEMMA ClientLives ==
    ASSUME LInv, DInv', ClientStep \/ UNCHANGED srvVars
    PROVE  LInv'
<1>1. UNCHANGED <<h, pc, dels, died, odd>>
  BY DEF ClientStep, Ask, Receive, Leave, srvVars
<1>2. Once' /\ FileStands' /\ Fates'
  BY <1>1 DEF LInv, Once, FileStands, Fates
<1> QED BY <1>2 DEF LInv

\* LInv is an invariant.
LEMMA AlwaysLives ==
    ASSUME MaxPipeline = 1
    PROVE  SrvSpec => []LInv
<1>1. SrvInit => LInv
  BY InitLives
<1>2. LInv /\ [SrvNext]_srvVars => LInv'
  <2> SUFFICES ASSUME LInv, [SrvNext]_srvVars PROVE LInv'
    OBVIOUS
  <2>1. DInv'
    BY StepKeeps DEF LInv
  <2>2. ASSUME NEW c \in Conns, Accept(c) PROVE LInv'
    BY <2>1, <2>2, AcceptLives
  <2>3. CASE (\E c \in Conns : SrvReady(c)) \/ FillBody \/ FillEnds \/ SendEnds
    BY <2>1, <2>3, MoveLives
  <2>4. CASE RecvFromClient
    BY <2>1, <2>4, RecvLives, MaxPipeline = 1
  <2>5. CASE AddMore
    BY <2>1, <2>5, AddMoreLives, MaxPipeline = 1
  <2>6. CASE FillMeta
    BY <2>1, <2>6, FillMetaLives
  <2>7. CASE ReadBlock
    BY <2>1, <2>7, ReadBlockLives, MaxPipeline = 1
  <2>8. CASE SendMore
    BY <2>1, <2>8, SendMoreLives
  <2>9. CASE WriteFails
    BY <2>1, <2>9, WriteFailsLives
  <2>10. CASE Delete
    BY <2>1, <2>10, DeleteLives
  <2>11. CASE ClientStep \/ UNCHANGED srvVars
    BY <2>1, <2>11, ClientLives
  <2> QED BY <2>2, <2>3, <2>4, <2>5, <2>6, <2>7, <2>8, <2>9, <2>10, <2>11
          DEF SrvNext, ServerStep, Handling
<1> QED BY <1>1, <1>2, PTL DEF SrvSpec

\* With the MAX_PIPELINE_REQS of the code a handler deletes itself once, whatever
\* happens to its socket, as long as no write fails after the last file was read.  Were
\* the pipeline longer, a handler with room in its queue would read after any failed
\* write, see the end of the stream, and schedule a second delete_handler.
THEOREM HandlerDeletedOnce ==
    ASSUME MaxPipeline = 1
    PROVE  SrvSpec => []DeletedOnce
<1>1. SrvSpec => []LInv
  BY AlwaysLives, MaxPipeline = 1
<1>2. LInv => DeletedOnce
  <2> SUFFICES ASSUME LInv, "late" \notin odd, NEW c \in Conns
               PROVE  dels[c] + Gone(c) <= 1
    BY DEF DeletedOnce
  <2>1. dels[c] \in Nat /\ dels[c] <= 1 /\ (dels[c] = 1 => h[c].st = "open")
    BY DEF LInv, DInv, Types, Once
  <2> QED BY <2>1 DEF Gone
<1> QED BY <1>1, <1>2, PTL

-----------------------------------------------------------------------------
(* What is on its way to be answered, and what was made of answers.        *)

\* The requests k + 1 to n of a wish, one after the other, are s.
InLines(s, w, k, n) ==
    \E cut \in [k..n -> 0..Len(s)] :
        /\ cut[k] = 0 /\ cut[n] = Len(s)
        /\ \A i, j \in k..n : i <= j => cut[i] <= cut[j]
        /\ \A j \in (k + 1)..n :
              /\ cut[j] = cut[j - 1] + Len(Request(w[j]))
              /\ \A i \in 1..Len(Request(w[j])) : s[cut[j - 1] + i] = Request(w[j])[i]

\* All that the server has made of answers: received, on its way and in outbuf.
Made(c) == (cli[c].got \o wire[c].down) \o h[c].outbuf

\* A request of the queue is that of the wish; a range from 0 is none.
IsRequest(e, r) == e.path = r.path /\ e.first = IF r.first > 0 THEN r.first ELSE -1

\* d requests are answered; those in the queue, in inbuf and on their way follow
\* in their order.
Unanswered(x, w, up, d, n) ==
    LET e == d + Len(x.queue)
    IN  /\ e <= n
        /\ \A i \in 1..Len(x.queue) : IsRequest(x.queue[i], w[d + i])
        /\ \E m \in e..n : InLines(x.inbuf, w, e, m) /\ InLines(up, w, m, n)
        /\ x.req = "REQ_LINE"

\* Between two answers all of d answers was made.  Within one the file stands behind
\* what was made of it.
MadeOf(x, w, made, d) ==
    LET r == w[d + 1]
    IN  \/ x.rsp = "META" /\ made = Answers(w, d)
        \/ /\ x.rsp = "BODY" /\ x.queue # <<>>
           /\ x.expect = Size[r.path] - StartAt(r.first)
           /\ x.nread \in 0..x.expect
           /\ x.off = StartAt(r.first) + x.nread
           /\ made = Answers(w, d) \o SubSeq(Answer(r), 1, 1 + x.nread)

\* A client that waits for each answer has asked for one thing more, or for a second one
\* when it has the file that the server has not seen the end of.
OneAhead(x, d, n) ==
    /\ x.inbuf = <<>>
    /\ n <= d + 1 \/ (n = d + 2 /\ x.rsp = "BODY" /\ x.nread = x.expect)

Fit(x, w, up, made, d, n) ==
    /\ Unanswered(x, w, up, d, n)
    /\ MadeOf(x, w, made, d)
    /\ setting.ahead = 1 => OneAhead(x, d, n)

Stands(c, d) == Fit(h[c], cli[c].wish, wire[c].up, Made(c), d, cli[c].sent)

Standing ==
    \A c \in Conns : h[c].st # "gone" => \E d \in 0..cli[c].sent : Stands(c, d)

\* Only handlers of clients that left are deleted.
DeletedAfter ==
    \A c \in Conns : h[c].st = "gone" \/ dels[c] > 0 => cli[c].closed

\* No range comes without its request, and a client that waits for each answer meets no
\* burst that ends with the next request read.
Waiting == died # "back" /\ (setting.ahead = 1 => "burst" \notin odd)

-----------------------------------------------------------------------------
(* Sequences.                                                              *)

LEMMA Concatenation ==
    ASSUME NEW U, NEW s \in Seq(U), NEW t \in Seq(U)
    PROVE  /\ s \o t \in Seq(U) /\ Len(s \o t) = Len(s) + Len(t)
           /\ Len(s) \in Nat /\ Len(t) \in Nat
           /\ \A i \in 1..Len(s) : (s \o t)[i] = s[i]
           /\ \A i \in 1..Len(t) : (s \o t)[Len(s) + i] = t[i]
OBVIOUS

InTurn(a, b, c) == a \o (b \o c) = (a \o b) \o c

LEMMA InAnyTurn ==
    ASSUME NEW U, NEW a \in Seq(U), NEW b \in Seq(U), NEW c \in Seq(U)
    PROVE  InTurn(a, b, c)
BY ConcatAssociative DEF InTurn

\* What a sequence begins with may be moved to the one before it.
MovesOver(a, b, s, n) ==
    (a \o (b \o SubSeq(s, 1, n))) \o SubSeq(s, n + 1, Len(s)) = (a \o b) \o s

LEMMA MoveOver ==
    ASSUME NEW U, NEW a \in Seq(U), NEW b \in Seq(U), NEW s \in Seq(U), NEW n \in 0..Len(s)
    PROVE  MovesOver(a, b, s, n)
<1> DEFINE p == SubSeq(s, 1, n)
           q == SubSeq(s, n + 1, Len(s))
<1>1. p \in Seq(U) /\ q \in Seq(U)
  BY Split
<1>2. p \o q = s
  <2>1. /\ 1 \in 1..(Len(s) + 1) /\ n \in (1 - 1)..Len(s) /\ Len(s) \in n..Len(s)
    OBVIOUS
  <2>2. p \o q = SubSeq(s, 1, Len(s))
    BY <2>1, ConcatAdjacentSubSeq, Zenon
  <2>3. SubSeq(s, 1, Len(s)) = s
    BY SubSeqFull, Zenon
  <2> QED BY <2>2, <2>3
<1> HIDE DEF p, q
<1>3. (a \o (b \o p)) \o q = ((a \o b) \o p) \o q
  <2>1. (a \o b) \o p = a \o (b \o p)
    <3>1. InTurn(a, b, p)
      BY <1>1, InAnyTurn
    <3> QED BY <3>1, Zenon DEF InTurn
  <2> QED BY <2>1, Zenon
<1>4. (a \o b) \in Seq(U)
  OBVIOUS
<1>5. ((a \o b) \o p) \o q = (a \o b) \o (p \o q)
  <2>1. PICK ab \in Seq(U) : ab = a \o b
    BY <1>4
  <2>2. InTurn(ab, p, q)
    BY <1>1, InAnyTurn
  <2> QED BY <2>1, <2>2, Zenon DEF InTurn
<1> QED BY <1>2, <1>3, <1>5 DEF p, q, MovesOver

\* A beginning, and the elements that follow it, are a longer beginning.
LEMMA Longer ==
    ASSUME NEW U, NEW s \in Seq(U), NEW k \in Nat, NEW n \in Nat, k + n <= Len(s),
           NEW t \in Seq(U), Len(t) = n, \A i \in 1..n : t[i] = s[k + i]
    PROVE  SubSeq(s, 1, k) \o t = SubSeq(s, 1, k + n)
<1> DEFINE p == SubSeq(s, 1, k)
           q == SubSeq(s, 1, k + n)
<1>1. /\ p \in Seq(U) /\ Len(p) = k /\ \A i \in 1..k : p[i] = s[i]
      /\ q \in Seq(U) /\ Len(q) = k + n /\ \A i \in 1..(k + n) : q[i] = s[i]
  OBVIOUS
<1> HIDE DEF p, q
<1>2. (p \o t) \in Seq(U) /\ Len(p \o t) = Len(q)
  BY <1>1
<1>3. ASSUME NEW i \in 1..Len(q) PROVE (p \o t)[i] = q[i]
  <2>1. CASE i <= k
    BY <1>1, <2>1
  <2>2. CASE i > k
    <3>1. i - k \in 1..n /\ k + (i - k) = i
      BY <1>1, <2>2
    <3>2. (p \o t)[i] = t[i - k]
      <4>1. i \in 1..(Len(p) + Len(t)) /\ Len(p) = k
        BY <1>1
      <4>2. (p \o t)[i] = IF i <= Len(p) THEN p[i] ELSE t[i - Len(p)]
        BY <1>1, <4>1, ConcatProperties, Zenon
      <4> QED BY <2>2, <4>1, <4>2
    <3>3. t[i - k] = s[i]
      BY <3>1
    <3> QED BY <1>1, <3>2, <3>3
  <2> QED BY <1>1, <2>1, <2>2
<1>4. p \o t = q
  BY <1>1, <1>2, <1>3, SeqEqual
<1> QED BY <1>4 DEF p, q

\* Prefixes.
LEMMA PrefixOfConcat ==
    ASSUME NEW U, NEW a \in Seq(U), NEW b \in Seq(U)
    PROVE  IsPrefix(a, a \o b)
BY DEF IsPrefix

LEMMA PrefixOfSub ==
    ASSUME NEW U, NEW a \in Seq(U), NEW b \in Seq(U), NEW n \in 0..Len(b)
    PROVE  IsPrefix(a \o SubSeq(b, 1, n), a \o b)
<1>1. SubSeq(b, 1, n) \in Seq(U) /\ Len(SubSeq(b, 1, n)) = n
      /\ \A i \in 1..n : SubSeq(b, 1, n)[i] = b[i]
  OBVIOUS
<1> DEFINE s == SubSeq(b, 1, n)
<1> HIDE DEF s
<1>2. (a \o s) \in Seq(U) /\ (a \o b) \in Seq(U) /\ Len(a \o s) = Len(a) + n
      /\ Len(a \o b) = Len(a) + Len(b)
  BY <1>1 DEF s
<1>3. \A i \in 1..(Len(a) + n) : (a \o s)[i] = (a \o b)[i]
  BY <1>1 DEF s
<1> QED BY <1>2, <1>3 DEF IsPrefix, s

LEMMA PrefixOfPrefix ==
    ASSUME NEW U, NEW a \in Seq(U), NEW b \in Seq(U), NEW c \in Seq(U),
           IsPrefix(a, b), IsPrefix(b, c)
    PROVE  IsPrefix(a, c)
<1>1. Len(a) <= Len(b) /\ Len(b) <= Len(c)
  BY DEF IsPrefix
<1>2. \A i \in 1..Len(a) : a[i] = b[i]
  <2>1. SubSeq(a, 1, Len(a)) = SubSeq(b, 1, Len(a))
    BY DEF IsPrefix
  <2> QED BY <1>1, <2>1
<1>3. \A i \in 1..Len(b) : b[i] = c[i]
  <2>1. SubSeq(b, 1, Len(b)) = SubSeq(c, 1, Len(b))
    BY DEF IsPrefix
  <2> QED BY <1>1, <2>1
<1>4. SubSeq(a, 1, Len(a)) = SubSeq(c, 1, Len(a))
  BY <1>1, <1>2, <1>3
<1> QED BY <1>1, <1>4 DEF IsPrefix

-----------------------------------------------------------------------------
(* Requests in a stream.                                                   *)

\* What clients can ask for.
IsWish(w) ==
    /\ w \in Seq(Reqs)
    /\ \A k \in 1..Len(w) : w[k].first \in -1..(Size[w[k].path] - 1)

\* A request has a first line, perhaps a range, and a last line.
LEMMA RequestLines ==
    ASSUME NEW r \in Reqs
    PROVE  /\ Request(r) \in Seq(Units)
           /\ Len(Request(r)) = IF r.first > 0 THEN 3 ELSE 2
           /\ Request(r)[1] = Unit("get", r.path, 0)
           /\ r.first > 0 => Request(r)[2] = Unit("range", r.path, r.first)
           /\ Request(r)[Len(Request(r))] = Unit("blank", r.path, 0)
<1>1. /\ Unit("get", r.path, 0) \in Units /\ Unit("blank", r.path, 0) \in Units
      /\ Unit("range", r.path, r.first) \in Units /\ r.first \in Int
  BY DEF Unit, Units, Reqs
<1> DEFINE g == Unit("get", r.path, 0)
           b == Unit("blank", r.path, 0)
           x == Unit("range", r.path, r.first)
           m == IF r.first > 0 THEN <<x>> ELSE <<>>
<1>2. Request(r) = (<<g>> \o m) \o <<b>>
  BY DEF Request
<1>3. g \in Units /\ x \in Units /\ b \in Units
  BY <1>1
<1> HIDE DEF g, b, x
<1>4. /\ m \in Seq(Units) /\ Len(m) = (IF r.first > 0 THEN 1 ELSE 0)
      /\ r.first > 0 => m[1] = x
  BY <1>3
<1>5. /\ <<g>> \in Seq(Units) /\ Len(<<g>>) = 1 /\ <<g>>[1] = g
      /\ <<b>> \in Seq(Units) /\ Len(<<b>>) = 1 /\ <<b>>[1] = b
  BY <1>3
<1> HIDE DEF m
<1>6. PICK u \in Seq(Units), v \in Seq(Units), mm \in Seq(Units) :
         u = <<g>> /\ v = <<b>> /\ mm = m
  BY <1>4, <1>5
<1>7. /\ u \o m \in Seq(Units) /\ Len(u \o m) = 1 + Len(m)
      /\ (u \o m)[1] = g
      /\ r.first > 0 => (u \o m)[2] = x
  <2>1. /\ u \o mm \in Seq(Units) /\ Len(u \o mm) = Len(u) + Len(mm)
        /\ \A i \in 1..Len(u) : (u \o mm)[i] = u[i]
        /\ \A i \in 1..Len(mm) : (u \o mm)[Len(u) + i] = mm[i]
    BY Concatenation
  <2>2. Len(u) = 1 /\ u[1] = g
    BY <1>5, <1>6
  <2>3. r.first > 0 => 1 \in 1..Len(m) /\ 1 + 1 = 2
    BY <1>4
  <2>4. (u \o mm)[1] = g
    BY <2>1, <2>2
  <2>5. r.first > 0 => (u \o mm)[2] = x
    BY <1>4, <1>6, <2>1, <2>2, <2>3
  <2> QED BY <1>6, <2>1, <2>2, <2>4, <2>5
<1>8. PICK um \in Seq(Units) : um = u \o m
  BY <1>7
<1>9. /\ um \o v \in Seq(Units) /\ Len(um \o v) = 2 + Len(m)
      /\ (um \o v)[1] = g
      /\ r.first > 0 => (um \o v)[2] = x
      /\ (um \o v)[2 + Len(m)] = b
  <2>1. /\ um \o v \in Seq(Units) /\ Len(um \o v) = Len(um) + Len(v)
        /\ \A i \in 1..Len(um) : (um \o v)[i] = um[i]
        /\ \A i \in 1..Len(v) : (um \o v)[Len(um) + i] = v[i]
    BY Concatenation
  <2>2. Len(um) = 1 + Len(m) /\ um[1] = g /\ (r.first > 0 => um[2] = x) /\ Len(v) = 1 /\ v[1] = b
    BY <1>5, <1>6, <1>7, <1>8
  <2>3. Len(m) \in 0..1 /\ (r.first > 0 => Len(m) = 1)
    BY <1>4
  <2>4. 1 \in 1..Len(um) /\ (r.first > 0 => 2 \in 1..Len(um)) /\ 1 \in 1..Len(v)
        /\ Len(um) + 1 = 2 + Len(m) /\ Len(um) + Len(v) = 2 + Len(m)
    BY <2>2, <2>3
  <2>5. (um \o v)[Len(um) + 1] = b
    BY <2>1, <2>2, <2>4
  <2> QED BY <2>1, <2>2, <2>4, <2>5
<1>10. Request(r) = um \o v
  BY <1>2, <1>6, <1>8
<1> QED BY <1>1, <1>4, <1>9, <1>10 DEF g, x, b

\* No request is in nothing, and nothing is no request.
LEMMA NoLines ==
    ASSUME NEW w, NEW k \in Nat
    PROVE  /\ InLines(<<>>, w, k, k)
           /\ \A s \in Seq(Units) : InLines(s, w, k, k) => s = <<>>
<1>1. InLines(<<>>, w, k, k)
  <2> DEFINE cut == [j \in k..k |-> 0]
  <2>1. cut \in [k..k -> 0..Len(<<>>)] /\ cut[k] = 0 /\ Len(<<>>) = 0
    OBVIOUS
  <2>2. (k + 1)..k = {}
    OBVIOUS
  <2> HIDE DEF cut
  <2> QED BY <2>1, <2>2 DEF InLines
<1>2. ASSUME NEW s \in Seq(Units), InLines(s, w, k, k) PROVE s = <<>>
  <2>1. PICK cut \in [k..k -> 0..Len(s)] : cut[k] = 0 /\ cut[k] = Len(s)
    BY <1>2 DEF InLines
  <2> QED BY <2>1, EmptySeq
<1> QED BY <1>1, <1>2

\* A request is itself.
LEMMA OneRequest ==
    ASSUME NEW w, NEW k \in Nat, w[k + 1] \in Reqs
    PROVE  InLines(Request(w[k + 1]), w, k, k + 1)
<1> DEFINE R == Request(w[k + 1])
<1>1. R \in Seq(Units)
  BY RequestLines
<1> DEFINE cut == [j \in k..(k + 1) |-> IF j = k THEN 0 ELSE Len(R)]
<1>2. cut \in [k..(k + 1) -> 0..Len(R)] /\ cut[k] = 0 /\ cut[k + 1] = Len(R)
      /\ \A i, j \in k..(k + 1) : i <= j => cut[i] <= cut[j]
  <2> HIDE DEF R
  <2> QED BY <1>1
<1>3. \A j \in (k + 1)..(k + 1) : j = k + 1 /\ j - 1 = k
  OBVIOUS
<1> HIDE DEF cut
<1>4. \A j \in (k + 1)..(k + 1) :
        /\ cut[j] = cut[j - 1] + Len(Request(w[j]))
        /\ \A i \in 1..Len(Request(w[j])) : R[cut[j - 1] + i] = Request(w[j])[i]
  <2>1. Len(R) \in Nat /\ 0 + Len(R) = Len(R)
    BY <1>1
  <2>2. \A i \in 1..Len(R) : 0 + i = i
    BY <1>1
  <2> QED BY <1>2, <1>3, <2>1, <2>2
<1> QED BY <1>2, <1>4 DEF InLines

\* Requests are followed by those that come next.
LEMMA MoreLines ==
    ASSUME NEW s \in Seq(Units), NEW t \in Seq(Units), NEW w \in Seq(Reqs),
           NEW k \in Nat, NEW n \in Nat, NEW m \in k..n, n <= Len(w),
           InLines(s, w, k, m), InLines(t, w, m, n)
    PROVE  InLines(s \o t, w, k, n)
<1>1. PICK f \in [k..m -> 0..Len(s)] :
        /\ f[k] = 0 /\ f[m] = Len(s)
        /\ \A i, j \in k..m : i <= j => f[i] <= f[j]
        /\ \A j \in (k + 1)..m :
              /\ f[j] = f[j - 1] + Len(Request(w[j]))
              /\ \A i \in 1..Len(Request(w[j])) : s[f[j - 1] + i] = Request(w[j])[i]
  BY DEF InLines
<1>2. PICK g \in [m..n -> 0..Len(t)] :
        /\ g[m] = 0 /\ g[n] = Len(t)
        /\ \A i, j \in m..n : i <= j => g[i] <= g[j]
        /\ \A j \in (m + 1)..n :
              /\ g[j] = g[j - 1] + Len(Request(w[j]))
              /\ \A i \in 1..Len(Request(w[j])) : t[g[j - 1] + i] = Request(w[j])[i]
  BY DEF InLines
<1> DEFINE cut == [j \in k..n |-> IF j <= m THEN f[j] ELSE Len(s) + g[j]]
<1>3. Len(s \o t) = Len(s) + Len(t) /\ Len(s) \in Nat /\ Len(t) \in Nat
  OBVIOUS
<1>4. /\ \A j \in k..m : cut[j] = f[j] /\ f[j] \in 0..Len(s)
      /\ \A j \in m..n : cut[j] = Len(s) + g[j] /\ g[j] \in 0..Len(t)
  BY <1>1, <1>2, <1>3
<1>5. cut \in [k..n -> 0..Len(s \o t)] /\ cut[k] = 0 /\ cut[n] = Len(s \o t)
  <2>1. \A j \in k..n : cut[j] \in 0..Len(s \o t)
    <3> TAKE j \in k..n
    <3>1. CASE j <= m
      BY <1>3, <1>4, <3>1
    <3>2. CASE ~(j <= m)
      BY <1>3, <1>4, <3>2
    <3> QED BY <3>1, <3>2
  <2>2. cut[k] = 0 /\ cut[n] = Len(s \o t)
    <3>1. k \in k..m /\ n \in m..n
      OBVIOUS
    <3>2. cut[k] = f[k] /\ cut[n] = Len(s) + g[n]
      <4> HIDE DEF cut
      <4> QED BY <1>4, <3>1
    <3> HIDE DEF cut
    <3> QED BY <1>1, <1>2, <1>3, <3>2
  <2>3. cut = [j \in k..n |-> cut[j]]
    OBVIOUS
  <2> HIDE DEF cut
  <2> QED BY <2>1, <2>2, <2>3
<1>7. ASSUME NEW i \in k..n, NEW j \in k..n, i <= j PROVE cut[i] <= cut[j]
  <2>1. CASE j <= m
    <3>1. i \in k..m /\ j \in k..m
      BY <1>7, <2>1
    <3> QED BY <1>1, <1>4, <1>7, <3>1
  <2>2. CASE i >= m
    <3>1. i \in m..n /\ j \in m..n
      BY <1>7, <2>2
    <3>2. g[i] <= g[j]
      BY <1>2, <1>7, <3>1
    <3> HIDE DEF cut
    <3> QED BY <1>3, <1>4, <3>1, <3>2
  <2>3. CASE i < m /\ m < j
    <3>1. i \in k..m /\ j \in m..n
      BY <2>3
    <3> HIDE DEF cut
    <3> QED BY <1>3, <1>4, <3>1
  <2> QED BY <2>1, <2>2, <2>3
<1> HIDE DEF cut
<1>6. ASSUME NEW j \in (k + 1)..n
      PROVE  /\ cut[j] = cut[j - 1] + Len(Request(w[j]))
             /\ \A i \in 1..Len(Request(w[j])) : (s \o t)[cut[j - 1] + i] = Request(w[j])[i]
  <2> DEFINE R == Request(w[j])
  <2>1. R \in Seq(Units)
    BY RequestLines
  <2>2. Len(R) \in Nat
    BY <2>1
  <2> HIDE DEF R
  <2>3. CASE j <= m
    <3>1. j \in (k + 1)..m /\ j \in k..m /\ j - 1 \in k..m
      BY <2>3
    <3>2. f[j] = f[j - 1] + Len(R) /\ \A i \in 1..Len(R) : s[f[j - 1] + i] = R[i]
      BY <1>1, <3>1 DEF R
    <3>3. cut[j] = f[j] /\ cut[j - 1] = f[j - 1] /\ f[j] \in 0..Len(s) /\ f[j - 1] \in 0..Len(s)
      BY <1>4, <3>1
    <3>4. \A i \in 1..Len(R) : f[j - 1] + i \in 1..Len(s)
      <4> DEFINE a == f[j - 1]
                 b == f[j]
                 l == Len(R)
      <4>1. b = a + l /\ a \in 0..Len(s) /\ b \in 0..Len(s) /\ l \in Nat
        BY <2>2, <3>2, <3>3
      <4> HIDE DEF a, b, l
      <4>2. \A i \in 1..l : a + i \in 1..Len(s)
        BY <4>1, <1>3
      <4> QED BY <4>2 DEF a, l
    <3>5. \A i \in 1..Len(s) : (s \o t)[i] = s[i]
      OBVIOUS
    <3> QED BY <3>2, <3>3, <3>4, <3>5 DEF R
  <2>4. CASE j > m
    <3>1. j \in (m + 1)..n /\ j \in m..n /\ j - 1 \in m..n
      BY <2>4
    <3>2. g[j] = g[j - 1] + Len(R) /\ \A i \in 1..Len(R) : t[g[j - 1] + i] = R[i]
      BY <1>2, <3>1 DEF R
    <3>3. cut[j] = Len(s) + g[j] /\ cut[j - 1] = Len(s) + g[j - 1]
          /\ g[j] \in 0..Len(t) /\ g[j - 1] \in 0..Len(t)
      BY <1>4, <3>1
    <3>4. \A i \in 1..Len(R) : g[j - 1] + i \in 1..Len(t)
      <4> DEFINE a == g[j - 1]
                 b == g[j]
                 l == Len(R)
      <4>1. b = a + l /\ a \in 0..Len(t) /\ b \in 0..Len(t) /\ l \in Nat
        BY <2>2, <3>2, <3>3
      <4> HIDE DEF a, b, l
      <4>2. \A i \in 1..l : a + i \in 1..Len(t)
        BY <4>1, <1>3
      <4> QED BY <4>2 DEF a, l
    <3>5. \A i \in 1..Len(t) : (s \o t)[Len(s) + i] = t[i]
      OBVIOUS
    <3>6. \A i \in 1..Len(R) : (s \o t)[cut[j - 1] + i] = t[g[j - 1] + i]
      <4>1. \A i \in 1..Len(R) : cut[j - 1] + i = Len(s) + (g[j - 1] + i)
        <5> DEFINE a == g[j - 1]
        <5>1. a \in 0..Len(t) /\ cut[j - 1] = Len(s) + a
          BY <3>3
        <5> HIDE DEF a
        <5>2. \A i \in 1..Len(R) : (Len(s) + a) + i = Len(s) + (a + i)
          BY <1>3, <2>2, <5>1
        <5> QED BY <5>1, <5>2 DEF a
      <4> QED BY <3>4, <3>5, <4>1
    <3>7. cut[j] = cut[j - 1] + Len(R)
      <4> DEFINE a == g[j - 1]
                 b == g[j]
                 l == Len(R)
      <4>1. b = a + l /\ a \in Nat /\ b \in Nat /\ l \in Nat
            /\ cut[j] = Len(s) + b /\ cut[j - 1] = Len(s) + a
        BY <1>3, <2>2, <3>2, <3>3
      <4> HIDE DEF a, b, l
      <4>2. cut[j] = cut[j - 1] + l
        BY <1>3, <4>1
      <4> QED BY <4>2 DEF l
    <3> QED BY <3>2, <3>6, <3>7 DEF R
  <2>5. j <= m \/ j > m
    OBVIOUS
  <2> QED BY <2>3, <2>4, <2>5
<1> QED BY <1>5, <1>6, <1>7 DEF InLines

\* The first request comes first, and the others follow it.
LEMMA FirstLines ==
    ASSUME NEW s \in Seq(Units), NEW w \in Seq(Reqs), NEW k \in Nat, NEW n \in Nat,
           k < n, n <= Len(w), InLines(s, w, k, n)
    PROVE  LET R == Request(w[k + 1])
           IN  /\ Len(R) <= Len(s)
               /\ \A i \in 1..Len(R) : s[i] = R[i]
               /\ InLines(SubSeq(s, Len(R) + 1, Len(s)), w, k + 1, n)
<1> DEFINE R == Request(w[k + 1])
           l == Len(R)
           t == SubSeq(s, l + 1, Len(s))
<1>1. PICK f \in [k..n -> 0..Len(s)] :
        /\ f[k] = 0 /\ f[n] = Len(s)
        /\ \A i, j \in k..n : i <= j => f[i] <= f[j]
        /\ \A j \in (k + 1)..n :
              /\ f[j] = f[j - 1] + Len(Request(w[j]))
              /\ \A i \in 1..Len(Request(w[j])) : s[f[j - 1] + i] = Request(w[j])[i]
  BY DEF InLines
<1>2. k + 1 \in (k + 1)..n /\ k + 1 \in k..n /\ (k + 1) - 1 = k /\ k + 1 \in 1..Len(w)
  OBVIOUS
<1>3. R \in Seq(Units)
  BY <1>2, RequestLines
<1>4. l \in Nat
  BY <1>3
<1>5. f[k + 1] = l /\ \A i \in 1..l : s[i] = R[i]
  <2>1. f[k + 1] = f[k] + l /\ \A i \in 1..l : s[f[k] + i] = R[i]
    BY <1>1, <1>2
  <2> HIDE DEF l, R
  <2> QED BY <1>1, <1>4, <2>1
<1>6. l <= Len(s)
  BY <1>1, <1>2, <1>5
<1> HIDE DEF l, R
<1>7. t \in Seq(Units) /\ Len(t) = Len(s) - l /\ \A i \in 1..Len(t) : t[i] = s[l + i]
  BY <1>4, <1>6
<1> HIDE DEF t
<1>8. ASSUME NEW j \in (k + 1)..n PROVE f[j] \in l..Len(s)
  <2>1. f[k + 1] <= f[j]
    BY <1>1, <1>2
  <2>2. f[j] \in 0..Len(s)
    OBVIOUS
  <2> QED BY <1>4, <1>5, <2>1, <2>2
<1> DEFINE cut == [j \in (k + 1)..n |-> f[j] - l]
<1>9. /\ cut \in [(k + 1)..n -> 0..Len(t)]
      /\ \A j \in (k + 1)..n : cut[j] = f[j] - l /\ cut[j] \in 0..Len(t)
  BY <1>4, <1>6, <1>7, <1>8
<1> HIDE DEF cut
<1>10. cut[k + 1] = 0 /\ cut[n] = Len(t)
       /\ \A i, j \in (k + 1)..n : i <= j => cut[i] <= cut[j]
  <2>1. cut[k + 1] = 0 /\ cut[n] = Len(t)
    <3>1. k + 1 \in (k + 1)..n /\ n \in (k + 1)..n
      OBVIOUS
    <3>2. cut[k + 1] = f[k + 1] - l /\ cut[n] = f[n] - l
      BY <1>9, <3>1
    <3> QED BY <1>1, <1>4, <1>5, <1>7, <3>2
  <2>2. ASSUME NEW i \in (k + 1)..n, NEW j \in (k + 1)..n, i <= j PROVE cut[i] <= cut[j]
    <3>1. f[i] <= f[j]
      <4>1. i \in k..n /\ j \in k..n
        OBVIOUS
      <4> QED BY <1>1, <2>2, <4>1
    <3>2. cut[i] = f[i] - l /\ cut[j] = f[j] - l /\ f[i] \in Nat /\ f[j] \in Nat
      BY <1>4, <1>8, <1>9
    <3> HIDE DEF cut
    <3> QED BY <1>4, <3>1, <3>2
  <2> QED BY <2>1, <2>2
<1>11. ASSUME NEW j \in (k + 2)..n
       PROVE  /\ cut[j] = cut[j - 1] + Len(Request(w[j]))
              /\ \A i \in 1..Len(Request(w[j])) : t[cut[j - 1] + i] = Request(w[j])[i]
  <2> DEFINE Q == Request(w[j])
             a == f[j - 1]
             b == f[j]
             v == Len(Q)
  <2>1. Q \in Seq(Units)
    BY RequestLines
  <2>2. v \in Nat
    BY <2>1
  <2>3. b = a + v /\ \A i \in 1..v : s[a + i] = Q[i]
    <3>1. j \in (k + 1)..n
      OBVIOUS
    <3> QED BY <1>1, <3>1
  <2> HIDE DEF Q
  <2>4. a \in l..Len(s) /\ b \in l..Len(s) /\ cut[j] = b - l /\ cut[j - 1] = a - l
    BY <1>8, <1>9
  <2> HIDE DEF a, b, v
  <2>5. cut[j] = cut[j - 1] + v
    BY <1>4, <2>2, <2>3, <2>4
  <2>6. ASSUME NEW i \in 1..v PROVE t[cut[j - 1] + i] = Q[i]
    <3>1. (a - l) + i \in 1..Len(t) /\ l + ((a - l) + i) = a + i
      BY <1>4, <1>7, <2>2, <2>3, <2>4
    <3> QED BY <1>7, <2>3, <2>4, <3>1
  <2> QED BY <2>5, <2>6 DEF v, Q
<1>12. (k + 1) + 1 = k + 2
  OBVIOUS
<1>13. InLines(t, w, k + 1, n)
  <2>1. \A j \in ((k + 1) + 1)..n :
              /\ cut[j] = cut[j - 1] + Len(Request(w[j]))
              /\ \A i \in 1..Len(Request(w[j])) : t[cut[j - 1] + i] = Request(w[j])[i]
    BY <1>11, <1>12, Zenon
  <2> QED BY <1>9, <1>10, <2>1, Zenon DEF InLines
<1> QED BY <1>5, <1>6, <1>13 DEF t, l, R

-----------------------------------------------------------------------------
(* The answers to a wish.                                                  *)

\* How many pieces a request asks for.
Left(r) == Size[r.path] - StartAt(r.first)

\* An answer is a header and the pieces of the file from where it begins.
LEMMA AnswerShape ==
    ASSUME NEW w, IsWish(w), NEW k \in 1..Len(w)
    PROVE  LET r == w[k]
           IN  /\ r \in Reqs /\ StartAt(r.first) \in Nat
               /\ Left(r) \in Nat /\ Size[r.path] \in Nat
               /\ Answer(r) \in Seq(Units) /\ Len(Answer(r)) = 1 + Left(r)
               /\ Answer(r)[1] = Header(r.path, StartAt(r.first))
               /\ \A i \in 1..Left(r) :
                     Answer(r)[1 + i] = Unit("body", r.path, StartAt(r.first) + i - 1)
<1> DEFINE r == w[k]
           b == StartAt(r.first)
           z == Size[r.path]
           P == Pieces(r.path, b, z)
<1>1. r \in Reqs /\ r.first \in -1..(z - 1) /\ z \in Nat \ {0} /\ r.path \in Files
  <2>1. r \in Reqs
    BY DEF IsWish
  <2>2. r.first \in -1..(z - 1)
    BY DEF IsWish
  <2>3. r.path \in Files
    BY <2>1 DEF Reqs
  <2>4. Size \in [Files -> Nat \ {0}]
    BY ServerAssumption
  <2> QED BY <2>1, <2>2, <2>3, <2>4
<1>2. b \in Nat /\ b <= z /\ b = IF r.first = -1 THEN 0 ELSE r.first
  <2> HIDE DEF r, z
  <2> QED BY <1>1 DEF StartAt
<1> HIDE DEF z
<1>3. z - b \in Nat /\ Left(r) = z - b
  <2>1. Left(r) = z - b
    BY DEF Left, z
  <2> HIDE DEF b
  <2> QED BY <1>1, <1>2, <2>1
<1> HIDE DEF b
<1>4. \A i \in 1..(z - b) : Unit("body", r.path, b + i - 1) \in Units
  BY <1>1, <1>2 DEF Unit, Units
<1>5. P \in Seq(Units) /\ Len(P) = z - b
      /\ \A i \in 1..(z - b) : P[i] = Unit("body", r.path, b + i - 1)
  BY <1>3, <1>4 DEF Pieces
<1>6. Header(r.path, b) \in Units
  BY <1>1, <1>2 DEF Header, Unit, Units
<1>7. Answer(r) = <<Header(r.path, b)>> \o P
  <2>1. b = IF r.first = -1 THEN 0 ELSE r.first
    BY <1>2
  <2> QED BY <2>1 DEF Answer, z
<1>8. PICK hd \in Seq(Units) : hd = <<Header(r.path, b)>> /\ Len(hd) = 1
                                /\ hd[1] = Header(r.path, b)
  <2>1. PICK e \in Units : e = Header(r.path, b)
    BY <1>6
  <2>2. <<e>> \in Seq(Units) /\ Len(<<e>>) = 1 /\ <<e>>[1] = e
    OBVIOUS
  <2> QED BY <2>1, <2>2, Zenon
<1>9. PICK pp \in Seq(Units) : pp = P
  BY <1>5
<1>10. /\ hd \o pp \in Seq(Units) /\ Len(hd \o pp) = Len(hd) + Len(pp)
       /\ \A i \in 1..Len(hd) : (hd \o pp)[i] = hd[i]
       /\ \A i \in 1..Len(pp) : (hd \o pp)[Len(hd) + i] = pp[i]
  BY Concatenation
<1>11. Answer(r) = hd \o pp
  BY <1>7, <1>8, <1>9
<1> HIDE DEF P, r
<1>12. /\ Answer(r) \in Seq(Units) /\ Len(Answer(r)) = 1 + (z - b)
       /\ Answer(r)[1] = Header(r.path, b)
       /\ \A i \in 1..(z - b) : Answer(r)[1 + i] = Unit("body", r.path, b + i - 1)
  BY <1>5, <1>8, <1>9, <1>10, <1>11
<1> QED BY <1>1, <1>2, <1>3, <1>12 DEF r, b, z

\* The function that FlattenSeq builds, for the answers to the first n requests.
Chain(w, n, f) ==
    f = [i \in 1..n |-> IF i = 1 THEN Answer(w[i]) ELSE f[i - 1] \o Answer(w[i])]
Unfolds(w, n) ==
    n > 0 => \E f : Chain(w, n, f) /\ \A g : Chain(w, n, g) => g = f

\* What it comes to.
LEMMA AnswersAre ==
    ASSUME NEW w, NEW n \in Nat \ {0}, NEW f, Chain(w, n, f),
           \A g : Chain(w, n, g) => g = f
    PROVE  Answers(w, n) = f[n]
<1> DEFINE s == [k \in 1..n |-> Answer(w[k])]
           C == CHOOSE flatten : flatten =
                  [i \in 1..n |-> IF i = 1 THEN s[i] ELSE flatten[i - 1] \o s[i]]
<1>1. s \in Seq({Answer(w[k]) : k \in 1..n}) /\ Len(s) = n
  OBVIOUS
<1>2. \A i \in 1..n : s[i] = Answer(w[i])
  OBVIOUS
<1>3. Answers(w, n) = FlattenSeq(s)
  BY DEF Answers
<1> HIDE DEF s
<1>4. FlattenSeq(s) = C[n]
  BY <1>1 DEF FlattenSeq
<1>5. \A g : Chain(w, n, g) <=>
               g = [i \in 1..n |-> IF i = 1 THEN s[i] ELSE g[i - 1] \o s[i]]
  BY <1>2 DEF Chain
<1>6. C = f
  BY <1>5
<1> QED BY <1>3, <1>4, <1>6

LEMMA NoAnswers ==
    ASSUME NEW w
    PROVE  Answers(w, 0) = <<>>
<1>1. [k \in 1..0 |-> Answer(w[k])] = <<>>
  OBVIOUS
<1>2. FlattenSeq(<<>>) = <<>>
  BY DEF FlattenSeq
<1> QED BY <1>1, <1>2 DEF Answers

\* One answer more.
LEMMA ChainGrows ==
    ASSUME NEW w, NEW n \in Nat \ {0}, NEW f, Chain(w, n, f),
           \A g : Chain(w, n, g) => g = f
    PROVE  \E e : /\ Chain(w, n + 1, e)
                  /\ \A g : Chain(w, n + 1, g) => g = e
                  /\ e[n + 1] = f[n] \o Answer(w[n + 1])
<1> DEFINE F(i) == IF i = n + 1 THEN f[n] \o Answer(w[n + 1]) ELSE f[i]
           e == [i \in 1..(n + 1) |-> F(i)]
<1>1. /\ \A i \in 1..n : e[i] = f[i] /\ i # n + 1
      /\ e[n + 1] = f[n] \o Answer(w[n + 1])
      /\ n \in 1..n
  <2>1. \A i \in 1..n : i # n + 1 /\ i \in 1..(n + 1)
    OBVIOUS
  <2>2. n + 1 \in 1..(n + 1) /\ n \in 1..n
    OBVIOUS
  <2>3. \A i \in 1..(n + 1) : e[i] = F(i)
    OBVIOUS
  <2> HIDE DEF e
  <2> QED BY <2>1, <2>2, <2>3
<1>2. \A i \in 1..n : f[i] = IF i = 1 THEN Answer(w[i]) ELSE f[i - 1] \o Answer(w[i])
  BY DEF Chain
<1>3. e = [i \in 1..(n + 1) |-> e[i]]
  OBVIOUS
<1> HIDE DEF e
<1>4. \A i \in 1..(n + 1) :
         e[i] = IF i = 1 THEN Answer(w[i]) ELSE e[i - 1] \o Answer(w[i])
  <2> TAKE i \in 1..(n + 1)
  <2>1. CASE i = n + 1
    <3>1. i # 1 /\ i - 1 = n
      BY <2>1
    <3> QED BY <1>1, <2>1, <3>1
  <2>2. CASE i # n + 1
    <3>1. i \in 1..n /\ (i # 1 => i - 1 \in 1..n)
      BY <2>2
    <3>2. i # 1 => e[i - 1] = f[i - 1]
      BY <1>1, <3>1
    <3> QED BY <1>1, <1>2, <3>1, <3>2
  <2> QED BY <2>1, <2>2
<1>5. Chain(w, n + 1, e)
  <2>1. [i \in 1..(n + 1) |-> e[i]] =
        [i \in 1..(n + 1) |-> IF i = 1 THEN Answer(w[i]) ELSE e[i - 1] \o Answer(w[i])]
    BY <1>4
  <2> QED BY <1>3, <2>1 DEF Chain
<1>6. ASSUME NEW g, Chain(w, n + 1, g) PROVE g = e
  <2>1. g = [i \in 1..(n + 1) |-> IF i = 1 THEN Answer(w[i]) ELSE g[i - 1] \o Answer(w[i])]
    BY <1>6 DEF Chain
  <2>2. \A i \in 1..(n + 1) :
           g[i] = IF i = 1 THEN Answer(w[i]) ELSE g[i - 1] \o Answer(w[i])
    BY <2>1
  <2> DEFINE gn == [i \in 1..n |-> g[i]]
  <2>3. \A i \in 1..n : gn[i] = IF i = 1 THEN Answer(w[i]) ELSE gn[i - 1] \o Answer(w[i])
    <3> TAKE i \in 1..n
    <3>1. i \in 1..(n + 1) /\ gn[i] = g[i]
      OBVIOUS
    <3>2. i # 1 => gn[i - 1] = g[i - 1]
      OBVIOUS
    <3> HIDE DEF gn
    <3> QED BY <2>2, <3>1, <3>2
  <2>4. gn = [i \in 1..n |-> gn[i]]
    OBVIOUS
  <2>5. \A i \in 1..n : gn[i] = g[i]
    OBVIOUS
  <2> HIDE DEF gn
  <2>6. Chain(w, n, gn)
    <3>1. [i \in 1..n |-> gn[i]] =
          [i \in 1..n |-> IF i = 1 THEN Answer(w[i]) ELSE gn[i - 1] \o Answer(w[i])]
      BY <2>3
    <3> QED BY <2>4, <3>1 DEF Chain
  <2>7. gn = f
    BY <2>6
  <2>8. \A i \in 1..(n + 1) : g[i] = e[i]
    <3> TAKE i \in 1..(n + 1)
    <3>1. CASE i = n + 1
      <4>1. i # 1 /\ i - 1 = n /\ n \in 1..n
        BY <3>1
      <4>2. g[i - 1] = f[n]
        BY <2>5, <2>7, <4>1
      <4> QED BY <1>1, <2>2, <3>1, <4>1, <4>2
    <3>2. CASE i # n + 1
      <4>1. i \in 1..n
        BY <3>2
      <4> QED BY <1>1, <2>5, <2>7, <4>1
    <3> QED BY <3>1, <3>2
  <2>9. g = [i \in 1..(n + 1) |-> g[i]]
    BY <2>1
  <2>10. [i \in 1..(n + 1) |-> g[i]] = [i \in 1..(n + 1) |-> e[i]]
    BY <2>8
  <2> QED BY <1>3, <2>9, <2>10
<1> QED BY <1>1, <1>5, <1>6

\* The answers to a wish up to the n-th follow each other.
Answered(w, n) ==
    /\ Unfolds(w, n)
    /\ Answers(w, 0) = <<>>
    /\ \A k \in 0..n : Answers(w, k) \in Seq(Units)
    /\ \A k \in 1..n : Answers(w, k) = Answers(w, k - 1) \o Answer(w[k])
    /\ \A j, k \in 0..n : j <= k => IsPrefix(Answers(w, j), Answers(w, k))
    /\ \A j, k \in 0..n : j < k => Len(Answers(w, j)) < Len(Answers(w, k))

LEMMA NothingAnswered ==
    ASSUME NEW w
    PROVE  Answered(w, 0)
<1>1. Answers(w, 0) = <<>> /\ <<>> \in Seq(Units)
  BY NoAnswers
<1>2. \A j \in 0..0 : j = 0
  OBVIOUS
<1>3. IsPrefix(<<>>, <<>>)
  BY DEF IsPrefix
<1>4. 1..0 = {} /\ ~(0 > 0) /\ ~(0 < 0)
  OBVIOUS
<1> QED BY <1>1, <1>2, <1>3, <1>4 DEF Answered, Unfolds

LEMMA AnsweredGrows ==
    ASSUME NEW w, IsWish(w), NEW n \in Nat, n + 1 <= Len(w), Answered(w, n)
    PROVE  Answered(w, n + 1)
<1> DEFINE A == Answers(w, n)
           B == Answers(w, n + 1)
           R == Answer(w[n + 1])
<1>1. n + 1 \in 1..Len(w)
  OBVIOUS
<1>2. R \in Seq(Units) /\ Len(R) \in Nat \ {0}
  <2>1. Left(w[n + 1]) \in Nat /\ R \in Seq(Units) /\ Len(R) = 1 + Left(w[n + 1])
    BY <1>1, AnswerShape
  <2> QED BY <2>1
<1>3. A \in Seq(Units)
  BY DEF Answered
<1>4. Unfolds(w, n + 1) /\ B = A \o R
  <2>1. CASE n = 0
    <3>1. A = <<>>
      BY <2>1 DEF Answered
    <3> DEFINE f == [i \in 1..1 |-> Answer(w[1])]
    <3>2. \A g : Chain(w, 1, g) <=> g = f
      <4>1. \A i \in 1..1 : i = 1
        OBVIOUS
      <4>2. \A g : [i \in 1..1 |-> IF i = 1 THEN Answer(w[i]) ELSE g[i - 1] \o Answer(w[i])] = f
        BY <4>1
      <4> QED BY <4>2 DEF Chain
    <3>3. f[1] = R
      BY <2>1
    <3> HIDE DEF f
    <3>4. Answers(w, 1) = f[1]
      BY <3>2, AnswersAre
    <3>5. <<>> \o R = R
      BY <1>2
    <3>6. Unfolds(w, 1)
      BY <3>2 DEF Unfolds
    <3>7. n + 1 = 1
      BY <2>1
    <3> QED BY <3>1, <3>3, <3>4, <3>5, <3>6, <3>7, Zenon
  <2>2. CASE n > 0
    <3>1. PICK f : Chain(w, n, f) /\ \A g : Chain(w, n, g) => g = f
      BY <2>2 DEF Answered, Unfolds
    <3>2. PICK e : /\ Chain(w, n + 1, e)
                   /\ \A g : Chain(w, n + 1, g) => g = e
                   /\ e[n + 1] = f[n] \o R
      <4>1. n \in Nat \ {0}
        BY <2>2
      <4> QED BY <3>1, <4>1, ChainGrows
    <3>3. A = f[n] /\ B = e[n + 1]
      <4>1. n \in Nat \ {0} /\ n + 1 \in Nat \ {0}
        BY <2>2
      <4>2. A = f[n]
        BY <3>1, <4>1, AnswersAre, Zenon
      <4>3. B = e[n + 1]
        BY <3>2, <4>1, AnswersAre, Zenon
      <4> QED BY <4>2, <4>3
    <3> QED BY <3>2, <3>3 DEF Unfolds
  <2> QED BY <2>1, <2>2
<1> HIDE DEF A, B, R
<1>5. B \in Seq(Units) /\ Len(B) = Len(A) + Len(R) /\ Len(A) \in Nat
  BY <1>2, <1>3, <1>4
<1>6. IsPrefix(A, B) /\ IsPrefix(B, B)
  <2>1. IsPrefix(A, B)
    BY <1>2, <1>3, <1>4, PrefixOfConcat
  <2>2. IsPrefix(B, B)
    BY <1>5 DEF IsPrefix
  <2> QED BY <2>1, <2>2
<1>7. \A k \in 0..n : Answers(w, k) \in Seq(Units) /\ IsPrefix(Answers(w, k), A)
  BY DEF Answered, A
<1>8. \A k \in 0..(n + 1) : k \in 0..n \/ k = n + 1
  OBVIOUS
<1>9. \A k \in 0..(n + 1) : Answers(w, k) \in Seq(Units)
  BY <1>5, <1>7, <1>8 DEF B
<1>10. \A k \in 1..(n + 1) : Answers(w, k) = Answers(w, k - 1) \o Answer(w[k])
  <2> TAKE k \in 1..(n + 1)
  <2>1. CASE k = n + 1
    <3>1. k - 1 = n
      BY <2>1
    <3> QED BY <1>4, <2>1, <3>1 DEF A, B, R
  <2>2. CASE k # n + 1
    <3>1. k \in 1..n
      BY <2>2
    <3> QED BY <3>1 DEF Answered
  <2> QED BY <2>1, <2>2
<1>11. \A k \in 0..n : IsPrefix(Answers(w, k), B) /\ Len(Answers(w, k)) < Len(B)
  <2> TAKE k \in 0..n
  <2>1. IsPrefix(Answers(w, k), B)
    BY <1>3, <1>5, <1>6, <1>7, PrefixOfPrefix
  <2>2. Len(Answers(w, k)) <= Len(A) /\ Len(Answers(w, k)) \in Nat
    BY <1>7 DEF IsPrefix
  <2> QED BY <1>2, <1>5, <2>1, <2>2
<1>12. \A j, k \in 0..(n + 1) :
          /\ j <= k => IsPrefix(Answers(w, j), Answers(w, k))
          /\ j < k => Len(Answers(w, j)) < Len(Answers(w, k))
  <2> TAKE j, k \in 0..(n + 1)
  <2>1. CASE k = n + 1
    <3>1. j \in 0..n \/ j = k
      BY <2>1
    <3> QED BY <1>6, <1>11, <2>1, <3>1 DEF B
  <2>2. CASE k # n + 1
    <3>1. k \in 0..n /\ (j <= k => j \in 0..n) /\ (j < k => j <= k)
      BY <2>2
    <3> QED BY <3>1 DEF Answered
  <2> QED BY <2>1, <2>2
<1> QED BY <1>4, <1>9, <1>10, <1>12, NoAnswers DEF Answered

-----------------------------------------------------------------------------
(* process_inbuf_ on whole requests.                                       *)

\* What a request is in the queue.
InQueue(r) == [path |-> r.path, first |-> IF r.first > 0 THEN r.first ELSE -1]

LEMMA UnitFields ==
    ASSUME NEW k, NEW p, NEW v
    PROVE  Unit(k, p, v).kind = k /\ Unit(k, p, v).path = p /\ Unit(k, p, v).val = v
BY DEF Unit

\* The lines of a request tell what it asks for.
LEMMA LinesTell ==
    ASSUME NEW r \in Reqs
    PROVE  LET R == Request(r)
           IN  /\ R[1].kind = "get" /\ R[1].path = r.path
               /\ r.first > 0 => R[2].kind = "range" /\ R[2].val = r.first
               /\ R[Len(R)].kind = "blank"
<1> DEFINE R == Request(r)
<1>1. /\ R[1] = Unit("get", r.path, 0)
      /\ r.first > 0 => R[2] = Unit("range", r.path, r.first)
      /\ R[Len(R)] = Unit("blank", r.path, 0)
  BY RequestLines
<1> HIDE DEF R
<1> QED BY <1>1, UnitFields DEF R

\* It takes the lines of the first request, and no more.
LEMMA TakenOne ==
    ASSUME NEW r \in Reqs, NEW s \in Seq(Units), Len(Request(r)) <= Len(s),
           \A i \in 1..Len(Request(r)) : s[i] = Request(r)[i]
    PROVE  /\ Taken(s) = Len(Request(r)) /\ Taken(s) \in 1..Len(s)
           /\ s[Taken(s)].kind = "blank"
<1> DEFINE l == Len(Request(r))
           B == {k \in 1..Len(s) : s[k].kind = "blank"}
<1>1. l = IF r.first > 0 THEN 3 ELSE 2
  BY RequestLines
<1>2. l \in 1..Len(s) /\ s[l].kind = "blank"
  <2>1. Request(r)[l].kind = "blank"
    BY LinesTell
  <2> HIDE DEF l
  <2> QED BY <1>1, <2>1 DEF l
<1>3. \A i \in 1..l : i # l => s[i].kind # "blank"
  <2>1. Request(r)[1].kind = "get" /\ (r.first > 0 => Request(r)[2].kind = "range")
    BY LinesTell
  <2>2. \A i \in 1..l : i # l => i = 1 \/ (r.first > 0 /\ i = 2)
    <3> HIDE DEF l
    <3> QED BY <1>1
  <2> QED BY <2>1, <2>2
<1> HIDE DEF l
<1>4. l \in B /\ \A j \in B : l <= j
  <2>1. ASSUME NEW j \in 1..Len(s), s[j].kind = "blank" PROVE l <= j
    BY <1>1, <1>3, <2>1
  <2> QED BY <1>2, <2>1
<1>5. ASSUME NEW k \in B, \A j \in B : k <= j PROVE k = l
  BY <1>2, <1>4, <1>5
<1>6. B # {}
  BY <1>4
<1>7. Taken(s) = CHOOSE k \in B : \A j \in B : k <= j
  BY <1>6 DEF Taken
<1> HIDE DEF B
<1>8. Taken(s) = l
  BY <1>4, <1>5, <1>7
<1> QED BY <1>2, <1>8 DEF l

\* The request goes to the queue, with its range.
LEMMA QueuedOne ==
    ASSUME NEW r \in Reqs, NEW x \in HandlerType, x.req = "REQ_LINE",
           NEW lines \in Seq(Units), Len(lines) = Len(Request(r)),
           \A i \in 1..Len(lines) : lines[i] = Request(r)[i]
    PROVE  Queued(x, lines) = Append(x.queue, InQueue(r))
<1> DEFINE e == [path |-> r.path, first |-> -1]
           q == Append(x.queue, e)
           ranges == {k \in 1..Len(lines) : lines[k].kind = "range"}
<1>1. x.queue \in Seq(Reqs) /\ e \in Reqs /\ r.path \in Files /\ r.first \in Int
  BY DEF HandlerType, Reqs
<1>2. /\ Len(lines) = IF r.first > 0 THEN 3 ELSE 2
      /\ lines[1].path = r.path /\ lines[1].kind = "get"
      /\ r.first > 0 => lines[2].kind = "range" /\ lines[2].val = r.first
      /\ lines[Len(lines)].kind = "blank"
  <2>1. Len(lines) = IF r.first > 0 THEN 3 ELSE 2
    BY RequestLines
  <2>2. /\ 1 \in 1..Len(lines) /\ Len(lines) \in 1..Len(lines)
        /\ r.first > 0 => 2 \in 1..Len(lines)
    BY <2>1
  <2>3. /\ Request(r)[1].path = r.path /\ Request(r)[1].kind = "get"
        /\ r.first > 0 => Request(r)[2].kind = "range" /\ Request(r)[2].val = r.first
        /\ Request(r)[Len(lines)].kind = "blank"
    BY <2>1, LinesTell
  <2> QED BY <2>1, <2>2, <2>3
<1>3. lines # <<>> /\ Head(lines) = lines[1]
  BY <1>2
<1>4. /\ q \in Seq(Reqs) /\ Len(q) = Len(x.queue) + 1 /\ Len(x.queue) \in Nat
      /\ \A i \in 1..Len(x.queue) : q[i] = x.queue[i]
      /\ q[Len(q)] = e
  BY <1>1, AppendProperties
<1>5. Queued(x, lines) = IF ranges = {} THEN q
        ELSE [q EXCEPT ![Len(q)].first = lines[CHOOSE k \in ranges : TRUE].val]
  BY <1>2, <1>3 DEF Queued
<1>6. CASE r.first > 0
  <2>1. ranges = {2}
    <3>1. \A k \in 1..Len(lines) : k = 1 \/ k = 2 \/ k = Len(lines)
      BY <1>2, <1>6
    <3>2. 2 \in 1..Len(lines)
      BY <1>2, <1>6
    <3> QED BY <1>2, <1>6, <3>1, <3>2
  <2>2. lines[CHOOSE k \in ranges : TRUE].val = r.first
    <3>1. (CHOOSE k \in {2} : TRUE) = 2
      OBVIOUS
    <3> QED BY <1>2, <1>6, <2>1, <3>1
  <2>3. Queued(x, lines) = [q EXCEPT ![Len(q)].first = r.first]
    <3>1. ranges # {}
      BY <2>1
    <3> HIDE DEF q, ranges
    <3> QED BY <1>5, <2>2, <3>1
  <2> DEFINE p == [q EXCEPT ![Len(q)].first = r.first]
             u == Append(x.queue, InQueue(r))
  <2>4. [e EXCEPT !.first = r.first] = InQueue(r) /\ InQueue(r) \in Reqs
    BY <1>1, <1>6 DEF InQueue, Reqs
  <2> HIDE DEF q, e
  <2>5. /\ u \in Seq(Reqs) /\ Len(u) = Len(x.queue) + 1
        /\ \A i \in 1..Len(x.queue) : u[i] = x.queue[i]
        /\ u[Len(u)] = InQueue(r)
    BY <1>1, <2>4, AppendProperties
  <2>6. p \in Seq(Reqs) /\ Len(p) = Len(q) /\ \A i \in 1..Len(q) :
           p[i] = IF i = Len(q) THEN InQueue(r) ELSE q[i]
    <3>1. Len(q) \in 1..Len(q)
      BY <1>4
    <3>2. p = [q EXCEPT ![Len(q)] = [q[Len(q)] EXCEPT !.first = r.first]]
      OBVIOUS
    <3>3. p = [q EXCEPT ![Len(q)] = InQueue(r)]
      <4>1. q[Len(q)] = e /\ [e EXCEPT !.first = r.first] = InQueue(r)
        BY <1>4, <2>4
      <4> QED BY <3>2, <4>1, Zenon
    <3> HIDE DEF p
    <3>4. PICK v \in Reqs : v = InQueue(r)
      BY <2>4
    <3>5. PICK i \in 1..Len(q) : i = Len(q)
      BY <3>1
    <3>6. p = [q EXCEPT ![i] = v]
      BY <3>3, <3>4, <3>5
    <3>7. q \in Seq(Reqs)
      BY <1>4
    <3>8. /\ [q EXCEPT ![i] = v] \in Seq(Reqs)
          /\ Len([q EXCEPT ![i] = v]) = Len(q)
          /\ \A j \in 1..Len(q) : [q EXCEPT ![i] = v][j] = IF j = i THEN v ELSE q[j]
      BY <3>7, ExceptSeq
    <3> QED BY <3>4, <3>5, <3>6, <3>8
  <2> HIDE DEF p, u
  <2>7. Len(p) = Len(u) /\ \A i \in 1..Len(p) : p[i] = u[i]
    <3>1. Len(p) = Len(u) /\ Len(u) = Len(q)
      BY <1>4, <2>5, <2>6
    <3>2. ASSUME NEW i \in 1..Len(q) PROVE p[i] = u[i]
      <4>1. CASE i = Len(q)
        <5>1. p[i] = InQueue(r)
          BY <2>6, <4>1
        <5>2. u[Len(u)] = InQueue(r) /\ Len(u) = Len(q)
          BY <2>5, <3>1
        <5> QED BY <4>1, <5>1, <5>2, Zenon
      <4>2. CASE i # Len(q)
        <5>1. i \in 1..Len(x.queue)
          BY <1>4, <4>2
        <5> QED BY <1>4, <2>5, <2>6, <4>2, <5>1
      <4> QED BY <4>1, <4>2
    <3> QED BY <3>1, <3>2
  <2>8. p = u
    BY <2>5, <2>6, <2>7, SeqEqual
  <2> QED BY <2>3, <2>8 DEF p, u
<1>7. CASE ~(r.first > 0)
  <2>1. ranges = {}
    <3>1. \A k \in 1..Len(lines) : k = 1 \/ k = Len(lines)
      BY <1>2, <1>7
    <3> QED BY <1>2, <3>1
  <2>2. e = InQueue(r)
    BY <1>7 DEF InQueue
  <2> QED BY <1>5, <2>1, <2>2
<1> QED BY <1>6, <1>7

\* Nothing to take, nothing to queue.
LEMMA NothingTaken ==
    ASSUME NEW x
    PROVE  Taken(<<>>) = 0 /\ Queued(x, <<>>) = x.queue
<1>1. {k \in 1..Len(<<>>) : <<>>[k].kind = "blank"} = {}
      /\ {k \in 1..Len(<<>>) : <<>>[k].kind = "range"} = {} /\ Len(<<>>) = 0
  OBVIOUS
<1> QED BY <1>1 DEF Taken, Queued

\* y does what x did, on what it had in outbuf.
SameWork(y, x) ==
    /\ y.st = x.st /\ y.rsp = x.rsp /\ y.off = x.off /\ y.expect = x.expect
    /\ y.nread = x.nread /\ y.outbuf = x.outbuf
    /\ x.queue # <<>> => y.queue # <<>>

\* process_inbuf_ moves the next request from inbuf to the queue.
LEMMA ProcessStands ==
    ASSUME NEW x \in HandlerType, NEW w, IsWish(w), NEW up, NEW d \in Nat,
           NEW n \in Nat, n <= Len(w), Unanswered(x, w, up, d, n)
    PROVE  /\ ~RangeOfNone(x)
           /\ Unanswered(ProcessInbuf(x), w, up, d, n)
           /\ SameWork(ProcessInbuf(x), x)
           /\ ProcessInbuf(x) \in HandlerType
           /\ x.inbuf = <<>> =>
                 /\ ProcessInbuf(x).inbuf = <<>>
                 /\ ProcessInbuf(x).queue = x.queue
           /\ Len(ProcessInbuf(x).queue) <= Len(x.queue) + 1
           /\ n <= d + Len(x.queue) + 1 => ProcessInbuf(x).inbuf = <<>>
<1> DEFINE s == x.inbuf
           t == Taken(s)
           y == ProcessInbuf(x)
           e == d + Len(x.queue)
<1>1. s \in Seq(Units) /\ x.queue \in Seq(Reqs) /\ Len(x.queue) \in Nat /\ w \in Seq(Reqs)
  BY DEF HandlerType, IsWish
<1>2. x.req = "REQ_LINE" /\ e <= n /\ e \in Nat
  BY <1>1 DEF Unanswered
<1>3. PICK m \in e..n : InLines(s, w, e, m) /\ InLines(up, w, m, n)
  BY DEF Unanswered
<1>4. \A i \in 1..Len(x.queue) : IsRequest(x.queue[i], w[d + i])
  BY DEF Unanswered
<1>5. ~RangeOfNone(x)
  BY <1>2 DEF RangeOfNone
<1>6. /\ y.inbuf = SubSeq(s, t + 1, Len(s))
      /\ y.req = CASE s = <<>> -> x.req
                   [] s # <<>> /\ WantsMore(x) -> "HEADERS"
                   [] OTHER -> "REQ_LINE"
      /\ y.st = x.st /\ y.rsp = x.rsp /\ y.off = x.off /\ y.expect = x.expect
      /\ y.nread = x.nread /\ y.outbuf = x.outbuf
  BY DEF ProcessInbuf, HandlerType
<1>7. y \in HandlerType /\ y.queue = Queued(x, SubSeq(s, 1, t))
  BY ProcessType
<1> HIDE DEF y
<1>8. CASE m = e
  <2>1. s = <<>>
    BY <1>1, <1>2, <1>3, <1>8, NoLines
  <2>2. t = 0 /\ SubSeq(s, 1, t) = <<>> /\ SubSeq(s, t + 1, Len(s)) = <<>>
    <3>1. t = 0
      BY <2>1, NothingTaken
    <3>2. SubSeq(<<>>, 1, 0) = <<>> /\ SubSeq(<<>>, 0 + 1, Len(<<>>)) = <<>>
      OBVIOUS
    <3> HIDE DEF t
    <3> QED BY <2>1, <3>1, <3>2
  <2>3. y.queue = x.queue /\ y.inbuf = <<>> /\ y.req = "REQ_LINE"
    BY <1>2, <1>6, <1>7, <2>1, <2>2, NothingTaken
  <2>4. Unanswered(y, w, up, d, n)
    BY <1>2, <1>3, <1>4, <1>8, <2>1, <2>3 DEF Unanswered
  <2>5. SameWork(y, x) /\ Len(y.queue) <= Len(x.queue) + 1
    BY <1>1, <1>6, <2>3 DEF SameWork
  <2> QED BY <1>5, <1>7, <2>3, <2>4, <2>5, Zenon DEF y
<1>9. CASE m # e
  <2> DEFINE r == w[e + 1]
             R == Request(r)
             l == Len(R)
             q == Append(x.queue, InQueue(r))
  <2>1. e < m /\ m <= Len(w) /\ e + 1 \in 1..Len(w) /\ m \in Nat
    BY <1>2, <1>9
  <2>2. r \in Reqs /\ l \in Nat \ {0}
    <3>1. r \in Reqs
      BY <1>1, <2>1
    <3>2. l = IF r.first > 0 THEN 3 ELSE 2
      BY <3>1, RequestLines
    <3> HIDE DEF l, r
    <3> QED BY <3>1, <3>2
  <2>3. /\ l <= Len(s) /\ \A i \in 1..l : s[i] = R[i]
        /\ InLines(SubSeq(s, l + 1, Len(s)), w, e + 1, m)
    BY <1>1, <1>2, <1>3, <2>1, FirstLines
  <2>4. t = l /\ t \in 1..Len(s) /\ s[t].kind = "blank"
    BY <1>1, <2>2, <2>3, TakenOne
  <2> HIDE DEF t, r
  <2>5. SubSeq(s, 1, t) \in Seq(Units) /\ Len(SubSeq(s, 1, t)) = l
        /\ \A i \in 1..l : SubSeq(s, 1, t)[i] = R[i]
    <3> HIDE DEF l, R
    <3> QED BY <1>1, <2>2, <2>3, <2>4
  <2>6. y.queue = q
    BY <1>2, <1>7, <2>2, <2>5, QueuedOne
  <2>7. ~WantsMore(x) /\ s # <<>>
    <3>1. s # <<>>
      BY <1>1, <2>4
    <3> QED BY <2>4, <3>1 DEF WantsMore, t
  <2>8. y.req = "REQ_LINE"
    BY <1>6, <2>7
  <2>9. InLines(y.inbuf, w, e + 1, m)
    BY <1>6, <2>3, <2>4
  <2>10. InQueue(r) \in Reqs /\ IsRequest(InQueue(r), r)
    BY <2>2 DEF InQueue, Reqs, IsRequest
  <2>11. /\ q \in Seq(Reqs) /\ Len(q) = Len(x.queue) + 1 /\ q # <<>>
         /\ \A i \in 1..Len(x.queue) : q[i] = x.queue[i]
         /\ q[Len(x.queue) + 1] = InQueue(r)
    BY <1>1, <2>10, AppendProperties
  <2> HIDE DEF q
  <2>12. \A i \in 1..Len(q) : IsRequest(q[i], w[d + i])
    <3> TAKE i \in 1..Len(q)
    <3>1. CASE i = Len(x.queue) + 1
      <4>1. d + i = e + 1
        BY <1>1, <3>1
      <4>2. w[d + i] = r
        BY <4>1 DEF r
      <4>3. q[i] = InQueue(r)
        BY <2>11, <3>1, Zenon
      <4> QED BY <2>10, <4>2, <4>3
    <3>2. CASE i # Len(x.queue) + 1
      <4>1. i \in 1..Len(x.queue)
        BY <1>1, <2>11, <3>2
      <4> QED BY <1>4, <2>11, <4>1
    <3> QED BY <3>1, <3>2
  <2>13. d + Len(q) = e + 1 /\ m \in (e + 1)..n /\ e + 1 <= n
    BY <1>1, <1>2, <2>1, <2>11
  <2>14. Unanswered(y, w, up, d, n)
    BY <1>3, <2>6, <2>8, <2>9, <2>12, <2>13 DEF Unanswered
  <2>15. ASSUME n <= e + 1 PROVE y.inbuf = <<>>
    <3>1. m = e + 1
      BY <2>13, <2>15
    <3>2. y.inbuf \in Seq(Units)
      BY <1>7 DEF HandlerType
    <3>3. InLines(y.inbuf, w, e + 1, e + 1)
      BY <2>9, <3>1
    <3>4. e + 1 \in Nat
      BY <1>2
    <3> QED BY <3>2, <3>3, <3>4, NoLines, Zenon
  <2> QED BY <1>1, <1>5, <1>6, <1>7, <2>6, <2>7, <2>11, <2>14, <2>15 DEF SameWork, y
<1> QED BY <1>8, <1>9

-----------------------------------------------------------------------------
(* Every step keeps what is on its way.                                    *)

\* Clients ask for what there is, and the answers to it follow each other.
Wished ==
    \A c \in Conns :
        /\ IsWish(cli[c].wish) /\ cli[c].sent <= Len(cli[c].wish)
        /\ Answered(cli[c].wish, cli[c].sent)

SInv == DInv /\ Wished /\ Standing /\ DeletedAfter /\ Waiting

\* y has what x has to read and to write.
Alike(y, x) ==
    /\ y.inbuf = x.inbuf /\ y.queue = x.queue /\ y.req = x.req
    /\ y.rsp = x.rsp /\ y.off = x.off /\ y.expect = x.expect /\ y.nread = x.nread

LEMMA FitAlike ==
    ASSUME NEW x, NEW y, NEW w, NEW up, NEW made, NEW d, NEW n,
           Fit(x, w, up, made, d, n), Alike(y, x)
    PROVE  Fit(y, w, up, made, d, n)
<1>1. Unanswered(y, w, up, d, n)
  BY Zenon DEF Fit, Alike, Unanswered
<1>2. MadeOf(y, w, made, d)
  BY DEF Fit, Alike, MadeOf
<1>3. setting.ahead = 1 => OneAhead(y, d, n)
  BY DEF Fit, Alike, OneAhead
<1> QED BY <1>1, <1>2, <1>3 DEF Fit

\* What c has in hand and on the wire is of the types it should be.
LEMMA Types1 ==
    ASSUME SInv, NEW c \in Conns
    PROVE  /\ h[c] \in HandlerType /\ h[c].outbuf \in Seq(Units) /\ h[c].queue \in Seq(Reqs)
           /\ h[c].inbuf \in Seq(Units)
           /\ cli[c].got \in Seq(Units) /\ wire[c].down \in Seq(Units)
           /\ wire[c].up \in Seq(Units) /\ Made(c) \in Seq(Units)
           /\ IsWish(cli[c].wish) /\ cli[c].wish \in Seq(Reqs) /\ Len(cli[c].wish) \in Nat
           /\ cli[c].sent \in Nat /\ cli[c].sent <= Len(cli[c].wish)
           /\ Answered(cli[c].wish, cli[c].sent)
<1>1. /\ h[c] \in HandlerType
      /\ cli[c] \in ClientType /\ wire[c] \in [up : Seq(Units), down : Seq(Units)]
  BY DEF SInv, DInv, Types
<1>2. h[c].outbuf \in Seq(Units) /\ h[c].queue \in Seq(Reqs) /\ h[c].inbuf \in Seq(Units)
  BY <1>1 DEF HandlerType
<1>3. cli[c].got \in Seq(Units) /\ wire[c].down \in Seq(Units) /\ wire[c].up \in Seq(Units)
      /\ cli[c].sent \in Nat
  BY <1>1 DEF ClientType
<1>4. Made(c) \in Seq(Units)
  BY <1>2, <1>3 DEF Made
<1>5. IsWish(cli[c].wish) /\ cli[c].sent <= Len(cli[c].wish)
      /\ Answered(cli[c].wish, cli[c].sent)
  BY DEF SInv, Wished
<1>6. cli[c].wish \in Seq(Reqs) /\ Len(cli[c].wish) \in Nat
  BY <1>5 DEF IsWish
<1> QED BY <1>1, <1>2, <1>3, <1>4, <1>5, <1>6

\* The handler that the server works on.
LEMMA AtHand ==
    ASSUME SInv, pc.at # "idle"
    PROVE  /\ pc.c \in Conns /\ pc \in PcType /\ h[pc.c].st = "open"
           /\ \E d \in 0..cli[pc.c].sent : Stands(pc.c, d)
<1>1. pc.c \in Conns /\ pc \in PcType
  BY DEF SInv, DInv, Types, PcType
<1>2. h[pc.c].st = "open"
  BY DEF SInv, DInv, AtWork
<1> QED BY <1>1, <1>2 DEF SInv, Standing

\* A step of one handler leaves the others alone.
LEMMA StepStands ==
    ASSUME SInv, DInv', NEW c \in Conns, UNCHANGED <<setting, cli>>,
           \A e \in Conns : e # c =>
              h'[e] = h[e] /\ wire'[e] = wire[e] /\ dels'[e] = dels[e],
           h'[c].st # "gone" => \E d \in 0..cli[c].sent : Stands(c, d)',
           h'[c].st = "gone" \/ dels'[c] > 0 => cli[c].closed,
           Waiting'
    PROVE  SInv'
<1>1. ASSUME NEW e \in Conns, h'[e].st # "gone"
      PROVE  \E d \in 0..cli'[e].sent : Stands(e, d)'
  <2>1. CASE e = c
    BY <1>1, <2>1
  <2>2. CASE e # c
    <3>1. h'[e] = h[e] /\ wire'[e] = wire[e]
      BY <2>2
    <3>2. PICK d \in 0..cli[e].sent : Stands(e, d)
      BY <1>1, <3>1 DEF SInv, Standing
    <3>3. Stands(e, d)'
      BY <3>1, <3>2 DEF Stands, Made, Fit
    <3> QED BY <3>3
  <2> QED BY <2>1, <2>2
<1>2. Standing'
  BY <1>1 DEF Standing
<1>3. DeletedAfter'
  BY DEF SInv, DeletedAfter
<1>4. Wished'
  BY DEF SInv, Wished
<1> QED BY <1>2, <1>3, <1>4 DEF SInv

\* Handlers and streams are as they were.
LEMMA SameStands ==
    ASSUME SInv, DInv', UNCHANGED <<setting, h, cli, wire>>, DeletedAfter', Waiting'
    PROVE  SInv'
<1>1. Standing'
  BY DEF SInv, Standing, Stands, Made, Fit
<1>2. Wished'
  BY DEF SInv, Wished
<1> QED BY <1>1, <1>2 DEF SInv

LEMMA AcceptStands ==
    ASSUME SInv, DInv', NEW c \in Conns, Accept(c)
    PROVE  SInv'
<1>1. /\ h' = [h EXCEPT ![c].st = "open"] /\ h[c].st = "none" /\ pc.at = "idle"
      /\ \A e \in Conns : dels[e] = 0
      /\ UNCHANGED <<setting, cli, wire, pc, dels, died, odd>>
  BY DEF Accept, Idle, At
<1>2. h[c] \in HandlerType /\ h \in [Conns -> HandlerType]
  BY DEF SInv, DInv, Types
<1>3. Alike(h'[c], h[c]) /\ h'[c].outbuf = h[c].outbuf /\ h'[c].st = "open"
  BY <1>1, <1>2 DEF Alike, HandlerType
<1>4. PICK d \in 0..cli[c].sent : Stands(c, d)
  BY <1>1 DEF SInv, Standing
<1>5. Made(c)' = Made(c)
  BY <1>1, <1>3 DEF Made
<1>6. Fit(h'[c], cli[c].wish, wire[c].up, Made(c), d, cli[c].sent)
  BY <1>3, <1>4, FitAlike DEF Stands
<1>7. Stands(c, d)'
  BY <1>1, <1>5, <1>6 DEF Stands, Fit
<1>8. Waiting'
  BY <1>1 DEF SInv, Waiting
<1>9. \A e \in Conns : e # c => h'[e] = h[e]
  BY <1>1
<1> QED BY <1>1, <1>3, <1>7, <1>8, <1>9, StepStands

\* Steps that only move on.
LEMMA MoveStands ==
    ASSUME SInv, DInv',
           (\E c \in Conns : SrvReady(c)) \/ FillBody \/ FillEnds \/ SendEnds
    PROVE  SInv'
<1>1. UNCHANGED <<setting, h, cli, wire, dels, died, odd>>
  BY DEF SrvReady, FillBody, FillEnds, SendEnds
<1>2. DeletedAfter' /\ Waiting'
  BY <1>1 DEF SInv, DeletedAfter, Waiting
<1> QED BY <1>1, <1>2, SameStands

\* A write fails only when the client has left.
LEMMA WriteFailsStands ==
    ASSUME SInv, DInv', WriteFails
    PROVE  SInv'
<1>1. /\ pc.at = "send" /\ cli[pc.c].closed /\ died' \in {died, "front"}
      /\ DeleteLater(pc.c) /\ Odd("late", h[pc.c].queue = <<>>)
      /\ UNCHANGED <<setting, h, cli, wire>>
  BY DEF WriteFails, At
<1>2. pc.c \in Conns /\ dels \in [Conns -> Nat]
  BY <1>1, AtHand DEF SInv, DInv, Types
<1>3. \A e \in Conns : e # pc.c => dels'[e] = dels[e]
  BY <1>1, <1>2 DEF DeleteLater
<1>4. DeletedAfter'
  BY <1>1, <1>3 DEF SInv, DeletedAfter
<1>5. Waiting'
  BY <1>1 DEF SInv, Waiting, Odd
<1> QED BY <1>1, <1>4, <1>5, SameStands

\* Only a handler of a client that left is deleted.
LEMMA DeleteStands ==
    ASSUME SInv, DInv', Delete
    PROVE  SInv'
<1>1. PICK c \in Conns :
        /\ dels[c] > 0
        /\ dels' = [dels EXCEPT ![c] = @ - 1]
        /\ h' = [h EXCEPT ![c] = [NoHandler EXCEPT !.st = "gone"]]
        /\ died' \in {died, "again"}
  BY DEF Delete
<1>2. UNCHANGED <<setting, cli, wire, pc, odd>>
  BY DEF Delete
<1>3. h \in [Conns -> HandlerType] /\ dels \in [Conns -> Nat]
  BY DEF SInv, DInv, Types
<1>4. h'[c].st = "gone"
  BY <1>1, <1>3 DEF NoHandler
<1>5. cli[c].closed
  BY <1>1 DEF SInv, DeletedAfter
<1>6. Waiting'
  BY <1>1, <1>2 DEF SInv, Waiting
<1>7. \A e \in Conns : e # c => h'[e] = h[e] /\ wire'[e] = wire[e] /\ dels'[e] = dels[e]
  BY <1>1, <1>2, <1>3
<1> QED BY <1>2, <1>4, <1>5, <1>6, <1>7, StepStands

\* process_inbuf_ keeps what a handler has to do.
LEMMA ProcessFit ==
    ASSUME NEW x \in HandlerType, NEW w, IsWish(w), NEW up, NEW made, NEW d \in Nat,
           NEW n \in Nat, n <= Len(w), Fit(x, w, up, made, d, n)
    PROVE  /\ ~RangeOfNone(x)
           /\ ProcessInbuf(x) \in HandlerType
           /\ ProcessInbuf(x).st = x.st /\ ProcessInbuf(x).outbuf = x.outbuf
           /\ ProcessInbuf(x).rsp = x.rsp
           /\ Fit(ProcessInbuf(x), w, up, made, d, n)
           /\ setting.ahead = 1 => ProcessInbuf(x).queue = x.queue
<1> DEFINE y == ProcessInbuf(x)
<1>1. /\ ~RangeOfNone(x) /\ Unanswered(y, w, up, d, n) /\ SameWork(y, x) /\ y \in HandlerType
      /\ x.inbuf = <<>> => y.inbuf = <<>> /\ y.queue = x.queue
  BY ProcessStands DEF Fit
<1> HIDE DEF y
<1>2. MadeOf(y, w, made, d)
  <2>1. MadeOf(x, w, made, d)
    BY DEF Fit
  <2> QED BY <1>1, <2>1 DEF MadeOf, SameWork
<1>3. ASSUME setting.ahead = 1 PROVE OneAhead(y, d, n) /\ y.queue = x.queue
  <2>1. OneAhead(x, d, n)
    BY <1>3 DEF Fit
  <2> QED BY <1>1, <2>1 DEF OneAhead, SameWork
<1>4. Fit(y, w, up, made, d, n)
  BY <1>1, <1>2, <1>3 DEF Fit
<1> QED BY <1>1, <1>3, <1>4 DEF SameWork, y

\* A handler between two answers waits for a client that waits for it.
LEMMA QueueIsEmpty ==
    ASSUME NEW x \in HandlerType, ~Full(x), Len(x.queue) <= 1, MaxPipeline = 1
    PROVE  x.queue = <<>> /\ Len(x.queue) = 0
<1>1. x.queue \in Seq(Reqs)
  BY DEF HandlerType
<1>2. Len(x.queue) \in Nat /\ Len(x.queue) # 1
  BY <1>1 DEF Full
<1>3. Len(x.queue) = 0
  <2> DEFINE l == Len(x.queue)
  <2>1. l \in Nat /\ l # 1 /\ l <= 1
    BY <1>2
  <2> HIDE DEF l
  <2>2. l = 0
    BY <2>1
  <2> QED BY <2>2 DEF l
<1> QED BY <1>1, <1>3, EmptySeq

\* All that came is read: what is in inbuf follows what was in it.
LEMMA ReadStands ==
    ASSUME SInv, Alive, MaxPipeline = 1, NEW c \in Conns, ~Full(h[c]),
           NEW d \in 0..cli[c].sent, Stands(c, d),
           NEW x, x = [h[c] EXCEPT !.inbuf = @ \o wire[c].up]
    PROVE  LET y == ProcessInbuf(x)
           IN  /\ ~RangeOfNone(x) /\ y \in HandlerType /\ y.st = h[c].st
               /\ y.outbuf = h[c].outbuf /\ y.rsp = h[c].rsp
               /\ Fit(y, cli[c].wish, <<>>, Made(c), d, cli[c].sent)
               /\ ~TooMany(x)
<1> DEFINE w == cli[c].wish
           n == cli[c].sent
           up == wire[c].up
           y == ProcessInbuf(x)
<1>1. /\ h[c] \in HandlerType /\ h[c].inbuf \in Seq(Units) /\ h[c].queue \in Seq(Reqs)
      /\ up \in Seq(Units) /\ IsWish(w) /\ w \in Seq(Reqs) /\ n \in Nat /\ n <= Len(w)
  BY Types1
<1>2. h[c].queue = <<>> /\ Len(h[c].queue) = 0
  <2>1. Len(h[c].queue) <= 1
    BY DEF SInv, DInv, QueueFits
  <2> QED BY <1>1, <2>1, QueueIsEmpty
<1>3. h[c].inbuf \o up \in Seq(Units)
  BY <1>1
<1>4. /\ x \in HandlerType /\ x.inbuf = h[c].inbuf \o up /\ x.queue = h[c].queue
      /\ x.req = h[c].req /\ x.st = h[c].st /\ x.rsp = h[c].rsp /\ x.off = h[c].off
      /\ x.expect = h[c].expect /\ x.nread = h[c].nread /\ x.outbuf = h[c].outbuf
  BY <1>1, <1>3 DEF HandlerType
<1>5. Unanswered(h[c], w, up, d, n) /\ MadeOf(h[c], w, Made(c), d)
      /\ (setting.ahead = 1 => OneAhead(h[c], d, n))
  BY DEF Stands, Fit
<1> HIDE DEF w, n, up
<1>6. d \in Nat /\ d + Len(h[c].queue) = d
  BY <1>1, <1>2
<1>7. PICK m \in d..n : InLines(h[c].inbuf, w, d, m) /\ InLines(up, w, m, n)
  BY <1>5, <1>6 DEF Unanswered
<1>8. InLines(h[c].inbuf \o up, w, d, n)
  BY <1>1, <1>6, <1>7, MoreLines
<1>9. InLines(<<>>, w, n, n) /\ n \in d..n
  BY <1>1, <1>6, <1>7, NoLines
<1>10. Unanswered(x, w, <<>>, d, n)
  BY <1>4, <1>5, <1>6, <1>8, <1>9, Zenon DEF Unanswered
<1>11. /\ ~RangeOfNone(x) /\ Unanswered(y, w, <<>>, d, n) /\ SameWork(y, x)
       /\ y \in HandlerType /\ Len(y.queue) <= Len(x.queue) + 1
       /\ n <= d + Len(x.queue) + 1 => y.inbuf = <<>>
  BY <1>1, <1>4, <1>6, <1>10, ProcessStands
<1>12. ~TooMany(x)
  <2>1. Queued(x, SubSeq(x.inbuf, 1, Taken(x.inbuf))) = y.queue
    BY <1>4, ProcessType
  <2> HIDE DEF y
  <2>2. y.queue \in Seq(Reqs)
    BY <1>11 DEF HandlerType
  <2>3. Len(y.queue) \in Nat /\ Len(y.queue) <= 1
    BY <1>2, <1>4, <1>11, <2>2
  <2> QED BY <2>1, <2>3, MaxPipeline = 1 DEF TooMany
<1> HIDE DEF y
<1>13. x.rsp = "META" /\ MadeOf(y, w, Made(c), d)
  <2>1. h[c].rsp = "META" /\ Made(c) = Answers(w, d)
    BY <1>2, <1>5 DEF MadeOf
  <2> QED BY <1>4, <1>11, <2>1 DEF MadeOf, SameWork
<1>14. ASSUME setting.ahead = 1 PROVE OneAhead(y, d, n)
  <2>1. n <= d + 1
    BY <1>4, <1>5, <1>13, <1>14 DEF OneAhead
  <2>2. d + Len(x.queue) + 1 = d + 1
    BY <1>2, <1>4, <1>6
  <2> QED BY <1>11, <2>1, <2>2 DEF OneAhead
<1>15. Fit(y, w, <<>>, Made(c), d, n)
  BY <1>11, <1>13, <1>14 DEF Fit
<1> QED BY <1>4, <1>11, <1>12, <1>15 DEF SameWork, y, w, n

LEMMA RecvStands ==
    ASSUME SInv, DInv', MaxPipeline = 1, "split" \notin odd', RecvFromClient
    PROVE  SInv'
<1>1. /\ pc.at = "recv" /\ pc' = Rest /\ UNCHANGED <<setting, cli>> /\ Alive
  BY DEF RecvFromClient, At
<1>0. PICK c \in Conns : c = pc.c
  BY <1>1, AtHand
<1> DEFINE up == wire[c].up
<1>2. PICK d \in 0..cli[c].sent : Stands(c, d)
  BY <1>0, <1>1, AtHand
<1>3. c \in Conns /\ h \in [Conns -> HandlerType] /\ dels \in [Conns -> Nat] /\ h[c].st = "open"
      /\ wire \in [Conns -> [up : Seq(Units), down : Seq(Units)]]
  BY <1>0, <1>1, AtHand DEF SInv, DInv, Types
<1>5. CASE /\ Full(h[c])
           /\ h' = [h EXCEPT ![c].ren = FALSE]
           /\ UNCHANGED <<wire, dels, died, odd>>
  <2>1. Alike(h'[c], h[c]) /\ h'[c].outbuf = h[c].outbuf /\ h'[c].st = h[c].st
    <3>1. h[c] \in HandlerType
      BY <1>3
    <3> QED BY <1>3, <1>5, <3>1 DEF Alike, HandlerType
  <2>2. Made(c)' = Made(c)
    BY <1>1, <1>5, <2>1 DEF Made
  <2>3. Fit(h'[c], cli[c].wish, wire[c].up, Made(c), d, cli[c].sent)
    BY <1>2, <2>1, FitAlike DEF Stands
  <2>4. Stands(c, d)'
    BY <1>1, <1>5, <2>2, <2>3 DEF Stands, Fit
  <2>5. \A e \in Conns : e # c => h'[e] = h[e]
    BY <1>3, <1>5
  <2>6. Waiting'
    BY <1>1, <1>5 DEF SInv, Waiting
  <2> QED BY <1>1, <1>3, <1>5, <2>1, <2>4, <2>5, <2>6, StepStands
          DEF SInv, DeletedAfter
<1>6. CASE /\ ~Full(h[c])
           /\ Processing(c, [h[c] EXCEPT !.inbuf = @ \o SubSeq(up, 1, Len(up))])
           /\ wire' = [wire EXCEPT ![c].up = SubSeq(@, Len(up) + 1, Len(@))]
           /\ UNCHANGED <<dels, odd>>
  <2>1. up \in Seq(Units)
    BY <1>3
  <2>2. SubSeq(up, 1, Len(up)) = up /\ SubSeq(up, Len(up) + 1, Len(up)) = <<>>
    <3> HIDE DEF up
    <3> QED BY <2>1
  <2> DEFINE x == [h[c] EXCEPT !.inbuf = @ \o up]
             y == ProcessInbuf(x)
  <2>3. Processing(c, x)
    BY <1>6, <2>2
  <2>4. wire' = [wire EXCEPT ![c].up = <<>>]
    BY <1>6, <2>2
  <2>5. /\ ~RangeOfNone(x) /\ y \in HandlerType /\ y.st = h[c].st
        /\ y.outbuf = h[c].outbuf
        /\ Fit(y, cli[c].wish, <<>>, Made(c), d, cli[c].sent)
        /\ ~TooMany(x)
    <3> QED BY <1>1, <1>2, <1>3, <1>6, ReadStands
  <2>6. h' = [h EXCEPT ![c] = y] /\ died' = died
    BY <2>3, <2>5 DEF Processing
  <2> HIDE DEF x, y, up
  <2>7. h'[c] = y /\ wire'[c].up = <<>> /\ wire'[c].down = wire[c].down
    BY <1>3, <2>4, <2>6
  <2>8. Made(c)' = Made(c)
    BY <1>1, <2>5, <2>7 DEF Made
  <2>9. Stands(c, d)'
    BY <1>1, <2>5, <2>7, <2>8 DEF Stands, Fit
  <2>10. \A e \in Conns : e # c => h'[e] = h[e] /\ wire'[e] = wire[e]
    BY <2>4, <2>6
  <2>11. Waiting'
    BY <1>1, <1>6, <2>6 DEF SInv, Waiting
  <2> QED BY <1>1, <1>3, <1>6, <2>5, <2>7, <2>9, <2>10, <2>11, StepStands
          DEF SInv, DeletedAfter
<1>7. CASE /\ cli[c].closed /\ DeleteLater(c)
           /\ UNCHANGED <<h, wire, died, odd>>
  <2>1. \A e \in Conns : e # c => dels'[e] = dels[e]
    BY <1>3, <1>7 DEF DeleteLater
  <2>2. DeletedAfter'
    BY <1>1, <1>7, <2>1 DEF SInv, DeletedAfter
  <2>3. Waiting'
    BY <1>1, <1>7 DEF SInv, Waiting
  <2> QED BY <1>1, <1>7, <2>2, <2>3, SameStands
<1>8. CASE /\ ~Full(h[c])
           /\ \E n \in 1..Len(up) :
                 /\ Processing(c, [h[c] EXCEPT !.inbuf = @ \o SubSeq(up, 1, n)])
                 /\ wire' = [wire EXCEPT ![c].up = SubSeq(@, n + 1, Len(@))]
                 /\ Odd("split", n < Len(up))
           /\ UNCHANGED dels
  <2>1. PICK n \in 1..Len(up) :
          /\ Processing(c, [h[c] EXCEPT !.inbuf = @ \o SubSeq(up, 1, n)])
          /\ wire' = [wire EXCEPT ![c].up = SubSeq(@, n + 1, Len(@))]
          /\ Odd("split", n < Len(up))
    BY <1>8
  <2>2. ~(n < Len(up)) /\ odd' = odd
    BY <2>1, "split" \notin odd' DEF Odd
  <2>3. n = Len(up)
    <3>1. Len(up) \in Nat /\ n \in 1..Len(up)
      BY <1>3, <2>1
    <3> HIDE DEF up
    <3> QED BY <2>2, <3>1
  <2> HIDE DEF up
  <2> QED BY <1>6, <1>8, <2>1, <2>2, <2>3
<1> QED BY <1>0, <1>5, <1>7, <1>8 DEF RecvFromClient

\* A step of sending.
LEMMA SendingStands ==
    ASSUME SInv, DInv', NEW c \in Conns, pc.c = c, pc.at \notin {"idle", "recv"},
           UNCHANGED <<setting, cli, dels>>, h'[c].st = "open",
           \A e \in Conns : e # c => h'[e] = h[e] /\ wire'[e] = wire[e],
           NEW d \in 0..cli[c].sent, Stands(c, d)',
           Waiting'
    PROVE  SInv'
<1>1. \A e \in Conns : dels[e] = 0
  BY Sending DEF SInv
<1>2. h'[c].st # "gone" /\ ~(dels'[c] > 0)
  BY <1>1
<1> QED BY <1>2, StepStands

LEMMA AddMoreStands ==
    ASSUME SInv, DInv', AddMore
    PROVE  SInv'
<1>1. /\ pc.at = "add" /\ UNCHANGED <<setting, cli, wire, dels>> /\ Alive
  BY DEF AddMore, At
<1>2. PICK c \in Conns : c = pc.c
  BY <1>1, AtHand
<1>3. PICK d \in 0..cli[c].sent : Stands(c, d)
  BY <1>1, <1>2, AtHand
<1>4. /\ h \in [Conns -> HandlerType] /\ h[c] \in HandlerType /\ h[c].st = "open"
      /\ IsWish(cli[c].wish) /\ cli[c].sent \in Nat /\ cli[c].sent <= Len(cli[c].wish)
  BY <1>1, <1>2, AtHand, Types1 DEF SInv, DInv, Types
<1> DEFINE x == h[c]
           w == cli[c].wish
           n == cli[c].sent
           up == wire[c].up
           due == pc.burst >= Burst
           y == IF due /\ ~RangeOfNone(x) THEN ProcessInbuf(x) ELSE x
           z == [y EXCEPT !.wen = FALSE]
           next == [pc EXCEPT !.burst = IF due THEN 0 ELSE @]
<1>5. d \in Nat /\ Fit(x, w, up, Made(c), d, n)
  BY <1>3, <1>4 DEF Stands
<1>6. /\ ~RangeOfNone(x)
      /\ y \in HandlerType /\ y.st = x.st /\ y.outbuf = x.outbuf
      /\ Fit(y, w, up, Made(c), d, n)
      /\ setting.ahead = 1 => y.queue = x.queue
  <2>1. /\ ~RangeOfNone(x)
        /\ ProcessInbuf(x) \in HandlerType
        /\ ProcessInbuf(x).st = x.st /\ ProcessInbuf(x).outbuf = x.outbuf
        /\ Fit(ProcessInbuf(x), w, up, Made(c), d, n)
        /\ setting.ahead = 1 => ProcessInbuf(x).queue = x.queue
    BY <1>4, <1>5, ProcessFit
  <2>2. y = ProcessInbuf(x) \/ y = x
    OBVIOUS
  <2> HIDE DEF y
  <2> QED BY <1>4, <1>5, <2>1, <2>2
<1> HIDE DEF x, y
<1>9. /\ z \in HandlerType /\ z.st = y.st /\ z.outbuf = y.outbuf /\ z.queue = y.queue
      /\ Alike(z, y)
  BY <1>6 DEF HandlerType, Alike
<1>10. Fit(z, w, up, Made(c), d, n)
  BY <1>6, <1>9, FitAlike
<1> HIDE DEF z
<1>11. /\ ~RangeOfNone(z)
       /\ ProcessInbuf(z) \in HandlerType
       /\ ProcessInbuf(z).st = z.st /\ ProcessInbuf(z).outbuf = z.outbuf
       /\ Fit(ProcessInbuf(z), w, up, Made(c), d, n)
       /\ setting.ahead = 1 => ProcessInbuf(z).queue = z.queue
  BY <1>4, <1>5, <1>9, <1>10, ProcessFit
<1>14. setting.ahead = 1 => odd' = odd
  <2>1. setting.ahead = 1 => x.inbuf = <<>>
    BY <1>5 DEF Fit, OneAhead
  <2> QED BY <1>2, <2>1 DEF AddMore, Odd, x
<1>15. ASSUME NEW v, h' = [h EXCEPT ![c] = v], v.st = "open", v.outbuf = x.outbuf,
              Fit(v, w, up, Made(c), d, n), Waiting'
       PROVE  SInv'
  <2>1. h'[c] = v /\ \A e \in Conns : e # c => h'[e] = h[e]
    BY <1>4, <1>15
  <2>2. Made(c)' = Made(c)
    BY <1>1, <1>15, <2>1 DEF Made, x
  <2>3. Stands(c, d)'
    BY <1>1, <1>15, <2>1, <2>2 DEF Stands, Fit
  <2> QED BY <1>1, <1>2, <1>15, <2>1, <2>3, SendingStands
<1>16. CASE Processing(c, z)
  <2>1. h' = [h EXCEPT ![c] = ProcessInbuf(z)]
        /\ died' = IF TooMany(z) THEN "pipeline" ELSE died
    BY <1>11, <1>16 DEF Processing
  <2>2. Waiting'
    BY <1>1, <1>14, <2>1 DEF SInv, Waiting
  <2> QED BY <1>4, <1>6, <1>9, <1>11, <1>15, <2>1, <2>2 DEF x
<1>17. CASE /\ h' = [h EXCEPT ![c] = y]
            /\ died' = CASE due /\ RangeOfNone(x) -> "back"
                         [] due /\ ~RangeOfNone(x) /\ TooMany(x) -> "pipeline"
                         [] OTHER -> died
  <2>1. Waiting'
    BY <1>1, <1>6, <1>14, <1>17 DEF SInv, Waiting
  <2> QED BY <1>4, <1>6, <1>15, <1>17, <2>1 DEF x
<1> QED BY <1>2, <1>16, <1>17 DEF AddMore, x, y, z

\* A range is a range whether or not it begins at 0.
LEMMA SameAnswer ==
    ASSUME NEW e, NEW r, IsRequest(e, r), NEW f \in Int, r.first = f
    PROVE  /\ e.path = r.path /\ StartAt(e.first) = StartAt(r.first)
           /\ Header(e.path, e.first) = Header(r.path, StartAt(r.first))
<1>1. e.path = r.path /\ e.first = IF f > 0 THEN f ELSE -1
  BY DEF IsRequest
<1>2. CASE f > 0
  BY <1>1, <1>2 DEF StartAt, Header
<1>3. CASE ~(f > 0)
  <2>1. ~(-1 > 0) /\ ~(0 > 0)
    OBVIOUS
  <2> QED BY <1>1, <1>3, <2>1 DEF StartAt, Header
<1> QED BY <1>2, <1>3

\* What is made grows by what is appended to outbuf.
LEMMA MadeGrows ==
    ASSUME SInv, NEW c \in Conns, NEW t \in Seq(Units)
    PROVE  (cli[c].got \o wire[c].down) \o (h[c].outbuf \o t) = Made(c) \o t
<1>1. PICK a \in Seq(Units), b \in Seq(Units), o \in Seq(Units) :
        a = cli[c].got /\ b = wire[c].down /\ o = h[c].outbuf
  BY Types1
<1>2. PICK ab \in Seq(Units) : ab = a \o b
  BY Concatenation
<1>3. InTurn(ab, o, t)
  BY InAnyTurn
<1> QED BY <1>1, <1>2, <1>3, Zenon DEF InTurn, Made

LEMMA FillMetaStands ==
    ASSUME SInv, DInv', FillMeta
    PROVE  SInv'
<1>1. /\ pc.at = "fill" /\ UNCHANGED <<setting, cli, wire, dels, died, odd>>
  BY DEF FillMeta, At
<1>2. PICK c \in Conns : c = pc.c
  BY <1>1, AtHand
<1>3. PICK d \in 0..cli[c].sent : Stands(c, d)
  BY <1>1, <1>2, AtHand
<1> DEFINE x == h[c]
           w == cli[c].wish
           n == cli[c].sent
           up == wire[c].up
           r == w[d + 1]
           e == Head(x.queue)
           hd == Header(e.path, e.first)
           y == [x EXCEPT !.outbuf = Append(@, hd), !.rsp = "BODY",
                          !.off = StartAt(e.first), !.nread = 0,
                          !.expect = Size[e.path] - StartAt(e.first)]
<1>4. /\ x.queue # <<>> /\ x.rsp = "META" /\ h' = [h EXCEPT ![c] = y]
  BY <1>2 DEF FillMeta, Filling
<1>5. /\ h \in [Conns -> HandlerType] /\ x \in HandlerType /\ x.queue \in Seq(Reqs)
      /\ x.outbuf \in Seq(Units) /\ x.st = "open" /\ IsWish(w) /\ w \in Seq(Reqs) /\ n \in Nat
      /\ n <= Len(w) /\ Answered(w, n) /\ Len(w) \in Nat
  BY <1>1, <1>2, AtHand, Types1 DEF SInv, DInv, Types
<1>6. Unanswered(x, w, up, d, n) /\ MadeOf(x, w, Made(c), d)
      /\ (setting.ahead = 1 => OneAhead(x, d, n))
  BY <1>3 DEF Stands, Fit
<1>7. Len(x.queue) \in Nat \ {0} /\ e = x.queue[1]
  BY <1>4, <1>5
<1>8. d \in Nat /\ d + 1 \in 1..Len(w) /\ d + 1 <= n /\ IsRequest(e, r)
  <2>1. d + Len(x.queue) <= n /\ IsRequest(x.queue[1], w[d + 1])
    <3>1. 1 \in 1..Len(x.queue)
      BY <1>7
    <3> QED BY <1>6, <3>1 DEF Unanswered
  <2> HIDE DEF x, n, w
  <2>2. d \in Nat /\ d + 1 <= n
    BY <1>5, <1>7, <2>1
  <2> QED BY <1>5, <1>7, <2>1, <2>2 DEF w
<1>9. r \in Reqs /\ StartAt(r.first) \in Nat /\ Left(r) \in Nat
      /\ Answer(r) \in Seq(Units) /\ Len(Answer(r)) = 1 + Left(r)
      /\ Answer(r)[1] = Header(r.path, StartAt(r.first))
  BY <1>5, <1>8, AnswerShape
<1> HIDE DEF x, r, w, n
<1>10. e.path = r.path /\ StartAt(e.first) = StartAt(r.first) /\ hd = Answer(r)[1]
  <2>1. r.first \in Int
    BY <1>9 DEF Reqs
  <2> QED BY <1>8, <1>9, <2>1, SameAnswer
<1>11. hd \in Units /\ <<hd>> = SubSeq(Answer(r), 1, 1)
  <2> DEFINE A == Answer(r)
  <2>1. A \in Seq(Units) /\ 1 \in 1..Len(A)
    BY <1>9
  <2> HIDE DEF A
  <2>2. A[1] \in Units /\ <<A[1]>> = SubSeq(A, 1, 1)
    BY <2>1
  <2> QED BY <1>10, <2>2 DEF A
<1> HIDE DEF hd, e
<1>12. Append(x.outbuf, hd) = x.outbuf \o <<hd>> /\ Append(x.outbuf, hd) \in Seq(Units)
       /\ <<hd>> \in Seq(Units)
  BY <1>5, <1>11
<1>13. /\ y.outbuf = x.outbuf \o <<hd>> /\ y.rsp = "BODY" /\ y.off = StartAt(r.first)
       /\ y.nread = 0 /\ y.expect = Left(r) /\ y.st = "open"
       /\ y.queue = x.queue /\ y.inbuf = x.inbuf /\ y.req = x.req
  <2>1. /\ y.outbuf = Append(x.outbuf, hd) /\ y.rsp = "BODY" /\ y.off = StartAt(e.first)
        /\ y.nread = 0 /\ y.expect = Size[e.path] - StartAt(e.first) /\ y.st = x.st
        /\ y.queue = x.queue /\ y.inbuf = x.inbuf /\ y.req = x.req
    BY <1>5 DEF HandlerType
  <2> HIDE DEF y
  <2> QED BY <1>5, <1>10, <1>12, <2>1 DEF Left
<1> HIDE DEF y
<1>14. h'[c] = y /\ \A f \in Conns : f # c => h'[f] = h[f]
  BY <1>4, <1>5
<1>15. Made(c)' = Made(c) \o <<hd>>
  <2>1. Made(c)' = (cli[c].got \o wire[c].down) \o (x.outbuf \o <<hd>>)
    BY <1>1, <1>13, <1>14 DEF Made
  <2> QED BY <1>12, <2>1, MadeGrows DEF x
<1>16. MadeOf(y, w, Made(c)', d)
  <2>1. Made(c) = Answers(w, d)
    BY <1>4, <1>6 DEF MadeOf
  <2>2. Made(c)' = Answers(w, d) \o SubSeq(Answer(r), 1, 1 + 0)
    BY <1>11, <1>15, <2>1
  <2>3. 0 \in 0..Left(r) /\ StartAt(r.first) + 0 = StartAt(r.first)
    BY <1>9
  <2>4. /\ y.rsp = "BODY" /\ y.queue # <<>>
        /\ y.expect = Size[r.path] - StartAt(r.first)
        /\ y.nread \in 0..y.expect /\ y.off = StartAt(r.first) + y.nread
        /\ Made(c)' = Answers(w, d) \o SubSeq(Answer(r), 1, 1 + y.nread)
    BY <1>4, <1>13, <2>2, <2>3 DEF Left
  <2> QED BY <2>4, Zenon DEF MadeOf, r
<1>17. Unanswered(y, w, up, d, n)
  BY <1>6, <1>13, Zenon DEF Unanswered
<1>18. ASSUME setting.ahead = 1 PROVE OneAhead(y, d, n)
  BY <1>4, <1>6, <1>13, <1>18 DEF OneAhead
<1>19. Fit(y, w, up, Made(c)', d, n)
  BY <1>16, <1>17, <1>18 DEF Fit
<1>20. Stands(c, d)'
  BY <1>1, <1>14, <1>19 DEF Stands, Fit, w, n
<1>21. Waiting'
  BY <1>1 DEF SInv, Waiting
<1>22. wire' = wire /\ pc.at \notin {"idle", "recv"}
  BY <1>1
<1> QED BY <1>1, <1>2, <1>13, <1>14, <1>20, <1>21, <1>22, SendingStands

\* What is read of the file continues the answer.
LEMMA BlockContinues ==
    ASSUME NEW w, IsWish(w), NEW k \in 1..Len(w), NEW o \in Nat, NEW n \in Nat,
           o + n <= Left(w[k])
    PROVE  LET r == w[k]
               P == Pieces(r.path, StartAt(r.first) + o, StartAt(r.first) + o + n)
           IN  /\ P \in Seq(Units)
               /\ SubSeq(Answer(r), 1, 1 + o) \o P = SubSeq(Answer(r), 1, 1 + o + n)
<1> DEFINE r == w[k]
           A == Answer(r)
           b == StartAt(r.first)
           P == Pieces(r.path, b + o, b + o + n)
<1>1. /\ r \in Reqs /\ b \in Nat /\ Left(r) \in Nat
      /\ A \in Seq(Units) /\ Len(A) = 1 + Left(r)
      /\ \A i \in 1..Left(r) : A[1 + i] = Unit("body", r.path, b + i - 1)
  BY AnswerShape
<1> HIDE DEF A, b
<1>2. P = [i \in 1..n |-> Unit("body", r.path, b + o + i - 1)]
  <2>1. (b + o + n) - (b + o) = n
    BY <1>1
  <2> QED BY <2>1 DEF Pieces
<1>3. \A i \in 1..n : /\ o + i \in 1..Left(r)
                      /\ A[1 + (o + i)] = Unit("body", r.path, b + o + i - 1)
                      /\ 1 + o + i \in 1..Len(A) /\ 1 + (o + i) = 1 + o + i
  <2> TAKE i \in 1..n
  <2>1. o + i \in 1..Left(r) /\ 1 + (o + i) = 1 + o + i /\ 1 + o + i \in 1..(1 + Left(r))
        /\ b + (o + i) - 1 = b + o + i - 1
    <3> DEFINE l == Left(r)
    <3>1. l \in Nat /\ o + n <= l
      BY <1>1
    <3> HIDE DEF l, r
    <3>2. o + i \in 1..l /\ 1 + (o + i) = 1 + o + i /\ 1 + o + i \in 1..(1 + l)
          /\ b + (o + i) - 1 = b + o + i - 1
      BY <1>1, <3>1
    <3> QED BY <3>2 DEF l
  <2>2. A[1 + (o + i)] = Unit("body", r.path, b + (o + i) - 1)
    BY <1>1, <2>1
  <2> QED BY <1>1, <2>1, <2>2
<1> HIDE DEF P
<1>4. \A i \in 1..n : A[1 + o + i] \in Units /\ P[i] = A[1 + o + i]
  <2> TAKE i \in 1..n
  <2>1. 1 + o + i \in 1..Len(A) /\ A[1 + o + i] = Unit("body", r.path, b + o + i - 1)
    BY <1>3
  <2>2. P[i] = Unit("body", r.path, b + o + i - 1)
    BY <1>2
  <2>3. A[1 + o + i] \in Units
    BY <1>1, <2>1
  <2> QED BY <2>1, <2>2, <2>3
<1>5. P \in Seq(Units) /\ Len(P) = n
  <2>1. P = [i \in 1..n |-> P[i]]
    BY <1>2
  <2>2. \A i \in 1..n : P[i] \in Units
    BY <1>4
  <2> QED BY <2>1, <2>2
<1>6. 1 + o \in Nat /\ (1 + o) + n <= Len(A)
  <2> DEFINE l == Left(r)
  <2>1. l \in Nat /\ o + n <= l /\ Len(A) = 1 + l
    BY <1>1
  <2> HIDE DEF l, r
  <2> QED BY <2>1
<1>7. SubSeq(A, 1, 1 + o) \o P = SubSeq(A, 1, 1 + o + n)
  BY <1>1, <1>4, <1>5, <1>6, Longer
<1> QED BY <1>5, <1>7 DEF P, A, b

\* The rest of the queue, when its first request is answered.
LEMMA NextUnanswered ==
    ASSUME NEW x \in HandlerType, x.queue # <<>>, NEW y, NEW w, NEW up, NEW d \in Nat,
           NEW n \in Nat, Unanswered(x, w, up, d, n),
           y.queue = Tail(x.queue), y.inbuf = x.inbuf, y.req = x.req
    PROVE  Unanswered(y, w, up, d + 1, n) /\ d + 1 <= n
<1> DEFINE q == x.queue
           t == Tail(q)
<1>1. q \in Seq(Reqs) /\ Len(q) \in Nat \ {0}
  <2>1. q \in Seq(Reqs)
    BY DEF HandlerType
  <2> HIDE DEF q
  <2> QED BY <2>1 DEF q
<1>2. /\ t \in Seq(Reqs) /\ Len(t) = Len(q) - 1
      /\ \A i \in 1..Len(t) : t[i] = q[i + 1]
  <2> HIDE DEF q
  <2> QED BY <1>1 DEF q
<1>3. /\ d + Len(q) <= n
      /\ \A i \in 1..Len(q) : IsRequest(q[i], w[d + i])
      /\ \E m \in (d + Len(q))..n : InLines(x.inbuf, w, d + Len(q), m) /\ InLines(up, w, m, n)
      /\ x.req = "REQ_LINE"
  BY DEF Unanswered
<1> HIDE DEF q, t
<1>4. (d + 1) + Len(t) = d + Len(q) /\ d + 1 <= n
  BY <1>1, <1>2, <1>3
<1>5. ASSUME NEW i \in 1..Len(t) PROVE IsRequest(t[i], w[(d + 1) + i])
  <2>1. i + 1 \in 1..Len(q) /\ d + (i + 1) = (d + 1) + i
    BY <1>1, <1>2
  <2>2. IsRequest(q[i + 1], w[d + (i + 1)]) /\ t[i] = q[i + 1]
    BY <1>2, <1>3, <2>1
  <2> QED BY <2>1, <2>2
<1>6. Unanswered(y, w, up, d + 1, n)
  <2>1. y.queue = t /\ y.inbuf = x.inbuf /\ y.req = "REQ_LINE"
    BY <1>3 DEF t, q
  <2> QED BY <1>3, <1>4, <1>5, <2>1 DEF Unanswered
<1> QED BY <1>4, <1>6

LEMMA ReadBlockStands ==
    ASSUME SInv, DInv', ReadBlock
    PROVE  SInv'
<1>1. /\ pc.at = "body" /\ UNCHANGED <<setting, cli, wire, dels, odd>> /\ Alive
  BY DEF ReadBlock, At
<1>2. PICK c \in Conns : c = pc.c
  BY <1>1, AtHand
<1>3. PICK d \in 0..cli[c].sent : Stands(c, d)
  BY <1>1, <1>2, AtHand
<1> DEFINE x == h[c]
           w == cli[c].wish
           n == cli[c].sent
           up == wire[c].up
           r == w[d + 1]
           A == Answer(r)
           b == StartAt(r.first)
           path == Head(x.queue).path
           k == IF Size[path] - x.off < Block THEN Size[path] - x.off ELSE Block
           P == Pieces(path, x.off, x.off + k)
           y == [x EXCEPT !.outbuf = @ \o P, !.off = @ + k, !.nread = @ + k]
           z == [y EXCEPT !.queue = Tail(@), !.rsp = "META",
                          !.off = 0, !.nread = 0, !.expect = 0]
<1>4. /\ h \in [Conns -> HandlerType] /\ x \in HandlerType /\ x.queue \in Seq(Reqs)
      /\ x.outbuf \in Seq(Units) /\ x.st = "open" /\ IsWish(w) /\ w \in Seq(Reqs) /\ n \in Nat
      /\ n <= Len(w) /\ Answered(w, n) /\ Len(w) \in Nat
  BY <1>1, <1>2, AtHand, Types1 DEF SInv, DInv, Types
<1>5. Unanswered(x, w, up, d, n) /\ MadeOf(x, w, Made(c), d)
      /\ (setting.ahead = 1 => OneAhead(x, d, n))
  BY <1>3 DEF Stands, Fit
<1>6. x.rsp = "BODY"
  BY <1>1, <1>2 DEF SInv, DInv, AtWork
<1>7. /\ x.queue # <<>> /\ x.expect = Left(r) /\ x.nread \in 0..Left(r)
      /\ x.off = b + x.nread
      /\ Made(c) = Answers(w, d) \o SubSeq(A, 1, 1 + x.nread)
  BY <1>5, <1>6 DEF MadeOf, Left
<1>8. Len(x.queue) \in Nat \ {0} /\ Head(x.queue) = x.queue[1]
  BY <1>4, <1>7
<1>9. d \in Nat /\ d + 1 \in 1..Len(w) /\ d + 1 <= n /\ IsRequest(x.queue[1], r)
  <2>1. d + Len(x.queue) <= n /\ IsRequest(x.queue[1], w[d + 1])
    <3>1. 1 \in 1..Len(x.queue)
      BY <1>8
    <3> QED BY <1>5, <3>1 DEF Unanswered
  <2> HIDE DEF x, n, w
  <2>2. d \in Nat /\ d + 1 <= n
    BY <1>4, <1>8, <2>1
  <2> QED BY <1>4, <1>8, <2>1, <2>2 DEF w
<1>10. /\ r \in Reqs /\ b \in Nat /\ Left(r) \in Nat /\ Size[r.path] \in Nat
       /\ A \in Seq(Units) /\ Len(A) = 1 + Left(r)
  BY <1>4, <1>9, AnswerShape
<1>11. path = r.path
  BY <1>8, <1>9 DEF IsRequest
<1> DEFINE l == Left(r)
           o == x.nread
<1>12. Size[path] - x.off = l - o
  <2>1. Size[path] \in Nat /\ l = Size[path] - b /\ x.off = b + o /\ o \in Nat
    <3>1. o \in 0..Left(r) /\ Left(r) \in Nat /\ x.off = b + o
      BY <1>7, <1>10
    <3>2. o \in Nat
      <4> HIDE DEF o
      <4> QED BY <3>1
    <3>3. l = Size[path] - b
      <4> HIDE DEF path
      <4> QED BY <1>11 DEF Left
    <3>4. Size[path] \in Nat
      <4> HIDE DEF path
      <4> QED BY <1>10, <1>11
    <3> QED BY <3>1, <3>2, <3>3, <3>4
  <2> HIDE DEF l, o, path, b, x
  <2> QED BY <1>10, <2>1
<1>13. /\ k \in Nat /\ o \in Nat /\ l \in Nat /\ o + k <= l
       /\ k < Block => o + k = l
       /\ k = Block => o < l
       /\ k = Block \/ k < Block
  <2>1. k = IF l - o < Block THEN l - o ELSE Block
    BY <1>12
  <2>2. o \in 0..l /\ l \in Nat /\ Block \in Nat \ {0}
    BY <1>7, <1>10, ServerAssumption
  <2> HIDE DEF k, l, o
  <2> QED BY <2>1, <2>2
<1> HIDE DEF k
<1>14. P \in Seq(Units) /\ SubSeq(A, 1, 1 + o) \o P = SubSeq(A, 1, 1 + o + k)
  <2>1. P = Pieces(r.path, b + o, b + o + k)
    BY <1>7, <1>11
  <2>2. IsWish(w) /\ d + 1 \in 1..Len(w) /\ o \in Nat /\ k \in Nat /\ o + k <= Left(w[d + 1])
    BY <1>4, <1>9, <1>13
  <2>3. /\ Pieces(r.path, b + o, b + o + k) \in Seq(Units)
        /\ SubSeq(A, 1, 1 + o) \o Pieces(r.path, b + o, b + o + k) = SubSeq(A, 1, 1 + o + k)
    <3> HIDE DEF w, o
    <3> QED BY <2>2, BlockContinues
  <2> QED BY <2>1, <2>3
<1> HIDE DEF P, path
<1>15. x.off \in Int /\ x.off + k \in Int /\ o + k \in Int /\ x.outbuf \o P \in Seq(Units)
  <2>1. x.off \in Int
    BY <1>4 DEF HandlerType
  <2> QED BY <1>4, <1>13, <1>14, <2>1
<1>16. /\ y \in HandlerType /\ y.st = "open" /\ y.outbuf = x.outbuf \o P /\ y.off = x.off + k
       /\ y.nread = o + k /\ y.expect = l /\ y.rsp = "BODY" /\ y.queue = x.queue
       /\ y.inbuf = x.inbuf /\ y.req = x.req
  BY <1>4, <1>6, <1>7, <1>15 DEF HandlerType
<1>17. Tail(x.queue) \in Seq(Reqs) /\ Len(Tail(x.queue)) = Len(x.queue) - 1
  BY <1>4, <1>7
<1> HIDE DEF y
<1>18. /\ z \in HandlerType /\ z.st = "open" /\ z.outbuf = x.outbuf \o P
       /\ z.rsp = "META" /\ z.queue = Tail(x.queue) /\ z.inbuf = x.inbuf /\ z.req = x.req
  <2>1. Tail(y.queue) \in Seq(Reqs) /\ Tail(y.queue) = Tail(x.queue)
    BY <1>16, <1>17
  <2>2. /\ z \in HandlerType /\ z.st = y.st /\ z.outbuf = y.outbuf
        /\ z.rsp = "META" /\ z.queue = Tail(y.queue) /\ z.inbuf = y.inbuf /\ z.req = y.req
    <3>1. PICK t \in Seq(Reqs) : t = Tail(y.queue)
      BY <2>1
    <3>2. z = [y EXCEPT !.queue = t, !.rsp = "META", !.off = 0, !.nread = 0, !.expect = 0]
      BY <3>1
    <3>3. y \in HandlerType /\ 0 \in Int
      BY <1>16
    <3> HIDE DEF z
    <3>4. z \in HandlerType
      BY <3>2, <3>3 DEF HandlerType
    <3>5. /\ z.st = y.st /\ z.outbuf = y.outbuf /\ z.rsp = "META" /\ z.queue = t
          /\ z.inbuf = y.inbuf /\ z.req = y.req
      BY <3>2, <3>3 DEF HandlerType
    <3> QED BY <3>1, <3>4, <3>5
  <2> HIDE DEF z, x
  <2> QED BY <1>16, <2>1, <2>2
<1> HIDE DEF z, x, r, A, b, w, n, l, o
<1> DEFINE made == Made(c) \o P
<1>19. made = Answers(w, d) \o SubSeq(A, 1, 1 + o + k)
  <2>1. Answers(w, d) \in Seq(Units)
    BY <1>4 DEF Answered, n
  <2>2. SubSeq(A, 1, 1 + o) \in Seq(Units)
    <3>1. 1 + o \in 0..Len(A)
      BY <1>10, <1>13 DEF l
    <3> QED BY <1>10, <3>1, Split
  <2>3. InTurn(Answers(w, d), SubSeq(A, 1, 1 + o), P)
    BY <1>14, <2>1, <2>2, InAnyTurn
  <2> QED BY <1>7, <1>14, <2>3, Zenon DEF InTurn, o
<1>20. ASSUME NEW v, h' = [h EXCEPT ![c] = v], v.outbuf = x.outbuf \o P
       PROVE  /\ h'[c] = v /\ \A f \in Conns : f # c => h'[f] = h[f]
              /\ Made(c)' = made
  <2>1. h'[c] = v /\ \A f \in Conns : f # c => h'[f] = h[f]
    BY <1>4, <1>20
  <2>2. Made(c)' = (cli[c].got \o wire[c].down) \o (x.outbuf \o P)
    BY <1>1, <1>20, <2>1 DEF Made
  <2> QED BY <1>14, <2>1, <2>2, MadeGrows DEF x
<1> HIDE DEF made
<1>21. pc.c = c /\ pc.at \notin {"idle", "recv"}
  BY <1>1, <1>2
<1>22. CASE k = Block
  <2>1. h' = [h EXCEPT ![c] = y] /\ died' = died
    <3>1. /\ h' = [h EXCEPT ![c] = y]
          /\ died' = IF k < Block THEN "length" ELSE died
      BY <1>2, <1>22 DEF ReadBlock, y, x, P, k, path
    <3>2. ~(k < Block)
      BY <1>13, <1>22
    <3> QED BY <3>1, <3>2
  <2>2. Unanswered(y, w, up, d, n)
    BY <1>5, <1>16, Zenon DEF Unanswered
  <2>3. MadeOf(y, w, made, d)
    <3>1. /\ y.expect = Size[r.path] - StartAt(r.first)
          /\ y.nread \in 0..y.expect
          /\ y.off = StartAt(r.first) + y.nread
      <4>1. l = Size[r.path] - StartAt(r.first) /\ x.off = StartAt(r.first) + o
        BY <1>7 DEF l, Left, b, o
      <4>2. (StartAt(r.first) + o) + k = StartAt(r.first) + (o + k)
        BY <1>10, <1>13 DEF b
      <4>3. o + k \in 0..l
        BY <1>13
      <4> QED BY <1>16, <4>1, <4>2, <4>3
    <3>2. 1 + o + k = 1 + (o + k)
      BY <1>13
    <3>3. made = Answers(w, d) \o SubSeq(Answer(r), 1, 1 + y.nread)
      BY <1>16, <1>19, <3>2 DEF A
    <3> QED BY <1>7, <1>16, <3>1, <3>3, Zenon DEF MadeOf, r
  <2>4. ASSUME setting.ahead = 1 PROVE OneAhead(y, d, n)
    <3>1. OneAhead(x, d, n)
      BY <1>5, <2>4
    <3>2. x.nread # x.expect
      BY <1>7, <1>13, <1>22 DEF l, o
    <3> QED BY <1>16, <3>1, <3>2 DEF OneAhead
  <2>5. Fit(y, w, up, made, d, n)
    BY <2>2, <2>3, <2>4 DEF Fit
  <2>6. h'[c] = y /\ Made(c)' = made /\ \A f \in Conns : f # c => h'[f] = h[f]
    BY <1>16, <1>20, <2>1
  <2>7. Stands(c, d)'
    BY <1>1, <2>5, <2>6 DEF Stands, Fit, w, n
  <2>8. Waiting'
    BY <1>1, <2>1 DEF SInv, Waiting
  <2> QED BY <1>1, <1>16, <1>21, <2>6, <2>7, <2>8, SendingStands
<1>23. CASE k < Block
  <2>1. ~Unexpected(k, y)
    BY <1>13, <1>16, <1>23 DEF Unexpected
  <2>2. Processing(c, z)
    <3>1. k # Block
      BY <1>13, <1>23, ServerAssumption
    <3> QED BY <1>2, <2>1, <3>1 DEF ReadBlock, z, y, x, P, k, path
  <2>3. Unanswered(z, w, up, d + 1, n) /\ d + 1 <= n
    BY <1>4, <1>5, <1>7, <1>9, <1>18, NextUnanswered
  <2>4. MadeOf(z, w, made, d + 1)
    <3>1. 1 + o + k = Len(A)
      BY <1>10, <1>13, <1>23 DEF l
    <3>2. SubSeq(A, 1, Len(A)) = A
      BY <1>10
    <3>3. Answers(w, d + 1) = Answers(w, d) \o A
      <4>1. d + 1 \in 1..n /\ (d + 1) - 1 = d
        BY <1>4, <1>9, <2>3
      <4> QED BY <1>4, <4>1 DEF Answered, A, r
    <3> QED BY <1>18, <1>19, <3>1, <3>2, <3>3 DEF MadeOf
  <2>5. ASSUME setting.ahead = 1 PROVE OneAhead(z, d + 1, n)
    <3>1. x.inbuf = <<>> /\ n <= d + 2
      BY <1>4, <1>5, <1>9, <2>5 DEF OneAhead
    <3>2. d + 2 = (d + 1) + 1
      BY <1>9
    <3> QED BY <1>18, <3>1, <3>2 DEF OneAhead
  <2>6. Fit(z, w, up, made, d + 1, n)
    BY <2>3, <2>4, <2>5 DEF Fit
  <2>7. d + 1 \in Nat /\ d + 1 \in 0..n
    BY <1>4, <1>9, <2>3
  <2> DEFINE v == ProcessInbuf(z)
  <2>8. /\ ~RangeOfNone(z) /\ v.st = z.st /\ v.outbuf = z.outbuf
        /\ Fit(v, w, up, made, d + 1, n)
        /\ setting.ahead = 1 => v.queue = z.queue
    BY <1>4, <1>18, <2>6, <2>7, ProcessFit
  <2>9. /\ h' = [h EXCEPT ![c] = v]
        /\ died' = IF TooMany(z) THEN "pipeline" ELSE died
    BY <2>2, <2>8 DEF Processing
  <2> HIDE DEF v
  <2>12. Waiting'
    BY <1>1, <2>9 DEF SInv, Waiting
  <2>13. h'[c] = v /\ Made(c)' = made /\ \A f \in Conns : f # c => h'[f] = h[f]
    BY <1>18, <1>20, <2>8, <2>9
  <2>14. Stands(c, d + 1)'
    BY <1>1, <2>8, <2>13 DEF Stands, Fit, w, n
  <2>15. h'[c].st = "open" /\ wire' = wire /\ d + 1 \in 0..cli[c].sent
    BY <1>1, <1>18, <2>7, <2>8, <2>13 DEF n
  <2> QED BY <1>1, <1>21, <2>12, <2>13, <2>14, <2>15, SendingStands
<1> QED BY <1>13, <1>22, <1>23

\* What is written was in outbuf.
LEMMA SendMoreStands ==
    ASSUME SInv, DInv', SendMore
    PROVE  SInv'
<1>1. /\ pc.at = "send" /\ UNCHANGED <<setting, cli, dels, died, odd>>
  BY DEF SendMore, At
<1>2. PICK c \in Conns : c = pc.c
  BY <1>1, AtHand
<1>3. PICK d \in 0..cli[c].sent : Stands(c, d)
  BY <1>1, <1>2, AtHand
<1> DEFINE x == h[c]
           o == x.outbuf
           room == setting.cap - Len(wire[c].down)
           n == IF Len(o) < room THEN Len(o) ELSE room
           y == [x EXCEPT !.outbuf = SubSeq(o, n + 1, Len(o))]
           down == wire[c].down \o SubSeq(o, 1, n)
<1>4. /\ h' = [h EXCEPT ![c] = y]
      /\ wire' = [wire EXCEPT ![c].down = down]
      /\ pc'.at = pc.at /\ pc'.c = pc.c
  <2>1. h \in [Conns -> HandlerType] /\ pc \in PcType
    BY DEF SInv, DInv, Types
  <2> QED BY <1>2, <2>1 DEF SendMore, PcType
<1>5. /\ h \in [Conns -> HandlerType] /\ x \in HandlerType /\ x.st = "open"
      /\ wire \in [Conns -> [up : Seq(Units), down : Seq(Units)]]
  BY <1>1, <1>2, AtHand, Types1 DEF SInv, DInv, Types
<1>6. n \in 0..Len(o)
  <2>1. /\ Len(o) \in Nat /\ Len(wire[c].down) \in Nat /\ setting.cap \in Nat
        /\ Len(wire[c].down) <= setting.cap
    <3>1. setting \in Settings /\ Len(wire[c].down) <= setting.cap
      BY <1>2 DEF SInv, DInv, Types
    <3>2. o \in Seq(Units) /\ wire[c].down \in Seq(Units)
      BY <1>2, Types1
    <3>3. setting.cap \in Nat
      BY <3>1, ServerAssumption
    <3> QED BY <3>1, <3>2, <3>3
  <2> DEFINE l == Len(o)
             k == Len(wire[c].down)
  <2> HIDE DEF o
  <2> HIDE DEF l, k
  <2>2. (IF l < setting.cap - k THEN l ELSE setting.cap - k) \in 0..l
    BY <2>1 DEF l, k
  <2> QED BY <2>2 DEF l, k
<1> HIDE DEF n
<1>7. /\ h'[c] = y /\ wire'[c].up = wire[c].up /\ wire'[c].down = down
      /\ \A e \in Conns : e # c => h'[e] = h[e] /\ wire'[e] = wire[e]
  <2> HIDE DEF y, down
  <2> QED BY <1>4, <1>5
<1>8. y.outbuf = SubSeq(o, n + 1, Len(o)) /\ y.st = "open" /\ Alike(y, x)
  BY <1>5 DEF HandlerType, Alike
<1> HIDE DEF y
<1>9. Made(c)' = Made(c)
  <2>1. PICK a \in Seq(Units), b \in Seq(Units), s \in Seq(Units) :
          a = cli[c].got /\ b = wire[c].down /\ s = o
    BY Types1
  <2>2. (a \o (b \o SubSeq(s, 1, n))) \o SubSeq(s, n + 1, Len(s)) = (a \o b) \o s
    <3>1. PICK k \in 0..Len(s) : k = n
      BY <1>6, <2>1
    <3>2. MovesOver(a, b, s, k)
      BY MoveOver
    <3> QED BY <3>1, <3>2, Zenon DEF MovesOver
  <2>3. Made(c)' = (cli[c].got \o down) \o y.outbuf
    BY <1>1, <1>7 DEF Made
  <2>4. Made(c) = (a \o b) \o s
    BY <2>1 DEF Made
  <2>5. (cli[c].got \o down) \o y.outbuf
          = (a \o (b \o SubSeq(s, 1, n))) \o SubSeq(s, n + 1, Len(s))
    BY <1>8, <2>1
  <2> QED BY <2>2, <2>3, <2>4, <2>5, Zenon
<1>10. Fit(x, cli[c].wish, wire[c].up, Made(c), d, cli[c].sent)
  BY <1>3 DEF Stands
<1> HIDE DEF x
<1>11. Fit(y, cli[c].wish, wire[c].up, Made(c), d, cli[c].sent)
  BY <1>8, <1>10, FitAlike
<1>12. Stands(c, d)'
  BY <1>1, <1>7, <1>9, <1>11 DEF Stands, Fit
<1>13. Waiting'
  BY <1>1 DEF SInv, Waiting
<1> QED BY <1>1, <1>2, <1>7, <1>8, <1>12, <1>13, SendingStands

-----------------------------------------------------------------------------
(* The clients.                                                            *)

\* What is between a client and the server changes, and no other.
LEMMA ClientStands ==
    ASSUME SInv, DInv', NEW c \in Conns, UNCHANGED <<setting, h, pc, dels, died, odd>>,
           \A e \in Conns : e # c => cli'[e] = cli[e] /\ wire'[e] = wire[e],
           cli'[c].wish = cli[c].wish, cli'[c].sent <= Len(cli[c].wish),
           Answered(cli[c].wish, cli'[c].sent),
           cli[c].closed => cli'[c].closed,
           h[c].st # "gone" => \E d \in 0..cli'[c].sent : Stands(c, d)'
    PROVE  SInv'
<1>1. ASSUME NEW e \in Conns, h'[e].st # "gone"
      PROVE  \E d \in 0..cli'[e].sent : Stands(e, d)'
  <2>1. CASE e = c
    BY <1>1, <2>1
  <2>2. CASE e # c
    <3>1. h'[e] = h[e] /\ wire'[e] = wire[e] /\ cli'[e] = cli[e]
      BY <2>2
    <3>2. PICK d \in 0..cli[e].sent : Stands(e, d)
      BY <1>1, <3>1 DEF SInv, Standing
    <3>3. Stands(e, d)'
      BY <3>1, <3>2 DEF Stands, Made, Fit
    <3> QED BY <3>1, <3>3
  <2> QED BY <2>1, <2>2
<1>2. Standing'
  BY <1>1 DEF Standing
<1>3. DeletedAfter'
  BY DEF SInv, DeletedAfter
<1>4. ASSUME NEW e \in Conns
      PROVE  /\ IsWish(cli'[e].wish) /\ cli'[e].sent <= Len(cli'[e].wish)
             /\ Answered(cli'[e].wish, cli'[e].sent)
  <2>1. CASE e = c
    BY <2>1 DEF SInv, Wished
  <2>2. CASE e # c
    BY <2>2 DEF SInv, Wished
  <2> QED BY <2>1, <2>2
<1>5. Wished'
  BY <1>4 DEF Wished, IsWish, Answered, Unfolds, Chain, Answers
<1>6. Waiting'
  BY DEF SInv, Waiting
<1> QED BY <1>2, <1>3, <1>5, <1>6 DEF SInv

\* Within an answer, less than the whole of it is made, or all of the file was read.
Within(x, w, made, d) ==
    /\ Answers(w, d) \in Seq(Units) /\ Answers(w, d + 1) \in Seq(Units)
    /\ made = Answers(w, d) \o SubSeq(Answer(w[d + 1]), 1, 1 + x.nread)
    /\ x.nread \in 0..x.expect /\ x.expect \in Nat
    /\ Answer(w[d + 1]) \in Seq(Units) /\ Len(Answer(w[d + 1])) = 1 + x.expect
    /\ Answers(w, d + 1) = Answers(w, d) \o Answer(w[d + 1])
    /\ Len(made) + (x.expect - x.nread) = Len(Answers(w, d + 1))

LEMMA MadeWithin ==
    ASSUME NEW x, NEW w, IsWish(w), NEW n \in Nat, n <= Len(w), Answered(w, n),
           NEW made, NEW d \in Nat, d + 1 <= n, x.rsp = "BODY", MadeOf(x, w, made, d)
    PROVE  Within(x, w, made, d)
<1> DEFINE r == w[d + 1]
           A == Answers(w, d)
           B == Answers(w, d + 1)
           R == Answer(r)
<1>1. d + 1 \in 1..Len(w) /\ d \in 0..n /\ d + 1 \in 0..n /\ d + 1 \in 1..n /\ (d + 1) - 1 = d
  <2>1. Len(w) \in Nat
    BY DEF IsWish
  <2> QED BY <2>1
<1>2. R \in Seq(Units) /\ Len(R) = 1 + Left(r) /\ Left(r) \in Nat
  BY <1>1, AnswerShape
<1>3. A \in Seq(Units) /\ B \in Seq(Units) /\ B = A \o R
  <2>1. \A k \in 1..n : Answers(w, k) = Answers(w, k - 1) \o Answer(w[k])
    BY DEF Answered
  <2>2. \A k \in 0..n : Answers(w, k) \in Seq(Units)
    BY DEF Answered
  <2>3. B = Answers(w, (d + 1) - 1) \o R
    BY <1>1, <2>1
  <2> QED BY <1>1, <2>2, <2>3
<1>4. /\ x.expect = Left(r) /\ x.nread \in 0..x.expect
      /\ made = A \o SubSeq(R, 1, 1 + x.nread)
  BY DEF MadeOf, Left
<1> HIDE DEF A, B, R
<1>5. PICK k \in 0..Left(r) : k = x.nread
  BY <1>4
<1>6. SubSeq(R, 1, 1 + k) \in Seq(Units) /\ Len(SubSeq(R, 1, 1 + k)) = 1 + k
  BY <1>2
<1>7. Len(made) = Len(A) + (1 + k)
  <2>1. PICK s \in Seq(Units) : s = SubSeq(R, 1, 1 + k)
    BY <1>6
  <2>2. Len(A \o s) = Len(A) + Len(s)
    BY <1>3, Concatenation
  <2> QED BY <1>4, <1>5, <1>6, <2>1, <2>2
<1>8. Len(B) = Len(A) + Len(R) /\ Len(A) \in Nat
  BY <1>2, <1>3, Concatenation
<1>9. Len(made) + (x.expect - x.nread) = Len(B)
  <2> DEFINE l == Left(r)
  <2>1. /\ Len(made) = Len(A) + (1 + k) /\ x.expect = l /\ x.nread = k /\ Len(R) = 1 + l
        /\ l \in Nat /\ k \in Nat
    BY <1>2, <1>4, <1>5, <1>7
  <2> HIDE DEF l
  <2> QED BY <1>8, <2>1
<1> QED BY <1>2, <1>3, <1>4, <1>9 DEF A, B, R, r, Within

\* A client that has all the answers to what it has asked for is ahead of the server by
\* the end of a file at most.
LEMMA CaughtUp ==
    ASSUME SInv, NEW c \in Conns, NEW d \in 0..cli[c].sent, Stands(c, d),
           cli[c].sent = 0 \/ AllReceived(c, cli[c].sent)
    PROVE  \/ d = cli[c].sent
           \/ d + 1 = cli[c].sent /\ h[c].rsp = "BODY" /\ h[c].nread = h[c].expect
<1> DEFINE x == h[c]
           w == cli[c].wish
           n == cli[c].sent
           m == Made(c)
<1>1. /\ x.queue \in Seq(Reqs) /\ m \in Seq(Units) /\ IsWish(w) /\ n \in Nat /\ n <= Len(w)
      /\ Answered(w, n) /\ Len(w) \in Nat /\ d \in Nat /\ d <= n
  <2>1. n \in Nat
    BY Types1
  <2> QED BY <2>1, Types1
<1>2. Len(cli[c].got) <= Len(m) /\ Len(cli[c].got) \in Nat /\ Len(m) \in Nat
  <2>1. PICK a \in Seq(Units), b \in Seq(Units), o \in Seq(Units) :
          a = cli[c].got /\ b = wire[c].down /\ o = h[c].outbuf
    BY Types1
  <2>2. PICK ab \in Seq(Units) : ab = a \o b
    BY Concatenation
  <2>3. Len(ab) = Len(a) + Len(b) /\ Len(ab \o o) = Len(ab) + Len(o)
        /\ Len(a) \in Nat /\ Len(b) \in Nat /\ Len(o) \in Nat
    BY <2>2, Concatenation
  <2>4. m = ab \o o
    BY <2>1, <2>2 DEF Made
  <2> HIDE DEF m
  <2>5. Len(m) = Len(a) + Len(b) + Len(o) /\ Len(cli[c].got) = Len(a)
    BY <2>1, <2>3, <2>4
  <2> QED BY <2>3, <2>5
<1>3. Unanswered(x, w, wire[c].up, d, n) /\ MadeOf(x, w, m, d)
  BY DEF Stands, Fit
<1>4. n # 0 => Len(Answers(w, n)) <= Len(m)
  <2>1. n # 0 => Len(cli[c].got) >= Len(Answers(w, n))
    BY DEF AllReceived
  <2>2. Len(Answers(w, n)) \in Nat
    <3>1. Answers(w, n) \in Seq(Units)
      <4>1. n \in 0..n
        BY <1>1
      <4> QED BY <1>1, <4>1 DEF Answered
    <3> QED BY <3>1
  <2> QED BY <1>2, <2>1, <2>2
<1>5. \A k \in 0..n : k < n => Len(Answers(w, k)) < Len(Answers(w, n))
  <2>1. n \in 0..n
    BY <1>1
  <2> QED BY <1>1, <2>1 DEF Answered
<1>6. \A k \in 0..n : Len(Answers(w, k)) \in Nat
  BY <1>1 DEF Answered
<1>7. CASE x.rsp = "META"
  <2>1. m = Answers(w, d)
    BY <1>3, <1>7 DEF MadeOf
  <2>2. ASSUME d < n PROVE FALSE
    <3>1. Len(Answers(w, d)) < Len(Answers(w, n)) /\ n # 0
      BY <1>1, <1>5, <2>2
    <3>2. Len(Answers(w, n)) \in Nat /\ Len(m) \in Nat /\ Len(Answers(w, n)) <= Len(m)
          /\ Len(m) < Len(Answers(w, n))
      <4>1. n \in 0..n
        BY <1>1
      <4> QED BY <1>2, <1>4, <1>6, <2>1, <3>1, <4>1
    <3> HIDE DEF m, n, w
    <3> QED BY <3>2
  <2> QED BY <1>1, <2>2
<1>8. CASE x.rsp # "META"
  <2>1. x.rsp = "BODY" /\ x.queue # <<>>
    BY <1>3, <1>8 DEF MadeOf
  <2>2. d + 1 <= n
    <3>1. d + Len(x.queue) <= n /\ Len(x.queue) \in Nat \ {0}
      BY <1>1, <1>3, <2>1 DEF Unanswered
    <3> DEFINE l == Len(x.queue)
    <3>2. d + l <= n /\ l \in Nat \ {0}
      BY <3>1
    <3> HIDE DEF l, n
    <3> QED BY <1>1, <3>2
  <2>3. /\ x.nread \in 0..x.expect /\ x.expect \in Nat
        /\ Len(m) + (x.expect - x.nread) = Len(Answers(w, d + 1))
    <3>1. Within(x, w, m, d)
      BY <1>1, <1>3, <2>1, <2>2, MadeWithin
    <3> QED BY <3>1 DEF Within
  <2> DEFINE B == Len(Answers(w, d + 1))
             C == Len(Answers(w, n))
  <2>4. B \in Nat /\ C \in Nat /\ C <= Len(m) /\ (d + 1 < n => B < C) /\ (d + 1 = n => B = C)
    <3>1. d + 1 \in 0..n /\ n \in 0..n /\ n # 0
      BY <1>1, <2>2
    <3> QED BY <1>4, <1>5, <1>6, <3>1
  <2>5. /\ Len(m) + (x.expect - x.nread) = B
        /\ d \in Nat /\ n \in Nat /\ Len(m) \in Nat /\ x.nread \in Nat /\ x.nread <= x.expect
    BY <1>1, <1>2, <2>3
  <2> HIDE DEF B, C, m, n, x
  <2>6. d + 1 = n /\ x.nread = x.expect
    BY <2>2, <2>3, <2>4, <2>5
  <2> QED BY <2>1, <2>6 DEF n, x
<1> QED BY <1>7, <1>8

\* A client asks for the next of what it wants.
LEMMA AskStands ==
    ASSUME SInv, DInv', NEW c \in Conns, Ask(c)
    PROVE  SInv'
<1> DEFINE x == h[c]
           w == cli[c].wish
           n == cli[c].sent
           up == wire[c].up
           R == Request(w[n + 1])
<1>1. /\ n + 1 <= Len(w) /\ ~cli[c].closed
      /\ n + 1 > setting.ahead => AllReceived(c, (n + 1) - setting.ahead)
      /\ cli' = [cli EXCEPT ![c].sent = n + 1]
      /\ wire' = [wire EXCEPT ![c].up = up \o R]
      /\ UNCHANGED <<setting, h, pc, dels, died, odd>>
  <2>1. n + 1 <= Len(w) /\ ~cli[c].closed
    BY DEF Ask
  <2>2. n + 1 > setting.ahead => AllReceived(c, (n + 1) - setting.ahead)
    BY DEF Ask
  <2>3. cli' = [cli EXCEPT ![c].sent = n + 1] /\ UNCHANGED <<setting, h, pc, dels, died, odd>>
    BY DEF Ask
  <2>4. wire' = [wire EXCEPT ![c].up = up \o R]
    BY DEF Ask
  <2> QED BY <2>1, <2>2, <2>3, <2>4
<1>2. /\ n \in Nat /\ n <= Len(w) /\ IsWish(w) /\ w \in Seq(Reqs) /\ Len(w) \in Nat
      /\ Answered(w, n) /\ up \in Seq(Units)
      /\ cli \in [Conns -> ClientType]
      /\ wire \in [Conns -> [up : Seq(Units), down : Seq(Units)]]
  BY Types1 DEF SInv, DInv, Types
<1>3. w[n + 1] \in Reqs /\ R \in Seq(Units)
  <2>1. n + 1 \in 1..Len(w)
    BY <1>1, <1>2
  <2>2. w[n + 1] \in Reqs
    BY <1>2, <2>1
  <2> QED BY <2>2, RequestLines
<1>4. /\ cli'[c].sent = n + 1 /\ cli'[c].wish = w /\ cli'[c].got = cli[c].got
      /\ cli'[c].closed = cli[c].closed
      /\ wire'[c].up = up \o R /\ wire'[c].down = wire[c].down
      /\ \A e \in Conns : e # c => cli'[e] = cli[e] /\ wire'[e] = wire[e]
  <2> HIDE DEF n, R, up
  <2> QED BY <1>1, <1>2 DEF ClientType, w
<1>5. Answered(w, n + 1)
  BY <1>1, <1>2, AnsweredGrows
<1>6. Made(c)' = Made(c)
  BY <1>1, <1>4 DEF Made
<1>7. x.st # "gone"
  BY <1>1 DEF SInv, DeletedAfter
<1>8. PICK d \in 0..n : Stands(c, d)
  BY <1>7 DEF SInv, Standing
<1>9. Unanswered(x, w, up, d, n) /\ MadeOf(x, w, Made(c), d)
      /\ (setting.ahead = 1 => OneAhead(x, d, n))
  BY <1>8 DEF Stands, Fit
<1>10. d \in Nat /\ d <= n /\ d \in 0..(n + 1)
  BY <1>2, <1>8
<1>11. Unanswered(x, w, up \o R, d, n + 1)
  <2> DEFINE e == d + Len(x.queue)
  <2>1. /\ e <= n /\ e \in Nat
        /\ \A i \in 1..Len(x.queue) : IsRequest(x.queue[i], w[d + i])
        /\ x.req = "REQ_LINE"
    <3>1. Len(x.queue) \in Nat
      BY Types1
    <3> QED BY <1>9, <1>10, <3>1 DEF Unanswered
  <2>2. PICK m \in e..n : InLines(x.inbuf, w, e, m) /\ InLines(up, w, m, n)
    BY <1>9 DEF Unanswered
  <2> HIDE DEF e
  <2>3. InLines(R, w, n, n + 1)
    BY <1>2, <1>3, OneRequest
  <2>4. m \in Nat /\ m \in e..(n + 1) /\ n \in m..(n + 1) /\ e <= n + 1
    <3> HIDE DEF n
    <3> QED BY <1>2, <2>1, <2>2
  <2> HIDE DEF R, x, up, w
  <2>5. InLines(up \o R, w, m, n + 1)
    <3>1. n + 1 \in Nat
      BY <1>2
    <3> HIDE DEF n
    <3> QED BY <1>1, <1>2, <1>3, <2>2, <2>3, <2>4, <3>1, MoreLines
  <2> HIDE DEF n
  <2> QED BY <2>1, <2>2, <2>4, <2>5 DEF Unanswered, e
<1>12. ASSUME setting.ahead = 1 PROVE OneAhead(x, d, n + 1)
  <2>1. n = 0 \/ AllReceived(c, n)
    <3>1. n # 0 => n + 1 > setting.ahead /\ (n + 1) - setting.ahead = n
      BY <1>2, <1>12
    <3> QED BY <1>1, <3>1
  <2>2. d = n \/ (d + 1 = n /\ x.rsp = "BODY" /\ x.nread = x.expect)
    BY <1>8, <2>1, CaughtUp
  <2>3. x.inbuf = <<>>
    BY <1>9, <1>12 DEF OneAhead
  <2> HIDE DEF x, n
  <2>4. n + 1 <= d + 1 \/ (n + 1 = d + 2 /\ x.rsp = "BODY" /\ x.nread = x.expect)
    BY <1>2, <1>10, <2>2
  <2> QED BY <2>3, <2>4 DEF OneAhead
<1>13. Fit(x, w, up \o R, Made(c), d, n + 1)
  BY <1>9, <1>11, <1>12 DEF Fit
<1>14. Stands(c, d)'
  BY <1>1, <1>4, <1>6, <1>13 DEF Stands, Fit
<1>15. \E k \in 0..cli'[c].sent : Stands(c, k)'
  BY <1>4, <1>10, <1>14
<1> QED BY <1>1, <1>4, <1>5, <1>15, ClientStands

\* A client takes what has come, and may leave.
LEMMA TakeOrLeaveStands ==
    ASSUME SInv, DInv', NEW c \in Conns, Receive(c) \/ Leave(c)
    PROVE  SInv'
<1>1. /\ cli \in [Conns -> ClientType]
      /\ wire \in [Conns -> [up : Seq(Units), down : Seq(Units)]]
      /\ cli[c].got \in Seq(Units) /\ wire[c].down \in Seq(Units)
  BY Types1 DEF SInv, DInv, Types
<1>2. /\ UNCHANGED <<setting, h, pc, dels, died, odd>> /\ ~cli[c].closed
      /\ cli'[c].sent = cli[c].sent /\ cli'[c].wish = cli[c].wish
      /\ wire'[c].up = wire[c].up
      /\ cli'[c].got \o wire'[c].down = cli[c].got \o wire[c].down
      /\ \A e \in Conns : e # c => cli'[e] = cli[e] /\ wire'[e] = wire[e]
  <2>1. CASE Receive(c)
    <3> DEFINE g == cli[c].got \o wire[c].down
    <3>1. /\ cli' = [cli EXCEPT ![c].got = g] /\ wire' = [wire EXCEPT ![c].down = <<>>]
          /\ UNCHANGED <<setting, h, pc, dels, died, odd>> /\ ~cli[c].closed
      BY <2>1 DEF Receive
    <3>2. g \o <<>> = g
      <4>1. g \in Seq(Units)
        BY <1>1, Concatenation
      <4> HIDE DEF g
      <4> QED BY <4>1
    <3> HIDE DEF g
    <3>3. cli'[c].got = g /\ wire'[c].down = <<>>
      BY <1>1, <3>1 DEF ClientType
    <3>4. cli'[c].sent = cli[c].sent /\ cli'[c].wish = cli[c].wish
          /\ wire'[c].up = wire[c].up
          /\ \A e \in Conns : e # c => cli'[e] = cli[e] /\ wire'[e] = wire[e]
      BY <1>1, <3>1 DEF ClientType
    <3> QED BY <3>1, <3>2, <3>3, <3>4 DEF g
  <2>2. CASE Leave(c)
    BY <1>1, <2>2 DEF Leave, ClientType
  <2> QED BY <2>1, <2>2
<1>3. Made(c)' = Made(c)
  BY <1>2 DEF Made
<1>4. h[c].st # "gone" => \E d \in 0..cli'[c].sent : Stands(c, d)'
  <2> SUFFICES ASSUME h[c].st # "gone" PROVE \E d \in 0..cli'[c].sent : Stands(c, d)'
    OBVIOUS
  <2>1. PICK d \in 0..cli[c].sent : Stands(c, d)
    BY DEF SInv, Standing
  <2>2. Stands(c, d)'
    BY <1>2, <1>3, <2>1 DEF Stands, Fit
  <2> QED BY <1>2, <2>2
<1>5. cli[c].sent <= Len(cli[c].wish) /\ Answered(cli[c].wish, cli[c].sent)
  BY Types1
<1> QED BY <1>2, <1>4, <1>5, ClientStands

\* Nothing was asked for.
LEMMA InitStands == SrvInit => SInv
<1> SUFFICES ASSUME SrvInit PROVE SInv
  OBVIOUS
<1>1. DInv
  BY InitKeeps
<1>2. ASSUME NEW c \in Conns
      PROVE  /\ h[c] = NoHandler /\ wire[c] = [up |-> <<>>, down |-> <<>>] /\ dels[c] = 0
             /\ cli[c].sent = 0 /\ cli[c].got = <<>> /\ cli[c].wish \in Wishes[c]
  BY DEF SrvInit, NoClient
<1>3. died = "no" /\ odd = {}
  BY DEF SrvInit
<1>4. ASSUME NEW c \in Conns
      PROVE  /\ IsWish(cli[c].wish) /\ cli[c].sent <= Len(cli[c].wish)
             /\ Answered(cli[c].wish, cli[c].sent)
  <2>1. PICK w : w = cli[c].wish
    OBVIOUS
  <2>2. w \in Seq([path : Files, first : Int])
        /\ \A k \in 1..Len(w) : w[k].first \in -1..(Size[w[k].path] - 1)
    BY <1>2, <2>1, ServerAssumption
  <2>3. IsWish(w) /\ 0 <= Len(w)
    BY <2>2 DEF IsWish, Reqs
  <2> QED BY <1>2, <2>1, <2>3, NothingAnswered
<1>5. ASSUME NEW c \in Conns PROVE Stands(c, 0)
  <2>1. PICK w : w = cli[c].wish
    OBVIOUS
  <2>2. InLines(<<>>, w, 0, 0)
    BY NoLines
  <2>3. Unanswered(NoHandler, w, <<>>, 0, 0)
    <3>1. /\ NoHandler.queue = <<>> /\ NoHandler.inbuf = <<>> /\ NoHandler.req = "REQ_LINE"
      BY DEF NoHandler
    <3>2. Len(<<>>) = 0 /\ 0 + 0 = 0 /\ 0 \in 0..0 /\ 0 <= 0 /\ 1..0 = {}
      OBVIOUS
    <3> QED BY <2>2, <3>1, <3>2 DEF Unanswered
  <2>4. MadeOf(NoHandler, w, <<>>, 0)
    <3>1. NoHandler.rsp = "META"
      BY DEF NoHandler
    <3> QED BY <3>1, NoAnswers DEF MadeOf
  <2>5. OneAhead(NoHandler, 0, 0)
    BY DEF OneAhead, NoHandler
  <2>6. Made(c) = <<>>
    <3>1. cli[c].got = <<>> /\ wire[c].down = <<>> /\ h[c].outbuf = <<>>
      BY <1>2 DEF NoHandler
    <3> QED BY <3>1 DEF Made
  <2> QED BY <1>2, <2>1, <2>3, <2>4, <2>5, <2>6 DEF Stands, Fit
<1>6. Standing
  <2>1. 0 \in 0..0
    OBVIOUS
  <2> QED BY <1>2, <1>5, <2>1 DEF Standing
<1>7. DeletedAfter
  BY <1>2 DEF DeletedAfter, NoHandler
<1> QED BY <1>1, <1>3, <1>4, <1>6, <1>7 DEF SInv, Wished, Waiting

\* What was made is the beginning of the answers, and what a client has of it the
\* beginning of that.
LEMMA ExactFromInv ==
    ASSUME SInv, NEW c \in Conns, ~cli[c].closed
    PROVE  IsPrefix(cli[c].got \o wire[c].down, Answers(cli[c].wish, cli[c].sent))
<1> DEFINE w == cli[c].wish
           n == cli[c].sent
<1>1. h[c].st # "gone"
  BY DEF SInv, DeletedAfter
<1>2. PICK d \in 0..n : Stands(c, d)
  BY <1>1 DEF SInv, Standing
<1>3. /\ n \in Nat /\ n <= Len(w) /\ IsWish(w) /\ Answered(w, n) /\ d \in Nat /\ d <= n
      /\ h[c].queue \in Seq(Reqs)
  <2>1. n \in Nat
    BY Types1
  <2> QED BY <2>1, Types1
<1>4. PICK a \in Seq(Units), o \in Seq(Units), m \in Seq(Units) :
        /\ a = cli[c].got \o wire[c].down /\ o = h[c].outbuf
        /\ m = Made(c) /\ m = a \o o
  <2>1. PICK g \in Seq(Units), b \in Seq(Units), o \in Seq(Units) :
          g = cli[c].got /\ b = wire[c].down /\ o = h[c].outbuf
    BY Types1
  <2>2. PICK a \in Seq(Units) : a = g \o b
    BY Concatenation
  <2>3. a \o o \in Seq(Units)
    BY Concatenation
  <2> QED BY <2>1, <2>2, <2>3 DEF Made
<1>5. IsPrefix(a, m)
  BY <1>4, PrefixOfConcat
<1>6. PICK B : B = Answers(w, n)
  OBVIOUS
<1>7. B \in Seq(Units) /\ \A k \in 0..n : IsPrefix(Answers(w, k), B)
                       /\ Answers(w, k) \in Seq(Units)
  <2>1. n \in 0..n /\ \A k \in 0..n : k <= n
    BY <1>3
  <2> QED BY <1>3, <1>6, <2>1 DEF Answered
<1>8. Unanswered(h[c], w, wire[c].up, d, n) /\ MadeOf(h[c], w, m, d)
  BY <1>2, <1>4 DEF Stands, Fit
<1>9. IsPrefix(m, B)
  <2>1. CASE h[c].rsp = "META"
    BY <1>2, <1>7, <1>8, <2>1 DEF MadeOf
  <2>2. CASE h[c].rsp # "META"
    <3>1. h[c].rsp = "BODY" /\ h[c].queue # <<>>
      BY <1>8, <2>2 DEF MadeOf
    <3>2. d + 1 <= n
      <4> DEFINE l == Len(h[c].queue)
      <4>1. d + l <= n /\ l \in Nat \ {0}
        BY <1>3, <1>8, <3>1 DEF Unanswered
      <4> HIDE DEF l, n
      <4> QED BY <1>3, <4>1
    <3> DEFINE x == h[c]
    <3> HIDE DEF x
    <3>3. /\ Answers(w, d) \in Seq(Units) /\ Answers(w, d + 1) \in Seq(Units)
          /\ Answer(w[d + 1]) \in Seq(Units) /\ Len(Answer(w[d + 1])) = 1 + x.expect
          /\ m = Answers(w, d) \o SubSeq(Answer(w[d + 1]), 1, 1 + x.nread)
          /\ x.nread \in 0..x.expect /\ x.expect \in Nat
          /\ Answers(w, d + 1) = Answers(w, d) \o Answer(w[d + 1])
      <4>1. x.rsp = "BODY" /\ MadeOf(x, w, m, d)
        BY <1>8, <3>1 DEF x
      <4> HIDE DEF w, n
      <4>2. Within(x, w, m, d)
        BY <1>3, <3>2, <4>1, MadeWithin
      <4> QED BY <4>2, Zenon DEF Within
    <3>a. PICK A \in Seq(Units) : A = Answers(w, d)
      BY <3>3, Zenon
    <3>b. PICK R \in Seq(Units) : R = Answer(w[d + 1])
      BY <3>3, Zenon
    <3>c. PICK E \in Seq(Units) : E = Answers(w, d + 1)
      BY <3>3, Zenon
    <3>d. PICK z \in Nat : z = x.expect
      BY <3>3, Zenon
    <3>e. PICK y \in 0..z : y = x.nread
      BY <3>3, <3>d, Zenon
    <3>f. y \in Nat /\ y <= z
      BY <3>e
    <3>4. /\ A = Answers(w, d) /\ R = Answer(w[d + 1]) /\ E = Answers(w, d + 1)
          /\ z = x.expect /\ y = x.nread /\ y <= z
      BY <3>a, <3>b, <3>c, <3>d, <3>e, <3>f, Zenon
    <3>5. PICK k \in 0..Len(R) : k = 1 + y
      <4>1. PICK l \in Nat : l = Len(R)
        OBVIOUS
      <4>2. l = 1 + z
        BY <3>3, <3>4, <4>1
      <4> HIDE DEF x, n
      <4>3. y <= z
        BY <3>f
      <4>4. 1 + y \in 0..l
        BY <3>f, <4>2
      <4> QED BY <4>1, <4>4
    <3>6. m = A \o SubSeq(R, 1, k) /\ E = A \o R
      BY <3>3, <3>4, <3>5
    <3>7. IsPrefix(m, E)
      BY <3>6, PrefixOfSub
    <3>8. IsPrefix(E, B)
      <4>1. d + 1 \in 0..n
        BY <1>3, <3>2
      <4> QED BY <1>7, <3>4, <4>1
    <3> QED BY <1>7, <3>7, <3>8, PrefixOfPrefix
  <2> QED BY <2>1, <2>2
<1>10. IsPrefix(a, B)
  BY <1>5, <1>7, <1>9, PrefixOfPrefix
<1> QED BY <1>4, <1>6, <1>10

-----------------------------------------------------------------------------
(* Responses are exact.                                                    *)

\* Every step keeps SInv, but one that reads a part of what was sent.
LEMMA StepStandsAll ==
    ASSUME MaxPipeline = 1, SInv, "split" \notin odd', [SrvNext]_srvVars
    PROVE  SInv'
<1>2. DInv'
  BY StepKeeps DEF SInv
<1>3. ASSUME NEW c \in Conns, Accept(c) PROVE SInv'
  BY <1>2, <1>3, AcceptStands
<1>4. CASE (\E c \in Conns : SrvReady(c)) \/ FillBody \/ FillEnds \/ SendEnds
  BY <1>2, <1>4, MoveStands
<1>5. CASE RecvFromClient
  BY <1>2, <1>5, RecvStands, MaxPipeline = 1, "split" \notin odd'
<1>6. CASE AddMore
  BY <1>2, <1>6, AddMoreStands
<1>7. CASE FillMeta
  BY <1>2, <1>7, FillMetaStands
<1>8. CASE ReadBlock
  BY <1>2, <1>8, ReadBlockStands
<1>9. CASE SendMore
  BY <1>2, <1>9, SendMoreStands
<1>10. CASE WriteFails
  BY <1>2, <1>10, WriteFailsStands
<1>11. CASE Delete
  BY <1>2, <1>11, DeleteStands
<1>12. ASSUME NEW c \in Conns, Ask(c) PROVE SInv'
  BY <1>2, <1>12, AskStands
<1>13. ASSUME NEW c \in Conns, Receive(c) \/ Leave(c) PROVE SInv'
  BY <1>2, <1>13, TakeOrLeaveStands
<1>14. CASE UNCHANGED srvVars
  <2>1. UNCHANGED <<setting, h, cli, wire, pc, dels, died, odd>>
    BY <1>14 DEF srvVars
  <2>2. DeletedAfter' /\ Waiting'
    BY <2>1 DEF SInv, DeletedAfter, Waiting
  <2> QED BY <1>2, <2>1, <2>2, SameStands
<1> QED BY <1>3, <1>4, <1>5, <1>6, <1>7, <1>8, <1>9, <1>10, <1>11, <1>12, <1>13, <1>14
        DEF SrvNext, ServerStep, Handling, ClientStep

\* SInv holds as long as what was sent is read at once.
SUntil == "split" \notin odd => SInv

\* What has happened stays.
LEMMA OddStays ==
    ASSUME [SrvNext]_srvVars
    PROVE  odd \subseteq odd'
<1>1. odd' = odd \/ \E f, so : Odd(f, so)
  BY DEF SrvNext, ServerStep, Handling, ClientStep, srvVars, Accept, SrvReady, RecvFromClient,
         AddMore, FillMeta, FillBody, FillEnds, ReadBlock, SendMore, WriteFails, SendEnds,
         Delete, Ask, Receive, Leave
<1> QED BY <1>1 DEF Odd

LEMMA AlwaysStands ==
    ASSUME MaxPipeline = 1
    PROVE  SrvSpec => []SUntil
<1>1. SrvInit => SUntil
  BY InitStands DEF SUntil
<1>2. SUntil /\ [SrvNext]_srvVars => SUntil'
  <2> SUFFICES ASSUME SUntil, [SrvNext]_srvVars, "split" \notin odd' PROVE SInv'
    BY DEF SUntil
  <2>1. SInv
    BY OddStays DEF SUntil
  <2> QED BY <2>1, StepStandsAll, MaxPipeline = 1
<1> QED BY <1>1, <1>2, PTL DEF SrvSpec

\* As long as the server reads all that was sent at once, what a client receives and
\* what is on its way to it is the beginning of the answers to what it has asked for,
\* in order, however far it sends ahead of them: through the lines in inbuf, the
\* request in the queue, the seek and the blocks of the file, outbuf and the writes of
\* a part of it.  When a part is read that ends between a request and its range the
\* code may answer another part of the file.
THEOREM ResponsesAreExact ==
    ASSUME MaxPipeline = 1
    PROVE  SrvSpec => []ResponsesExact
<1>1. SrvSpec => []SUntil
  BY AlwaysStands, MaxPipeline = 1
<1>2. SUntil => ResponsesExact
  BY ExactFromInv DEF SUntil, ResponsesExact
<1> QED BY <1>1, <1>2, PTL

\* An assertion of the server fails, or a handler is freed twice, in four ways only,
\* and each of them only after the one event that the code is not written for: the
\* range without a request after a part was read of what was sent, a second request in
\* the queue after a burst that ended with the next request read, the front() of an
\* empty queue and the second deletion after a write failed that followed the last
\* file.  That all of a file is read when its end is seen holds whatever happens.
THEOREM ServerStaysUp ==
    ASSUME MaxPipeline = 1
    PROVE  SrvSpec => []ServerNeverAborts
<1>1. SrvSpec => []SUntil /\ []LInv
  BY AlwaysStands, AlwaysLives, MaxPipeline = 1, PTL
<1>2. SUntil /\ LInv => ServerNeverAborts
  <2> SUFFICES ASSUME SUntil, LInv, died # "no"
               PROVE  died \in DOMAIN DiesAfter /\ DiesAfter[died] \in odd
    BY DEF ServerNeverAborts
  <2>1. died \in DOMAIN DiesAfter /\ (died # "back" => DiesAfter[died] \in odd)
    BY DEF LInv, Fates
  <2>2. died = "back" => "split" \in odd
    BY DEF SUntil, SInv, Waiting
  <2>3. DiesAfter["back"] = "split"
    BY DEF DiesAfter
  <2> QED BY <2>1, <2>2, <2>3
<1> QED BY <1>1, <1>2, PTL

\* Of a client that waits for each answer before it asks again, and whose requests are
\* read at once, no burst ends with the next request read, so that the assertion on
\* the queue holds.
NoBurst == setting.ahead = 1 /\ "split" \notin odd => "burst" \notin odd
THEOREM OneAtATime ==
    ASSUME MaxPipeline = 1
    PROVE  SrvSpec => []NoBurst
<1>1. SrvSpec => []SUntil
  BY AlwaysStands, MaxPipeline = 1
<1>2. SUntil => NoBurst
  BY DEF SUntil, SInv, Waiting, NoBurst
<1> QED BY <1>1, <1>2, PTL
=============================================================================
