-------------------------- MODULE WebClientProofs ---------------------------
(***************************************************************************)
(* Machine-checked proofs about the web client, for any page, any number   *)
(* of connections, and whatever fails.  WebInv says where every request    *)
(* is and what every connection has still to read.                         *)
(***************************************************************************)
EXTENDS WebClient, TLAPS, SequenceTheorems, FiniteSetTheorems, WellFoundedInduction

-----------------------------------------------------------------------------
(* What the variables are.                                                 *)

Kinds == {"status", "length", "range", "blank", "body", "greet", "grant", "refuse"}
Units == [kind : Kinds, val : Int]
Sts == {"none", "CONNECTING", "CONNECTED"}
SocksStates == {"SOCKS5_NONE", "SOCKS5_GREETING", "SOCKS5_WRITE_REQUEST_NEXT",
                "SOCKS5_READ_RESP_NEXT"}
Rsps == {"STATUS_LINE", "HEADERS", "BODY"}
Mevs == {"INIT", "CONNECTING", "CONNECTED"}
CbNames == {"NULL", "socks", "http"}
Places == Hosts \cup {"none"}
Conns ==
    [st : Sts, host : Places, socks : SocksStates, sub : Seq(Urls), act : Seq(Urls),
     first : Nat, out : BOOLEAN, rsp : Rsps, blen : Int, ranged : BOOLEAN, mev : Mevs,
     readcb : CbNames, writecb : CbNames, wen : BOOLEAN, todo : Seq(Units),
     inp : Seq(Units), up : BOOLEAN, closed : BOOLEAN]
Servers == [reqs : Seq(Urls), conns : Seq(ConnIds)]
Requests == [retries : Nat, first : Nat, size : Nat]
LoadStates == {"SB_INIT", "SB_FETCHING_DOCUMENT", "SB_DONE_DOCUMENT",
               "SB_FETCHING_EMBEDDED", "SB_DONE"}
Results == {"VR_NONE", "VR_SUCCESS", "VR_FAIL"}
Browsers ==
    [state : LoadStates, notified : BOOLEAN, loadnum : Nat, vr : Results, html : BOOLEAN,
     expected : SUBSET Urls, pending : SUBSET Urls, embedded : SUBSET Urls,
     received : SUBSET Urls]
Reasons ==
    {"no", "unusable", "connect", "write-enabled", "no-server", "not-listed",
     "notified-twice", "requested-twice", "not-embedded", "pending-at-reset", "not-notified",
     "pending", "content-range", "empty-body", "first-byte-pos", "proxy-closed"}
Reports == {"none", "success", "FAILED", "timedout"}
States ==
    [b : Browsers, conn : [ConnIds -> Conns], srv : [Hosts -> Servers],
     req : [Urls -> Requests], cbs : Seq(Nat), nap : BOOLEAN, timers : Seq(Nat),
     timed : BOOLEAN, proxy : BOOLEAN, persist : Nat, abort : Reasons, lost : SUBSET Urls,
     misplaced : BOOLEAN, report : Reports]

-----------------------------------------------------------------------------
(* The invariant.                                                          *)

In(q) == {q[k] : k \in 1..Len(q)}
Distinct(q) == \A j, k \in 1..Len(q) : q[j] = q[k] => j = k

\* The connections that servers have, and what a connection has to do.
Lives(t) == {i \in ConnIds : \E h \in Hosts : i \in In(t.srv[h].conns)}
On(c) == In(c.sub) \cup In(c.act)

\* The requests that are somewhere.
Waits(t) == {u \in Urls : u \in In(t.srv[Host[u]].reqs)}
Rides(t) == {u \in Urls : \E i \in Lives(t) : u \in On(t.conn[i])}
Under(t) == Waits(t) \cup Rides(t)

\* The connections of a server are its own.
Listing(t) ==
    \A h \in Hosts :
        /\ Distinct(t.srv[h].conns)
        /\ \A i \in In(t.srv[h].conns) : t.conn[i].st # "none" /\ t.conn[i].host = h

\* A connection that no server has is about to be deleted, once.
Once(q) == \A j, k \in 1..Len(q) : q[j] = q[k] /\ q[j] # 0 => j = k
Doomed(t) ==
    /\ Once(t.cbs)
    /\ In(t.cbs) \subseteq ConnIds \cup {0}
    /\ \A i \in ConnIds : i \in In(t.cbs) => t.conn[i].st # "none" /\ i \notin Lives(t)
    /\ \A i \in ConnIds : t.conn[i].st # "none" => i \in Lives(t) \/ i \in In(t.cbs)

\* There is always another Connection object.
Blank(t) == \A i \in ConnIds : t.conn[i].st = "none" => t.conn[i] = NoConn
Finite(t) == \E n \in Nat : \A i \in ConnIds : i > n => t.conn[i].st = "none"

\* A request is in one place.
Queues(t) ==
    \A h \in Hosts :
        /\ Distinct(t.srv[h].reqs)
        /\ \A u \in In(t.srv[h].reqs) : Host[u] = h
Tidy(c) ==
    Distinct(c.sub) /\ Len(c.act) <= 1 /\ In(c.sub) \cap In(c.act) = {}
Loads(t) ==
    \A i \in Lives(t) :
        /\ Tidy(t.conn[i])
        /\ \A u \in On(t.conn[i]) :
              Host[u] = t.conn[i].host /\ u \notin In(t.srv[t.conn[i].host].reqs)
Apart(t) == \A i, j \in Lives(t) : i # j => On(t.conn[i]) \cap On(t.conn[j]) = {}

Sound(t) ==
    Listing(t) /\ Doomed(t) /\ Blank(t) /\ Finite(t) /\ Queues(t) /\ Loads(t) /\ Apart(t)

\* What a request that is not yet sent asks for: what is missing of its body.
Asks(r, u) == r.first = r.size /\ r.size < Size[u]

Header(f) == IF f > 0 THEN 4 ELSE 3
Lasts(u, f) == Header(f) + Size[u] - f

\* q is what is still to come of the response to u from position p on, which has been
\* received up to there.
Reading(c, r, u, p, q) ==
    /\ ~c.out /\ c.first < Size[u] /\ r.first = c.first /\ p \in 1..Lasts(u, c.first)
    /\ Len(q) <= Lasts(u, c.first) - p + 1
    /\ \A j \in 1..Len(q) : q[j] = Response(u, c.first)[p + j - 1]
    /\ p > 2 => c.blen = Size[u] - r.size
    /\ r.size = c.first + (IF p > Header(c.first) THEN p - Header(c.first) - 1 ELSE 0)

\* The request under way is not sent yet.
Unsent(c, req) ==
    /\ c.out <=> c.act # <<>>
    /\ c.act # <<>> => Asks(req[c.act[1]], c.act[1]) /\ c.first = req[c.act[1]].size

\* The handshake with a proxy.
Shaking(c) ==
    /\ c.writecb # "http" /\ c.st = "CONNECTING"
    /\ Len(c.inp) + Len(c.todo) <= 1
    /\ c.readcb = "NULL" => c.inp = <<>> /\ c.todo = <<>>
    /\ c.writecb = "socks" => c.readcb = "NULL"
    /\ c.mev = "CONNECTING" => c.readcb = "NULL"
    /\ \A k \in 1..Len(c.inp) : c.inp[k].kind \in {"greet", "grant", "refuse"}
    /\ \A k \in 1..Len(c.todo) : c.todo[k].kind \in {"greet", "grant", "refuse"}

\* A connection to the server, with q still to be read.
Flow(c, req, q) ==
    \/ Unsent(c, req) /\ q = <<>>
    \/ c.act # <<>> /\ \E p \in Nat : Reading(c, req[c.act[1]], c.act[1], p, q)

Steady(c, req, proxy) ==
    /\ \A u \in In(c.sub) : Asks(req[u], u)
    /\ \/ /\ c.readcb = "http" /\ c.writecb # "socks" /\ (c.mev = "CONNECTING" => ~proxy)
          /\ Flow(c, req, c.inp \o c.todo)
       \/ c.readcb # "http" /\ proxy /\ Shaking(c) /\ Unsent(c, req)

\* All connections, and all that waits.
Flows(t) ==
    /\ \A h \in Hosts : \A u \in In(t.srv[h].reqs) : Asks(t.req[u], u)
    /\ \A i \in Lives(t) : Steady(t.conn[i], t.req, t.proxy)

\* The requests P are those that are somewhere and those that were lost.
Counted(t, P) ==
    /\ P \subseteq Urls
    /\ Under(t) \cup t.lost \subseteq P /\ t.lost \cap Under(t) = {}
    /\ t.abort = "no" => P \subseteq Under(t) \cup t.lost

\* A state of the process between two things it does, P being the requests that
\* are somewhere.
Good(t, P) == t \in States /\ ~t.misplaced /\ Sound(t) /\ Flows(t) /\ Counted(t, P)

\* Between two loads nothing is waited for.
Rested(t) == t.b.state = "SB_INIT" => t.b.pending = {}

\* A process that has not failed, and the events it has not handled.
WebInv ==
    /\ s \in States /\ ~s.misplaced
    /\ batch \in SUBSET [i : ConnIds, what : SUBSET {"IN", "OUT"}]
    /\ s.abort = "no" =>
          /\ Good(s, s.b.pending) /\ Rested(s)
          /\ \A e \in batch : e.i \in Lives(s)
          /\ \A d, e \in batch : d.i = e.i => d = e

-----------------------------------------------------------------------------
(* Sequences.                                                              *)

\* The empty sequence has no elements, and only it.
LEMMA InEmpty ==
    /\ In(<<>>) = {} /\ Distinct(<<>>)
    /\ \A S : \A q \in Seq(S) : In(q) = {} => q = <<>>
    /\ \A S : \A q \in Seq(S) : In(q) \subseteq S
<1>1. In(<<>>) = {} /\ Distinct(<<>>)
  BY DEF In, Distinct
<1>2. ASSUME NEW S, NEW q \in Seq(S), In(q) = {} PROVE q = <<>>
  <2>1. q # <<>> => q[1] \in In(q)
    BY DEF In
  <2> QED BY <1>2, <2>1
<1>3. ASSUME NEW S, NEW q \in Seq(S) PROVE In(q) \subseteq S
  BY DEF In
<1> QED BY <1>1, <1>2, <1>3

\* An element that is appended is one more.
LEMMA InAppend ==
    ASSUME NEW S, NEW q \in Seq(S), NEW x \in S
    PROVE  /\ Append(q, x) \in Seq(S)
           /\ In(Append(q, x)) = In(q) \cup {x}
           /\ Distinct(q) /\ x \notin In(q) => Distinct(Append(q, x))
           /\ Append(q, x) # <<>>
<1> DEFINE r == Append(q, x)
<1>1. r \in Seq(S) /\ Len(r) = Len(q) + 1 /\ r[Len(q) + 1] = x
  OBVIOUS
<1>2. \A k \in 1..Len(q) : r[k] = q[k]
  OBVIOUS
<1>3. In(r) = In(q) \cup {x}
  <2> HIDE DEF r
  <2>1. Len(q) \in Nat
    OBVIOUS
  <2>2. ASSUME NEW y \in In(r) PROVE y \in In(q) \cup {x}
    <3>1. PICK k \in 1..Len(r) : y = r[k]
      BY <2>2 DEF In
    <3>2. k \in 1..Len(q) \/ k = Len(q) + 1
      BY <1>1, <2>1
    <3> QED BY <1>1, <1>2, <3>1, <3>2 DEF In
  <2>3. ASSUME NEW y \in In(q) \cup {x} PROVE y \in In(r)
    <3>1. CASE y = x
      <4>1. Len(q) + 1 \in 1..Len(r)
        BY <1>1, <2>1
      <4> QED BY <4>1, <1>1, <3>1 DEF In
    <3>2. CASE y \in In(q)
      <4>1. PICK k \in 1..Len(q) : y = q[k]
        BY <3>2 DEF In
      <4>2. k \in 1..Len(r)
        BY <1>1, <2>1
      <4> QED BY <1>2, <4>1, <4>2 DEF In
    <3> QED BY <2>3, <3>1, <3>2
  <2> QED BY <2>2, <2>3
<1>4. ASSUME Distinct(q), x \notin In(q) PROVE Distinct(r)
  <2> HIDE DEF r
  <2>1. Len(q) \in Nat
    OBVIOUS
  <2>2. \A k \in 1..Len(q) : q[k] # x
    BY <1>4 DEF In
  <2>3. SUFFICES ASSUME NEW j \in 1..Len(r), NEW k \in 1..Len(r), r[j] = r[k] PROVE j = k
    BY DEF Distinct
  <2>4. (j \in 1..Len(q) \/ j = Len(q) + 1) /\ (k \in 1..Len(q) \/ k = Len(q) + 1)
    BY <1>1, <2>1
  <2> QED BY <1>1, <1>2, <1>4, <2>2, <2>3, <2>4 DEF Distinct
<1> QED BY <1>1, <1>3, <1>4

\* The head and the tail of a sequence.
LEMMA InTail ==
    ASSUME NEW S, NEW q \in Seq(S), q # <<>>
    PROVE  /\ Head(q) \in S /\ Head(q) = q[1] /\ Head(q) \in In(q)
           /\ Tail(q) \in Seq(S) /\ Len(Tail(q)) = Len(q) - 1
           /\ In(q) = {Head(q)} \cup In(Tail(q))
           /\ Distinct(q) => Distinct(Tail(q)) /\ Head(q) \notin In(Tail(q))
<1>1. Head(q) \in S /\ Head(q) = q[1] /\ Tail(q) \in Seq(S) /\ Len(Tail(q)) = Len(q) - 1
      /\ Len(q) \in Nat \ {0}
  OBVIOUS
<1>2. \A k \in 1..Len(Tail(q)) : Tail(q)[k] = q[k + 1]
  OBVIOUS
<1> DEFINE r == Tail(q)
<1>3. Head(q) \in In(q)
  BY <1>1 DEF In
<1> HIDE DEF r
<1>4. Len(r) = Len(q) - 1 /\ \A k \in 1..Len(r) : r[k] = q[k + 1]
  BY <1>1, <1>2 DEF r
<1>5. ASSUME NEW y \in In(q) PROVE y \in {Head(q)} \cup In(r)
  <2>1. PICK k \in 1..Len(q) : y = q[k]
    BY <1>5 DEF In
  <2>2. k = 1 \/ (k - 1 \in 1..Len(r) /\ (k - 1) + 1 = k)
    BY <1>1, <1>4
  <2>3. k # 1 => r[k - 1] = q[k]
    BY <1>4, <2>2
  <2> QED BY <1>1, <2>1, <2>2, <2>3 DEF In
<1>6. ASSUME NEW y \in In(r) PROVE y \in In(q)
  <2>1. PICK k \in 1..Len(r) : y = r[k]
    BY <1>6 DEF In
  <2>2. k + 1 \in 1..Len(q)
    BY <1>1, <1>4
  <2> QED BY <1>4, <2>1, <2>2 DEF In
<1>7. ASSUME Distinct(q) PROVE Distinct(r) /\ Head(q) \notin In(r)
  <2>1. \A k \in 1..Len(r) : k + 1 \in 1..Len(q) /\ k \in Int
    BY <1>1, <1>4
  <2>2. ASSUME NEW j \in 1..Len(r), NEW k \in 1..Len(r), r[j] = r[k] PROVE j = k
    <3>1. j + 1 = k + 1
      BY <1>4, <1>7, <2>1, <2>2 DEF Distinct
    <3> QED BY <2>1, <3>1
  <2>3. ASSUME NEW k \in 1..Len(r), r[k] = q[1] PROVE FALSE
    <3>1. 1 \in 1..Len(q)
      BY <1>1
    <3>2. k + 1 = 1
      BY <1>4, <1>7, <2>1, <2>3, <3>1 DEF Distinct
    <3> QED BY <3>2
  <2> QED BY <1>1, <2>2, <2>3 DEF Distinct, In
<1> QED BY <1>1, <1>3, <1>5, <1>6, <1>7 DEF r

\* What is in a concatenation.
LEMMA InConcat ==
    ASSUME NEW S, NEW p \in Seq(S), NEW q \in Seq(S)
    PROVE  /\ p \o q \in Seq(S)
           /\ In(p \o q) = In(p) \cup In(q)
           /\ Once(p) /\ Once(q) /\ In(p) \cap In(q) \subseteq {0} => Once(p \o q)
<1> DEFINE r == p \o q
<1>1. r \in Seq(S) /\ Len(r) = Len(p) + Len(q) /\ Len(p) \in Nat /\ Len(q) \in Nat
  OBVIOUS
<1>2. \A k \in 1..Len(r) : r[k] = IF k <= Len(p) THEN p[k] ELSE q[k - Len(p)]
  OBVIOUS
<1> HIDE DEF r
<1>3. \A k \in 1..Len(r) : k <= Len(p) => k \in 1..Len(p) /\ r[k] = p[k]
  BY <1>1, <1>2
<1>4. \A k \in 1..Len(r) : ~ (k <= Len(p)) => k - Len(p) \in 1..Len(q) /\ r[k] = q[k - Len(p)]
  BY <1>1, <1>2
<1>5. \A k \in 1..Len(p) : k \in 1..Len(r) /\ r[k] = p[k]
  BY <1>1, <1>2
<1>6. \A k \in 1..Len(q) : k + Len(p) \in 1..Len(r) /\ r[k + Len(p)] = q[k]
  <2> TAKE k \in 1..Len(q)
  <2>1. k + Len(p) \in 1..Len(r) /\ ~(k + Len(p) <= Len(p)) /\ (k + Len(p)) - Len(p) = k
    BY <1>1
  <2> QED BY <1>2, <2>1
<1>7. In(r) = In(p) \cup In(q)
  <2>1. ASSUME NEW y \in In(r) PROVE y \in In(p) \cup In(q)
    BY <1>3, <1>4, <2>1 DEF In
  <2>2. ASSUME NEW y \in In(p) \cup In(q) PROVE y \in In(r)
    <3>1. CASE y \in In(p)
      BY <1>5, <3>1 DEF In
    <3>2. CASE y \in In(q)
      BY <1>6, <3>2 DEF In
    <3> QED BY <2>2, <3>1, <3>2
  <2> QED BY <2>1, <2>2
<1>8. ASSUME Once(p), Once(q), In(p) \cap In(q) \subseteq {0} PROVE Once(r)
  <2> SUFFICES ASSUME NEW j \in 1..Len(r), NEW k \in 1..Len(r), r[j] = r[k], r[j] # 0
               PROVE  j = k
    BY DEF Once
  <2>1. \A m \in 1..Len(r) : m <= Len(p) => r[m] \in In(p)
    BY <1>3 DEF In
  <2>2. \A m \in 1..Len(r) : ~(m <= Len(p)) => r[m] \in In(q)
    BY <1>4 DEF In
  <2>3. (j <= Len(p)) <=> (k <= Len(p))
    BY <1>8, <2>1, <2>2
  <2>4. CASE j <= Len(p)
    BY <1>3, <1>8, <2>3, <2>4 DEF Once
  <2>5. CASE ~ (j <= Len(p))
    <3>1. j - Len(p) = k - Len(p)
      BY <1>4, <1>8, <2>3, <2>5 DEF Once
    <3> QED BY <1>1, <3>1
  <2> QED BY <2>4, <2>5
<1> QED BY <1>1, <1>7, <1>8 DEF r

\* A set of natural numbers has a least element.
LEMMA Least ==
    ASSUME NEW S, S \subseteq Nat, S # {}
    PROVE  \E k \in S : \A j \in S : k <= j
<1> DEFINE R == {ss \in Nat \X Nat : ss[1] < ss[2]}
<1>1. IsWellFoundedOn(R, Nat)
  BY NatLessThanWellFounded DEF OpToRel
<1>2. PICK k \in S : \A j \in S : ~ (<<j, k>> \in R)
  <2> HIDE DEF R
  <2> QED BY <1>1, WFMin
<1>3. ASSUME NEW j \in S PROVE k <= j
  <2>1. j \in Nat /\ k \in Nat /\ ~ (j < k)
    BY <1>2
  <2> QED BY <2>1
<1> QED BY <1>3

\* Min is one of them.
LEMMA MinIn ==
    ASSUME NEW S, S \subseteq Nat, S # {}
    PROVE  Min(S) \in S
BY Least DEF Min

\* Removing an element of a sequence that has it once.
LEMMA Removed ==
    ASSUME NEW S, NEW q \in Seq(S), Distinct(q), NEW x \in In(q)
    PROVE  /\ RemoveFirst(q, x) \in Seq(S)
           /\ In(RemoveFirst(q, x)) = In(q) \ {x}
           /\ Distinct(RemoveFirst(q, x))
<1> DEFINE I == {k \in 1..Len(q) : q[k] = x}
<1>1. I # {} /\ I \subseteq Nat
  BY DEF In
<1>2. Min(I) \in I
  <2> HIDE DEF I
  <2> QED BY <1>1, MinIn
<1>3. SelectInSeq(q, LAMBDA v : v = x) = Min(I)
  BY <1>1 DEF SelectInSeq
<1> DEFINE m == Min(I)
<1>4. m \in 1..Len(q) /\ q[m] = x
  BY <1>2
<1>5. RemoveFirst(q, x) = SubSeq(q, 1, m - 1) \o SubSeq(q, m + 1, Len(q))
  BY <1>3, <1>4 DEF RemoveFirst, RemoveAt
<1> HIDE DEF m, I
<1> DEFINE a == SubSeq(q, 1, m - 1)
           b == SubSeq(q, m + 1, Len(q))
           r == a \o b
<1>6. Len(q) \in Nat /\ a \in Seq(S) /\ b \in Seq(S) /\ Len(a) = m - 1 /\ Len(b) = Len(q) - m
  BY <1>4
<1>7. (\A k \in 1..(m - 1) : a[k] = q[k]) /\ (\A k \in 1..(Len(q) - m) : b[k] = q[m + k])
  BY <1>4
<1> HIDE DEF a, b
<1>8. r \in Seq(S) /\ Len(r) = Len(q) - 1
  BY <1>4, <1>6
<1>9. \A k \in 1..Len(r) : r[k] = IF k < m THEN q[k] ELSE q[k + 1]
  <2> TAKE k \in 1..Len(r)
  <2>1. r[k] = IF k <= Len(a) THEN a[k] ELSE b[k - Len(a)]
    BY <1>6, <1>8
  <2>2. CASE k < m
    <3>1. k <= m - 1 /\ k \in 1..(m - 1)
      BY <1>4, <1>8, <2>2
    <3> QED BY <1>6, <1>7, <2>1, <2>2, <3>1
  <2>3. CASE ~(k < m)
    <3>1. ~(k <= m - 1) /\ k - (m - 1) \in 1..(Len(q) - m) /\ m + (k - (m - 1)) = k + 1
      BY <1>4, <1>6, <1>8, <2>3
    <3> QED BY <1>6, <1>7, <2>1, <2>3, <3>1
  <2> QED BY <2>2, <2>3
<1> HIDE DEF r
<1>10. \A k \in 1..Len(r) :
          \E n \in 1..Len(q) : n # m /\ r[k] = q[n] /\ n = IF k < m THEN k ELSE k + 1
  <2> TAKE k \in 1..Len(r)
  <2>1. CASE k < m
    <3>1. k \in 1..Len(q) /\ k # m
      BY <1>4, <1>6, <1>8, <2>1
    <3> QED BY <1>9, <2>1, <3>1
  <2>2. CASE ~(k < m)
    <3>1. k + 1 \in 1..Len(q) /\ k + 1 # m
      BY <1>4, <1>6, <1>8, <2>2
    <3> QED BY <1>9, <2>2, <3>1
  <2> QED BY <2>1, <2>2
<1>11. \A n \in 1..Len(q) : n # m => \E k \in 1..Len(r) : r[k] = q[n]
  <2> TAKE n \in 1..Len(q)
  <2> HAVE n # m
  <2>1. CASE n < m
    <3>1. n \in 1..Len(r)
      BY <1>4, <1>6, <1>8, <2>1
    <3> QED BY <1>9, <2>1, <3>1
  <2>2. CASE n > m
    <3>1. n - 1 \in 1..Len(r) /\ ~(n - 1 < m) /\ (n - 1) + 1 = n
      BY <1>4, <1>6, <1>8, <2>2
    <3> QED BY <1>9, <3>1
  <2> QED BY <1>4, <1>6, <2>1, <2>2
<1>12. In(r) = In(q) \ {x}
  <2>1. ASSUME NEW y \in In(r) PROVE y \in In(q) \ {x}
    <3>1. PICK k \in 1..Len(r) : y = r[k]
      BY <2>1 DEF In
    <3>2. PICK n \in 1..Len(q) : n # m /\ r[k] = q[n]
      BY <1>10
    <3>3. q[n] # x
      BY <1>4, <3>2 DEF Distinct
    <3> QED BY <3>1, <3>2, <3>3 DEF In
  <2>2. ASSUME NEW y \in In(q), y # x PROVE y \in In(r)
    <3>1. PICK n \in 1..Len(q) : y = q[n]
      BY <2>2 DEF In
    <3>2. n # m
      BY <1>4, <2>2, <3>1
    <3> QED BY <1>11, <3>1, <3>2 DEF In
  <2> QED BY <2>1, <2>2
<1>13. Distinct(r)
  <2> SUFFICES ASSUME NEW j \in 1..Len(r), NEW k \in 1..Len(r), r[j] = r[k] PROVE j = k
    BY DEF Distinct
  <2>1. (IF j < m THEN j ELSE j + 1) = (IF k < m THEN k ELSE k + 1)
    BY <1>10 DEF Distinct
  <2> QED BY <1>4, <1>8, <2>1
<1> QED BY <1>5, <1>8, <1>12, <1>13 DEF r, a, b

\* A finite set of connections as a sequence.
LEMMA Listed ==
    ASSUME NEW S, S \subseteq Nat, IsFiniteSet(S), 0 \notin S
    PROVE  SetToSeq(S) \in Seq(S) /\ In(SetToSeq(S)) = S /\ Once(SetToSeq(S))
<1> DEFINE n == Cardinality(S)
<1>1. n \in Nat
  BY FS_CardinalityType
<1>2. PICK f : f \in Bijection(1..n, S)
  BY <1>1, FS_CardinalityType DEF ExistsBijection
<1>3. f \in [1..n -> S] /\ IsInjective(f)
  BY <1>2 DEF Bijection, Injection, Surjection, IsInjective
<1> DEFINE g == SetToSeq(S)
<1>4. g \in [1..n -> S] /\ IsInjective(g)
  BY <1>3 DEF SetToSeq
<1> HIDE DEF g
<1>5. g \in Seq(S) /\ Len(g) = n
  BY <1>1, <1>4
<1>6. \A x \in S : \E k \in 1..n : g[k] = x
  <2>1. IsFiniteSet(1..n) /\ Cardinality(1..n) = n
    BY <1>1, FS_Interval
  <2> DEFINE R == {g[k] : k \in 1..n}
  <2>2. g \in Bijection(1..n, R)
    BY <1>4 DEF Bijection, Injection, Surjection, IsInjective
  <2>3. IsFiniteSet(R) /\ Cardinality(R) = n
    <3>1. ExistsBijection(1..n, R)
      BY <2>2 DEF ExistsBijection
    <3> HIDE DEF R
    <3> QED BY <2>1, <3>1, FS_Bijection
  <2>4. R \subseteq S
    BY <1>4
  <2>5. R = S
    <3> HIDE DEF R
    <3> QED BY <2>3, <2>4, FS_Subset
  <2> QED BY <2>5
<1>7. In(g) = S
  BY <1>4, <1>5, <1>6 DEF In
<1>8. Once(g)
  BY <1>4, <1>5 DEF Once, IsInjective
<1>9. S \subseteq Nat
  OBVIOUS
<1> QED BY <1>5, <1>7, <1>8 DEF g

\* Induction up to n.
LEMMA Climb ==
    ASSUME NEW n \in Nat, NEW T, 0 \in T, \A k \in 1..n : k - 1 \in T => k \in T
    PROVE  \A k \in 0..n : k \in T
<1> DEFINE S == {k \in 0..n : k \notin T}
<1> SUFFICES ASSUME S # {} PROVE FALSE
  OBVIOUS
<1>1. PICK k \in S : \A j \in S : k <= j
  <2>1. S \subseteq Nat
    OBVIOUS
  <2> HIDE DEF S
  <2> QED BY <2>1, Least
<1>2. k \in 1..n /\ k - 1 \in 0..n /\ ~(k <= k - 1)
  BY <1>1
<1> QED BY <1>1, <1>2

\* A recursive function over 0..n exists, if each step leads from one set of values to
\* the next.
Steps(n, T, F) == \A k \in 1..n : F[k] \in [T[k - 1] -> T[k]]
Folded(f, n, T, F, base) ==
    /\ f = [k \in 0..n |-> IF k = 0 THEN base ELSE F[k][f[k - 1]]]
    /\ \A k \in 0..n : f[k] \in T[k]

LEMMA Folds ==
    ASSUME NEW n \in Nat, NEW T, NEW F, NEW base \in T[0], Steps(n, T, F)
    PROVE  \E f : Folded(f, n, T, F, base)
<1> USE DEF Steps, Folded
<1> DEFINE Is(f, m) == /\ f = [k \in 0..m |-> IF k = 0 THEN base ELSE F[k][f[k - 1]]]
                       /\ \A k \in 0..m : f[k] \in T[k]
           S == {m \in 0..n : \E f : Is(f, m)}
<1>1. 0 \in S
  <2> DEFINE f == [k \in 0..0 |-> base]
  <2>1. \A k \in 0..0 : k = 0
    OBVIOUS
  <2>2. f = [k \in 0..0 |-> IF k = 0 THEN base ELSE F[k][f[k - 1]]]
    BY <2>1
  <2>3. Is(f, 0)
    BY <2>1, <2>2
  <2>4. 0 \in 0..n
    OBVIOUS
  <2> HIDE DEF f
  <2>5. \E ff : Is(ff, 0)
    BY <2>3
  <2> HIDE DEF Is
  <2> QED BY <2>4, <2>5
<1>2. ASSUME NEW m \in 1..n, m - 1 \in S PROVE m \in S
  <2>1. PICK f : Is(f, m - 1)
    BY <1>2
  <2> DEFINE g == [k \in 0..m |-> IF k = m THEN F[m][f[m - 1]] ELSE f[k]]
  <2>2. m - 1 \in 0..(m - 1) /\ \A k \in 0..m : k # m => k \in 0..(m - 1)
    OBVIOUS
  <2>3. \A k \in 0..(m - 1) : k \in 0..m /\ k # m
    OBVIOUS
  <2>4. F[m][f[m - 1]] \in T[m]
    BY <2>1, <2>2
  <2>5. \A k \in 0..(m - 1) : g[k] = f[k]
    BY <2>3
  <2>6. \A k \in 0..m : g[k] \in T[k]
    BY <2>1, <2>2, <2>4, <2>5
  <2>7. \A k \in 0..m : k # 0 => k - 1 \in 0..(m - 1)
    OBVIOUS
  <2>8. ASSUME NEW k \in 0..m
        PROVE  g[k] = IF k = 0 THEN base ELSE F[k][g[k - 1]]
    <3>1. CASE k = m
      BY <2>2, <2>5, <3>1
    <3>2. CASE k # m
      <4>1. f[k] = IF k = 0 THEN base ELSE F[k][f[k - 1]]
        <5>1. k \in 0..(m - 1)
          BY <2>2, <3>2
        <5>2. f = [kk \in 0..(m - 1) |-> IF kk = 0 THEN base ELSE F[kk][f[kk - 1]]]
          BY <2>1
        <5>3. \A kk \in 0..(m - 1) : f[kk] = IF kk = 0 THEN base ELSE F[kk][f[kk - 1]]
          BY <5>2, Zenon
        <5> QED BY <5>1, <5>3
      <4> QED BY <2>2, <2>5, <2>7, <3>2, <4>1
    <3> QED BY <3>1, <3>2
  <2>9. DOMAIN g = 0..m
    OBVIOUS
  <2> HIDE DEF g
  <2>10. g = [k \in 0..m |-> IF k = 0 THEN base ELSE F[k][g[k - 1]]]
    <3>1. g = [k \in 0..m |-> g[k]]
      BY <2>9 DEF g
    <3> QED BY <2>8, <3>1
  <2>11. Is(g, m)
    BY <2>6, <2>10
  <2>12. \E ff : Is(ff, m)
    BY <2>11
  <2>13. m \in 0..n
    OBVIOUS
  <2> HIDE DEF Is
  <2> QED BY <2>12, <2>13
<1>3. n \in S
  <2> HIDE DEF S
  <2>1. \A k \in 0..n : k \in S
    BY <1>1, <1>2, Climb
  <2> QED BY <2>1
<1> QED BY <1>3

-----------------------------------------------------------------------------
(* Updates of a state.                                                     *)

PutConn(t, i, d) == [t EXCEPT !.conn[i] = d]
PutReqs(t, h, q) == [t EXCEPT !.srv[h].reqs = q]
PutConns(t, h, q) == [t EXCEPT !.srv[h].conns = q]
PutReq(t, u, r) == [t EXCEPT !.req[u] = r]

\* r is t but for connection i, which is d.
ConnIs(t, r, i, d) ==
    /\ r \in States
    /\ r.conn[i] = d
    /\ \A j \in ConnIds : j # i => r.conn[j] = t.conn[j]
    /\ r.srv = t.srv /\ r.b = t.b /\ r.req = t.req /\ r.cbs = t.cbs
    /\ r.proxy = t.proxy /\ r.abort = t.abort /\ r.lost = t.lost
    /\ r.misplaced = t.misplaced /\ r.persist = t.persist
    /\ r.nap = t.nap /\ r.timers = t.timers /\ r.timed = t.timed

LEMMA ConnPut ==
    ASSUME NEW t \in States, NEW i \in ConnIds, NEW d \in Conns
    PROVE  ConnIs(t, PutConn(t, i, d), i, d)
<1>1. PutConn(t, i, d) \in States
  BY Zenon DEF States, PutConn
<1> QED BY <1>1 DEF States, PutConn, ConnIs

LEMMA SrvPut ==
    ASSUME NEW t \in States, NEW h \in Hosts, NEW e \in Servers
    PROVE  [t EXCEPT !.srv[h] = e] \in States
BY Zenon DEF States

\* r is t but for what waits for server h, which is q.
ReqsIs(t, r, h, q) ==
    /\ r \in States
    /\ r.srv[h].reqs = q /\ r.srv[h].conns = t.srv[h].conns
    /\ \A g \in Hosts : g # h => r.srv[g] = t.srv[g]
    /\ r.conn = t.conn /\ r.b = t.b /\ r.req = t.req /\ r.cbs = t.cbs
    /\ r.proxy = t.proxy /\ r.abort = t.abort /\ r.lost = t.lost
    /\ r.misplaced = t.misplaced /\ r.persist = t.persist

LEMMA ReqsPut ==
    ASSUME NEW t \in States, NEW h \in Hosts, NEW q \in Seq(Urls)
    PROVE  ReqsIs(t, PutReqs(t, h, q), h, q)
<1>1. PutReqs(t, h, q) \in States
  <2>1. [t.srv[h] EXCEPT !.reqs = q] \in Servers
    BY DEF States, Servers
  <2>2. PutReqs(t, h, q) = [t EXCEPT !.srv[h] = [t.srv[h] EXCEPT !.reqs = q]]
    BY Zenon DEF PutReqs
  <2> QED BY <2>1, <2>2, SrvPut
<1> QED BY <1>1 DEF States, Servers, PutReqs, ReqsIs

\* r is t but for the connections of server h, which are q.
ConnsIs(t, r, h, q) ==
    /\ r \in States
    /\ r.srv[h].conns = q /\ r.srv[h].reqs = t.srv[h].reqs
    /\ \A g \in Hosts : g # h => r.srv[g] = t.srv[g]
    /\ r.conn = t.conn /\ r.b = t.b /\ r.req = t.req /\ r.cbs = t.cbs
    /\ r.proxy = t.proxy /\ r.abort = t.abort /\ r.lost = t.lost
    /\ r.misplaced = t.misplaced /\ r.persist = t.persist

LEMMA ConnsPut ==
    ASSUME NEW t \in States, NEW h \in Hosts, NEW q \in Seq(ConnIds)
    PROVE  ConnsIs(t, PutConns(t, h, q), h, q)
<1>1. PutConns(t, h, q) \in States
  <2>1. [t.srv[h] EXCEPT !.conns = q] \in Servers
    BY DEF States, Servers
  <2>2. PutConns(t, h, q) = [t EXCEPT !.srv[h] = [t.srv[h] EXCEPT !.conns = q]]
    BY Zenon DEF PutConns
  <2> QED BY <2>1, <2>2, SrvPut
<1> QED BY <1>1 DEF States, Servers, PutConns, ConnsIs

\* r is t but for request u, which is x.
ReqIs(t, r, u, x) ==
    /\ r \in States
    /\ r.req[u] = x /\ \A v \in Urls : v # u => r.req[v] = t.req[v]
    /\ r.conn = t.conn /\ r.srv = t.srv /\ r.b = t.b /\ r.cbs = t.cbs
    /\ r.proxy = t.proxy /\ r.abort = t.abort /\ r.lost = t.lost
    /\ r.misplaced = t.misplaced /\ r.persist = t.persist
    /\ r.nap = t.nap /\ r.timers = t.timers /\ r.timed = t.timed

LEMMA ReqPut ==
    ASSUME NEW t \in States, NEW u \in Urls, NEW x \in Requests
    PROVE  ReqIs(t, PutReq(t, u, x), u, x)
<1>1. PutReq(t, u, x) \in States
  BY Zenon DEF States, PutReq
<1> QED BY <1>1 DEF States, PutReq, ReqIs

\* Updates of different parts can be done in any order, and the last one counts.
LEMMA PutTwice ==
    ASSUME NEW t \in States, NEW i \in ConnIds, NEW c \in Conns, NEW d \in Conns,
           NEW h \in Hosts, NEW q \in Seq(Urls)
    PROVE  /\ PutConn(PutConn(t, i, c), i, d) = PutConn(t, i, d)
           /\ PutReqs(PutConn(t, i, d), h, q) = PutConn(PutReqs(t, h, q), i, d)
           /\ PutConn(t, i, t.conn[i]) = t
<1>1. t \in [b : Browsers, conn : [ConnIds -> Conns], srv : [Hosts -> Servers],
     req : [Urls -> Requests], cbs : Seq(Nat), nap : BOOLEAN, timers : Seq(Nat),
     timed : BOOLEAN, proxy : BOOLEAN, persist : Nat, abort : Reasons, lost : SUBSET Urls,
     misplaced : BOOLEAN, report : Reports]
  BY DEF States
<1>2. PutConn(PutConn(t, i, c), i, d) = PutConn(t, i, d)
  BY <1>1, Zenon DEF PutConn
<1>3. PutReqs(PutConn(t, i, d), h, q) = PutConn(PutReqs(t, h, q), i, d)
  BY <1>1, Zenon DEF PutConn, PutReqs
<1>4. PutConn(t, i, t.conn[i]) = t
  BY <1>1, Zenon DEF PutConn
<1> QED BY <1>2, <1>3, <1>4

\* The parts of a state are what they are.
LEMMA Fields ==
    ASSUME NEW t \in States
    PROVE  /\ t.b \in Browsers /\ t.cbs \in Seq(Nat) /\ t.abort \in Reasons
           /\ t.proxy \in BOOLEAN /\ t.persist \in Nat /\ t.misplaced \in BOOLEAN
           /\ t.lost \in SUBSET Urls
           /\ \A i \in ConnIds : t.conn[i] \in Conns
           /\ \A h \in Hosts : t.srv[h].reqs \in Seq(Urls) /\ t.srv[h].conns \in Seq(ConnIds)
           /\ \A u \in Urls : t.req[u] \in Requests
BY DEF States, Servers

LEMMA ConnFields ==
    ASSUME NEW c \in Conns
    PROVE  /\ c.st \in Sts /\ c.host \in Places /\ c.sub \in Seq(Urls) /\ c.act \in Seq(Urls)
           /\ c.first \in Nat /\ c.out \in BOOLEAN /\ c.blen \in Int /\ c.wen \in BOOLEAN
           /\ c.todo \in Seq(Units) /\ c.inp \in Seq(Units)
BY DEF Conns

LEMMA Constants ==
    /\ \A u \in Urls : Host[u] \in Hosts /\ Size[u] \in Nat \ {0}
    /\ ConnIds \subseteq Nat /\ 0 \notin ConnIds
BY ConnectionAssumption DEF Hosts

-----------------------------------------------------------------------------
(* What a step does to where the requests are.                             *)

\* A live connection is in the list of its host.
LEMMA LiveConn ==
    ASSUME NEW t \in States, Listing(t), NEW i \in Lives(t)
    PROVE  /\ i \in ConnIds /\ t.conn[i] \in Conns /\ t.conn[i].st # "none"
           /\ t.conn[i].host \in Hosts /\ i \in In(t.srv[t.conn[i].host].conns)
           /\ On(t.conn[i]) \subseteq Urls
<1>1. PICK h \in Hosts : i \in In(t.srv[h].conns)
  BY DEF Lives
<1>2. t.conn[i].st # "none" /\ t.conn[i].host = h
  BY <1>1 DEF Listing
<1>3. i \in ConnIds
  BY DEF Lives
<1>4. t.conn[i] \in Conns
  BY <1>3, Fields
<1>5. On(t.conn[i]) \subseteq Urls
  BY <1>4, ConnFields, InEmpty DEF On
<1> QED BY <1>1, <1>2, <1>3, <1>4, <1>5

\* The requests of a connection wait nowhere and are with no other one.
LEMMA Exclusive ==
    ASSUME NEW t \in States, Sound(t), NEW i \in Lives(t)
    PROVE  /\ On(t.conn[i]) \subseteq Rides(t) /\ On(t.conn[i]) \cap Waits(t) = {}
           /\ \A j \in Lives(t) : j # i => On(t.conn[j]) \cap On(t.conn[i]) = {}
<1>1. On(t.conn[i]) \subseteq Urls
  BY LiveConn DEF Sound
<1>2. On(t.conn[i]) \subseteq Rides(t)
  BY <1>1 DEF Rides
<1>3. ASSUME NEW u \in On(t.conn[i]) PROVE u \notin Waits(t)
  BY <1>3 DEF Sound, Loads, Waits
<1> QED BY <1>2, <1>3 DEF Sound, Apart

\* A connection changes, and with it what it has to do.
LEMMA Replaced ==
    ASSUME NEW t \in States, NEW P, Good(t, P), NEW i \in Lives(t), NEW d \in Conns,
           d.st # "none", d.host = t.conn[i].host, Tidy(d),
           Steady(d, t.req, t.proxy),
           \A u \in On(d) \ On(t.conn[i]) : u \notin P /\ Host[u] = d.host
    PROVE  /\ Good(PutConn(t, i, d), (P \ On(t.conn[i])) \cup On(d))
           /\ Lives(PutConn(t, i, d)) = Lives(t)
<1> DEFINE r == PutConn(t, i, d)
           O == On(t.conn[i])
           D == On(d)
<1>a. Sound(t) /\ Flows(t) /\ Counted(t, P) /\ ~t.misplaced
  BY DEF Good
<1>b. i \in ConnIds /\ t.conn[i].host \in Hosts /\ t.conn[i].st # "none" /\ O \subseteq Urls
  BY <1>a, LiveConn DEF Sound
<1>c. /\ r \in States /\ r.conn[i] = d
      /\ \A j \in ConnIds : j # i => r.conn[j] = t.conn[j]
      /\ r.srv = t.srv /\ r.b = t.b /\ r.req = t.req /\ r.cbs = t.cbs
      /\ r.proxy = t.proxy /\ r.abort = t.abort /\ r.lost = t.lost
      /\ r.misplaced = t.misplaced
  BY <1>b, ConnPut DEF ConnIs
<1>d. D \subseteq Urls
  BY ConnFields, InEmpty DEF On
<1>e. /\ O \subseteq Rides(t) /\ O \cap Waits(t) = {}
      /\ \A j \in Lives(t) : j # i => On(t.conn[j]) \cap O = {}
  BY <1>a, Exclusive
<1>f. \A u \in D \ O : u \notin P /\ Host[u] = d.host
  OBVIOUS
<1> HIDE DEF r, O, D
<1>1. Lives(r) = Lives(t) /\ Waits(r) = Waits(t)
  BY <1>c DEF Lives, Waits
<1>l. \A j \in Lives(t) : j \in ConnIds
  BY DEF Lives
<1>2. Rides(r) = (Rides(t) \ O) \cup D
  <2>1. ASSUME NEW u \in Rides(r) PROVE u \in (Rides(t) \ O) \cup D
    <3>1. PICK j \in Lives(t) : u \in On(r.conn[j])
      BY <1>1, <2>1 DEF Rides
    <3>2. CASE j = i
      BY <1>c, <3>1, <3>2 DEF D
    <3>3. CASE j # i
      <4>1. u \in On(t.conn[j]) /\ u \notin O /\ u \in Urls
        BY <1>c, <1>e, <1>l, <2>1, <3>1, <3>3 DEF Rides
      <4> QED BY <4>1 DEF Rides
    <3> QED BY <3>2, <3>3
  <2>2. ASSUME NEW u \in D PROVE u \in Rides(r)
    BY <1>1, <1>c, <1>d, <2>2 DEF Rides, D
  <2>3. ASSUME NEW u \in Rides(t), u \notin O PROVE u \in Rides(r)
    <3>1. PICK j \in Lives(t) : u \in On(t.conn[j])
      BY <2>3 DEF Rides
    <3>2. j # i /\ u \in Urls
      BY <2>3, <3>1 DEF Rides, O
    <3>3. u \in On(r.conn[j])
      BY <1>c, <1>l, <3>1, <3>2
    <3> QED BY <1>1, <3>2, <3>3 DEF Rides
  <2> QED BY <2>1, <2>2, <2>3
<1>3. Under(r) = (Under(t) \ O) \cup D
  BY <1>1, <1>2, <1>e DEF Under
<1>4. Counted(r, (P \ O) \cup D)
  <2>1. P \subseteq Urls /\ Under(t) \cup t.lost \subseteq P /\ t.lost \cap Under(t) = {}
        /\ (t.abort = "no" => P \subseteq Under(t) \cup t.lost)
    BY <1>a DEF Counted
  <2>2. O \subseteq Under(t)
    BY <1>e DEF Under
  <2> QED BY <1>3, <1>c, <1>d, <1>f, <2>1, <2>2 DEF Counted
<1>5. Flows(r)
  <2>1. \A j \in Lives(t) : Steady(r.conn[j], r.req, r.proxy)
    BY <1>a, <1>c, <1>l DEF Flows
  <2> QED BY <1>1, <1>a, <1>c, <2>1 DEF Flows
<1>6. Listing(r)
  <2>1. \A h \in Hosts : In(t.srv[h].conns) \subseteq ConnIds
    BY Fields, InEmpty
  <2> QED BY <1>a, <1>c, <2>1 DEF Sound, Listing
<1>7. Doomed(r) /\ Blank(r)
  BY <1>1, <1>a, <1>b, <1>c DEF Sound, Doomed, Blank
<1>8. Finite(r)
  BY <1>a, <1>b, <1>c DEF Sound, Finite
<1>9. Queues(r)
  BY <1>a, <1>c DEF Sound, Queues
<1>10. Loads(r)
  <2>1. ASSUME NEW j \in Lives(t)
        PROVE  /\ Tidy(r.conn[j])
               /\ \A u \in On(r.conn[j]) :
                    Host[u] = r.conn[j].host /\ u \notin In(r.srv[r.conn[j].host].reqs)
    <3>1. CASE j = i
      <4>1. ASSUME NEW u \in D
            PROVE  Host[u] = d.host /\ u \notin In(t.srv[d.host].reqs)
        <5>1. CASE u \in O
          BY <1>a, <5>1 DEF Sound, Loads, O
        <5>2. CASE u \notin O
          <6>1. u \notin P /\ Host[u] = d.host
            BY <1>f, <4>1, <5>2
          <6>2. u \notin Waits(t)
            BY <1>a, <6>1 DEF Counted, Under
          <6> QED BY <1>d, <6>1, <6>2 DEF Waits
        <5> QED BY <5>1, <5>2
      <4> QED BY <1>c, <3>1, <4>1 DEF D
    <3>2. CASE j # i
      BY <1>a, <1>c, <1>l, <3>2 DEF Sound, Loads
    <3> QED BY <3>1, <3>2
  <2> QED BY <1>1, <2>1 DEF Loads
<1>11. Apart(r)
  <2>1. ASSUME NEW j \in Lives(t), j # i PROVE On(r.conn[j]) \cap D = {}
    <3>1. On(t.conn[j]) \subseteq P
      <4>1. On(t.conn[j]) \subseteq Rides(t)
        BY <1>a, Exclusive
      <4> QED BY <1>a, <4>1 DEF Counted, Under
    <3> QED BY <1>c, <1>e, <1>f, <1>l, <2>1, <3>1
  <2>2. ASSUME NEW j \in Lives(t), NEW k \in Lives(t), j # k
        PROVE  On(r.conn[j]) \cap On(r.conn[k]) = {}
    <3>1. CASE j = i
      BY <1>c, <2>1, <2>2, <3>1 DEF D
    <3>2. CASE k = i
      BY <1>c, <2>1, <2>2, <3>2 DEF D
    <3>3. CASE j # i /\ k # i
      BY <1>a, <1>c, <1>l, <2>2, <3>3 DEF Sound, Apart
    <3> QED BY <3>1, <3>2, <3>3
  <2> QED BY <1>1, <2>2 DEF Apart
<1> QED BY <1>1, <1>4, <1>5, <1>6, <1>7, <1>8, <1>9, <1>10, <1>11, <1>a, <1>c
        DEF Good, Sound, r, O, D

\* Of the requests of q, those that do not wait for server h are nowhere.
Admits(t, P, h, q) ==
    \A u \in In(q) :
        \/ u \in In(t.srv[h].reqs)
        \/ u \notin P /\ Host[u] = h /\ Asks(t.req[u], u)

\* What waits for a server changes.
LEMMA Requeued ==
    ASSUME NEW t \in States, NEW P, Good(t, P), NEW h \in Hosts, NEW q \in Seq(Urls),
           NEW r, ReqsIs(t, r, h, q), Distinct(q), Admits(t, P, h, q)
    PROVE  /\ Good(r, (P \ In(t.srv[h].reqs)) \cup In(q))
           /\ Lives(r) = Lives(t)
<1> DEFINE O == In(t.srv[h].reqs)
           D == In(q)
<1>a. Sound(t) /\ Flows(t) /\ Counted(t, P) /\ ~t.misplaced
  BY DEF Good
<1>c. /\ r \in States /\ r.conn = t.conn
      /\ r.srv[h].reqs = q /\ \A g \in Hosts : g # h => r.srv[g] = t.srv[g]
      /\ r.srv[h].conns = t.srv[h].conns
      /\ r.b = t.b /\ r.req = t.req /\ r.cbs = t.cbs
      /\ r.proxy = t.proxy /\ r.abort = t.abort /\ r.lost = t.lost
      /\ r.misplaced = t.misplaced
  BY DEF ReqsIs
<1>s. \A g \in Hosts : r.srv[g].conns = t.srv[g].conns
  BY <1>c
<1>d. D \subseteq Urls /\ O \subseteq Urls
  BY Fields, InEmpty
<1>e. \A u \in O : Host[u] = h
  BY <1>a DEF Sound, Queues
<1>f. \A u \in D \ O : u \notin P /\ Host[u] = h /\ Asks(t.req[u], u)
  BY DEF Admits
<1>i. \A j \in Lives(t) : j \in ConnIds /\ t.conn[j].host \in Hosts
                          /\ On(t.conn[j]) \subseteq Rides(t)
  <2> TAKE j \in Lives(t)
  <2>1. j \in ConnIds /\ t.conn[j].host \in Hosts
    BY <1>a, LiveConn DEF Sound
  <2>2. On(t.conn[j]) \subseteq Rides(t)
    BY <1>a, Exclusive
  <2> QED BY <2>1, <2>2
<1> HIDE DEF O, D
<1>1. Lives(r) = Lives(t) /\ Rides(r) = Rides(t)
  <2>1. Lives(r) = Lives(t)
    BY <1>s DEF Lives
  <2> QED BY <1>c, <2>1 DEF Rides
<1>2. Waits(r) = (Waits(t) \ O) \cup D
  <2>1. ASSUME NEW u \in Urls PROVE u \in Waits(r) <=> u \in (Waits(t) \ O) \cup D
    <3>1. Host[u] \in Hosts
      BY Constants
    <3>2. CASE Host[u] = h
      BY <1>c, <3>2 DEF Waits, O, D
    <3>3. CASE Host[u] # h
      <4>1. u \notin O /\ u \notin D
        BY <1>e, <1>f, <3>3
      <4> QED BY <1>c, <3>1, <3>3, <4>1 DEF Waits
    <3> QED BY <3>2, <3>3
  <2> QED BY <2>1, <1>d DEF Waits
<1>3. O \subseteq Waits(t)
  BY <1>d, <1>e DEF Waits, O
<1>4. O \cap Rides(t) = {}
  <2>1. ASSUME NEW u \in O, u \in Rides(t) PROVE FALSE
    <3>1. PICK j \in Lives(t) : u \in On(t.conn[j])
      BY <2>1 DEF Rides
    <3>2. Host[u] = t.conn[j].host /\ u \notin In(t.srv[t.conn[j].host].reqs)
      BY <1>a, <3>1 DEF Sound, Loads
    <3> QED BY <1>e, <2>1, <3>2 DEF O
  <2> QED BY <2>1
<1>5. Counted(r, (P \ O) \cup D)
  <2>1. P \subseteq Urls /\ Under(t) \cup t.lost \subseteq P /\ t.lost \cap Under(t) = {}
        /\ (t.abort = "no" => P \subseteq Under(t) \cup t.lost)
    BY <1>a DEF Counted
  <2>2. Under(r) = (Under(t) \ O) \cup D
    BY <1>1, <1>2, <1>4 DEF Under
  <2>3. O \subseteq Under(t)
    BY <1>3 DEF Under
  <2>4. \A u \in D : u \in O \/ u \notin P
    BY <1>f
  <2> QED BY <1>c, <1>d, <2>1, <2>2, <2>3, <2>4 DEF Counted
<1>6. Flows(r)
  <2>1. ASSUME NEW g \in Hosts, NEW u \in In(r.srv[g].reqs) PROVE Asks(r.req[u], u)
    <3>1. CASE g = h
      <4>1. u \in D
        BY <1>c, <3>1 DEF D
      <4>2. u \in O => Asks(t.req[u], u)
        BY <1>a DEF Flows, O
      <4> QED BY <1>c, <1>f, <4>1, <4>2
    <3>2. CASE g # h
      BY <1>a, <1>c, <3>2 DEF Flows
    <3> QED BY <3>1, <3>2
  <2> QED BY <1>1, <1>a, <1>c, <2>1 DEF Flows
<1>7. Listing(r) /\ Doomed(r) /\ Blank(r) /\ Finite(r)
  <2>1. Listing(r)
    BY <1>a, <1>c, <1>s DEF Sound, Listing
  <2> QED BY <1>1, <1>a, <1>c, <2>1 DEF Sound, Doomed, Blank, Finite
<1>8. Queues(r)
  <2>1. ASSUME NEW g \in Hosts
        PROVE  Distinct(r.srv[g].reqs) /\ \A u \in In(r.srv[g].reqs) : Host[u] = g
    <3>1. CASE g = h
      BY <1>c, <1>e, <1>f, <3>1 DEF O, D
    <3>2. CASE g # h
      BY <1>a, <1>c, <3>2 DEF Sound, Queues
    <3> QED BY <3>1, <3>2
  <2> QED BY <2>1 DEF Queues
<1>9. Loads(r)
  <2>1. ASSUME NEW j \in Lives(t), NEW u \in On(t.conn[j])
        PROVE  u \notin In(r.srv[t.conn[j].host].reqs)
    <3>1. u \notin In(t.srv[t.conn[j].host].reqs)
      BY <1>a DEF Sound, Loads
    <3>2. CASE t.conn[j].host = h
      <4>1. u \in P
        BY <1>a, <1>i DEF Counted, Under
      <4>2. u \notin D
        BY <1>f, <3>1, <3>2, <4>1 DEF O
      <4> QED BY <1>c, <3>2, <4>2 DEF D
    <3>3. CASE t.conn[j].host # h
      BY <1>c, <1>i, <3>1, <3>3
    <3> QED BY <3>2, <3>3
  <2>2. \A j \in Lives(t) : Tidy(t.conn[j]) /\ \A u \in On(t.conn[j]) : Host[u] = t.conn[j].host
    BY <1>a DEF Sound, Loads
  <2>3. ASSUME NEW j \in Lives(r)
        PROVE  /\ Tidy(r.conn[j])
               /\ \A u \in On(r.conn[j]) :
                     Host[u] = r.conn[j].host /\ u \notin In(r.srv[r.conn[j].host].reqs)
    <3>1. j \in Lives(t) /\ r.conn[j] = t.conn[j]
      BY <1>1, <1>c
    <3> QED BY <2>1, <2>2, <3>1
  <2> QED BY <2>3 DEF Loads
<1>10. Apart(r)
  BY <1>1, <1>a, <1>c DEF Sound, Apart
<1> QED BY <1>1, <1>5, <1>6, <1>7, <1>8, <1>9, <1>10, <1>a, <1>c DEF Good, Sound, O, D

\* There is a Connection object to be had.
LEMMA FreeIdIs ==
    ASSUME NEW t \in States, Sound(t), ConnIds = Nat \ {0}
    PROVE  FreeId(t) \in ConnIds /\ t.conn[FreeId(t)].st = "none"
<1>1. PICK n \in Nat : \A i \in ConnIds : i > n => t.conn[i].st = "none"
  BY DEF Sound, Finite
<1>2. n + 1 \in ConnIds /\ n + 1 > n
  OBVIOUS
<1>3. \E i \in ConnIds : t.conn[i].st = "none"
  BY <1>1, <1>2
<1> QED BY <1>3 DEF FreeId

\* d is a connection to h that has nothing to do.
Unused(d, h, req, proxy) ==
    d.st # "none" /\ d.host = h /\ Tidy(d) /\ On(d) = {} /\ Steady(d, req, proxy)

\* A server has one connection more.
LEMMA Joined ==
    ASSUME NEW t \in States, NEW P, Good(t, P), NEW i \in ConnIds, t.conn[i].st = "none",
           NEW h \in Hosts, NEW d \in Conns, Unused(d, h, t.req, t.proxy),
           NEW m, ConnIs(t, m, i, d), NEW r, ConnsIs(m, r, h, Append(t.srv[h].conns, i))
    PROVE  Good(r, P) /\ Lives(r) = Lives(t) \cup {i}
<1>a. Sound(t) /\ Flows(t) /\ Counted(t, P) /\ ~t.misplaced
  BY DEF Good
<1>u. d.st # "none" /\ d.host = h /\ Tidy(d) /\ On(d) = {} /\ Steady(d, t.req, t.proxy)
  BY DEF Unused
<1> DEFINE q == t.srv[h].conns
<1>c. /\ r \in States /\ r.conn[i] = d
      /\ \A j \in ConnIds : j # i => r.conn[j] = t.conn[j]
      /\ r.srv[h].conns = Append(q, i) /\ \A g \in Hosts : g # h => r.srv[g] = t.srv[g]
      /\ \A g \in Hosts : r.srv[g].reqs = t.srv[g].reqs
      /\ r.b = t.b /\ r.req = t.req /\ r.cbs = t.cbs
      /\ r.proxy = t.proxy /\ r.abort = t.abort /\ r.lost = t.lost
      /\ r.misplaced = t.misplaced
  BY DEF ConnIs, ConnsIs
<1>q. q \in Seq(ConnIds)
  BY Fields
<1>n. i \notin Lives(t) /\ i \notin In(t.cbs) /\ \A g \in Hosts : i \notin In(t.srv[g].conns)
  BY <1>a DEF Sound, Listing, Lives, Doomed
<1> HIDE DEF q
<1>w. In(Append(q, i)) = In(q) \cup {i} /\ (Distinct(q) => Distinct(Append(q, i)))
  <2>1. q = t.srv[h].conns
    BY DEF q
  <2> QED BY <1>n, <1>q, <2>1, InAppend
<1>1. Lives(r) = Lives(t) \cup {i}
  <2>1. \A g \in Hosts : In(r.srv[g].conns) = In(t.srv[g].conns) \cup (IF g = h THEN {i} ELSE {})
    BY <1>c, <1>w DEF q
  <2> QED BY <2>1 DEF Lives
<1>l. \A j \in Lives(t) : j \in ConnIds /\ j # i /\ r.conn[j] = t.conn[j]
  BY <1>c, <1>n DEF Lives
<1>2. Under(r) = Under(t)
  <2>1. Waits(r) = Waits(t)
    BY <1>c, Constants DEF Waits
  <2>2. Rides(r) = Rides(t)
    BY <1>1, <1>c, <1>l, <1>u DEF Rides
  <2> QED BY <2>1, <2>2 DEF Under
<1>3. Counted(r, P) /\ Flows(r)
  <2>1. Counted(r, P)
    BY <1>2, <1>a, <1>c DEF Counted
  <2>2. \A j \in Lives(r) : Steady(r.conn[j], r.req, r.proxy)
    BY <1>1, <1>a, <1>c, <1>l, <1>u DEF Flows
  <2> QED BY <1>a, <1>c, <2>1, <2>2 DEF Flows
<1>4. Listing(r)
  <2>1. ASSUME NEW g \in Hosts
        PROVE  /\ Distinct(r.srv[g].conns)
               /\ \A j \in In(r.srv[g].conns) : r.conn[j].st # "none" /\ r.conn[j].host = g
    <3>1. In(t.srv[g].conns) \subseteq Lives(t)
      <4>1. In(t.srv[g].conns) \subseteq ConnIds
        BY Fields, InEmpty
      <4> QED BY <4>1 DEF Lives
    <3>2. Distinct(t.srv[g].conns)
          /\ \A j \in In(t.srv[g].conns) : t.conn[j].st # "none" /\ t.conn[j].host = g
      BY <1>a DEF Sound, Listing
    <3>3. CASE g = h
      <4>1. q = t.srv[g].conns /\ r.srv[g].conns = Append(q, i)
        BY <1>c, <3>3 DEF q
      <4>2. Distinct(Append(q, i)) /\ In(Append(q, i)) = In(q) \cup {i}
        BY <1>w, <3>2, <4>1
      <4>3. ASSUME NEW j \in In(Append(q, i))
            PROVE  r.conn[j].st # "none" /\ r.conn[j].host = g
        <5>1. CASE j = i
          BY <1>c, <1>u, <3>3, <5>1
        <5>2. CASE j # i
          <6>1. j \in In(t.srv[g].conns)
            BY <4>1, <4>2, <4>3, <5>2
          <6> QED BY <1>l, <3>1, <3>2, <6>1
        <5> QED BY <5>1, <5>2
      <4> QED BY <4>1, <4>2, <4>3
    <3>4. CASE g # h
      BY <1>c, <1>l, <3>1, <3>2, <3>4
    <3> QED BY <3>3, <3>4
  <2> QED BY <2>1 DEF Listing
<1>5. Doomed(r) /\ Blank(r)
  <2>1. Blank(r)
    BY <1>a, <1>c, <1>u DEF Sound, Blank
  <2>2. \A j \in ConnIds : j \in In(r.cbs) => r.conn[j].st # "none" /\ j \notin Lives(r)
    BY <1>1, <1>a, <1>c, <1>n, <1>u DEF Sound, Doomed
  <2>3. \A j \in ConnIds : r.conn[j].st # "none" => j \in Lives(r) \/ j \in In(r.cbs)
    BY <1>1, <1>a, <1>c, <1>u DEF Sound, Doomed
  <2> QED BY <1>a, <1>c, <2>1, <2>2, <2>3 DEF Sound, Doomed
<1>6. Finite(r)
  <2>1. PICK n \in Nat : \A j \in ConnIds : j > n => t.conn[j].st = "none"
    BY <1>a DEF Sound, Finite
  <2>2. i \in Nat
    BY Constants
  <2> DEFINE x == IF i > n THEN i ELSE n
  <2>3. x \in Nat /\ \A j \in Nat : j > x => j > n /\ j # i
    BY <2>2
  <2>4. \A j \in ConnIds : j \in Nat
    BY Constants
  <2> HIDE DEF x
  <2>5. \A j \in ConnIds : j > x => r.conn[j].st = "none"
    BY <1>c, <2>1, <2>3, <2>4
  <2> QED BY <2>3, <2>5 DEF Finite
<1>7. Queues(r)
  BY <1>a, <1>c DEF Sound, Queues
<1>8. Loads(r)
  <2>1. \A j \in Lives(t) : j \in ConnIds /\ t.conn[j].host \in Hosts
    BY <1>a, LiveConn DEF Sound
  <2>2. ASSUME NEW j \in Lives(r)
        PROVE  /\ Tidy(r.conn[j])
               /\ \A u \in On(r.conn[j]) :
                    Host[u] = r.conn[j].host /\ u \notin In(r.srv[r.conn[j].host].reqs)
    <3>1. CASE j = i
      BY <1>c, <1>u, <3>1
    <3>2. CASE j # i
      <4>1. j \in Lives(t)
        BY <1>1, <2>2, <3>2
      <4>2. /\ Tidy(t.conn[j])
            /\ \A u \in On(t.conn[j]) :
                 Host[u] = t.conn[j].host /\ u \notin In(t.srv[t.conn[j].host].reqs)
        BY <1>a, <4>1 DEF Sound, Loads
      <4> QED BY <1>c, <1>l, <2>1, <4>1, <4>2
    <3> QED BY <3>1, <3>2
  <2> QED BY <2>2 DEF Loads
<1>9. Apart(r)
  <2>1. ASSUME NEW j \in Lives(r), NEW k \in Lives(r), j # k
        PROVE  On(r.conn[j]) \cap On(r.conn[k]) = {}
    <3>1. CASE j = i \/ k = i
      BY <1>c, <1>u, <3>1
    <3>2. CASE j # i /\ k # i
      <4>1. j \in Lives(t) /\ k \in Lives(t)
        BY <1>1, <2>1, <3>2
      <4> QED BY <1>a, <1>l, <2>1, <4>1 DEF Sound, Apart
    <3> QED BY <3>1, <3>2
  <2> QED BY <2>1 DEF Apart
<1> QED BY <1>1, <1>3, <1>4, <1>5, <1>6, <1>7, <1>8, <1>9, <1>a, <1>c DEF Good, Sound

\* A connection leaves its server, and is to be deleted; with its last connection the
\* server's entry goes.
Dropped(t, r, h) ==
    \/ r.srv[h].reqs = t.srv[h].reqs /\ r.lost = t.lost
    \/ r.srv[h].reqs = <<>> /\ r.lost = t.lost \cup In(t.srv[h].reqs)
SameElsewhere(t, r, h) == \A g \in Hosts : g # h => r.srv[g] = t.srv[g]
HostOf(t, i, h) == h = t.conn[i].host

LEMMA Released ==
    ASSUME NEW t \in States, NEW P, Good(t, P), NEW i \in Lives(t), NEW r \in States,
           NEW h, HostOf(t, i, h),
           r.conn = t.conn, r.req = t.req, r.proxy = t.proxy, r.misplaced = t.misplaced,
           r.abort = t.abort,
           Once(r.cbs), In(r.cbs) = In(t.cbs) \cup {i},
           Distinct(r.srv[h].conns), In(r.srv[h].conns) = In(t.srv[h].conns) \ {i},
           SameElsewhere(t, r, h), Dropped(t, r, h)
    PROVE  Good(r, P \ On(t.conn[i])) /\ Lives(r) = Lives(t) \ {i}
<1>y. h = t.conn[i].host
  BY DEF HostOf
<1>z. \A g \in Hosts : g # h => r.srv[g] = t.srv[g]
  BY DEF SameElsewhere
<1> DEFINE O == On(t.conn[i])
           W == In(t.srv[h].reqs)
<1>a. Sound(t) /\ Flows(t) /\ Counted(t, P) /\ ~t.misplaced
  BY DEF Good
<1>b. i \in ConnIds /\ h \in Hosts /\ t.conn[i].st # "none" /\ O \subseteq Urls
  BY <1>y, <1>z, <1>a, LiveConn DEF Sound
<1>e. /\ O \subseteq Rides(t) /\ O \cap Waits(t) = {}
      /\ \A j \in Lives(t) : j # i => On(t.conn[j]) \cap O = {}
  BY <1>a, Exclusive
<1>l. \A j \in Lives(t) : j \in ConnIds /\ t.conn[j].host \in Hosts
  BY <1>a, LiveConn DEF Sound
<1> HIDE DEF O
<1>w. In(<<>>) = {} /\ Distinct(<<>>)
  BY InEmpty
<1>1. Lives(r) = Lives(t) \ {i}
  <2>1. \A g \in Hosts : g # h => i \notin In(t.srv[g].conns)
    BY <1>y, <1>z, <1>a DEF Sound, Listing
  <2>2. \A g \in Hosts : In(r.srv[g].conns) = In(t.srv[g].conns) \ {i}
    BY <1>y, <1>z, <2>1
  <2>3. \A j \in ConnIds : j \in Lives(r) <=> j \in Lives(t) /\ j # i
    BY <2>2 DEF Lives
  <2>4. Lives(r) \subseteq ConnIds /\ Lives(t) \subseteq ConnIds
    BY DEF Lives
  <2> QED BY <2>3, <2>4
<1>2. Rides(r) = Rides(t) \ O
  <2>1. ASSUME NEW u \in Rides(r) PROVE u \in Rides(t) \ O
    <3>1. PICK j \in Lives(r) : u \in On(t.conn[j])
      BY <2>1 DEF Rides
    <3>2. j \in Lives(t) /\ j # i /\ u \in Urls
      BY <1>1, <2>1 DEF Rides
    <3> QED BY <1>e, <3>1, <3>2 DEF Rides
  <2>2. ASSUME NEW u \in Rides(t), u \notin O PROVE u \in Rides(r)
    <3>1. PICK j \in Lives(t) : u \in On(t.conn[j])
      BY <2>2 DEF Rides
    <3>2. j # i /\ u \in Urls
      BY <2>2, <3>1 DEF Rides, O
    <3> QED BY <1>1, <3>1, <3>2 DEF Rides
  <2> QED BY <2>1, <2>2
<1>d. Distinct(t.srv[h].reqs) /\ W \subseteq Waits(t)
  <2>1. Distinct(t.srv[h].reqs) /\ \A u \in W : Host[u] = h
    BY <1>a, <1>b DEF Sound, Queues
  <2>2. W \subseteq Urls
    BY <1>b, Fields, InEmpty
  <2> QED BY <2>1, <2>2 DEF Waits
<1>3. \/ Waits(r) = Waits(t) /\ r.lost = t.lost
      \/ Waits(r) = Waits(t) \ W /\ r.lost = t.lost \cup W
  <2>1. CASE r.srv[h].reqs = t.srv[h].reqs /\ r.lost = t.lost
    <3>1. \A g \in Hosts : r.srv[g].reqs = t.srv[g].reqs
      BY <1>y, <1>z, <2>1
    <3> QED BY <2>1, <3>1, Constants DEF Waits
  <2>2. CASE r.srv[h].reqs = <<>> /\ r.lost = t.lost \cup W
    <3>1. ASSUME NEW u \in Urls PROVE u \in Waits(r) <=> u \in Waits(t) \ W
      <4>1. Host[u] \in Hosts
        BY Constants
      <4>2. CASE Host[u] = h
        BY <1>w, <2>2, <4>2 DEF Waits
      <4>3. CASE Host[u] # h
        <5>1. u \notin W
          BY <1>a, <1>b, <4>3 DEF Sound, Queues
        <5> QED BY <1>y, <1>z, <4>1, <4>3, <5>1 DEF Waits
      <4> QED BY <4>2, <4>3
    <3>2. Waits(r) \subseteq Urls /\ Waits(t) \subseteq Urls
      BY DEF Waits
    <3> QED BY <2>2, <3>1, <3>2
  <2> QED BY <2>1, <2>2 DEF Dropped, W
<1>q. \A g \in Hosts : \/ r.srv[g].reqs = t.srv[g].reqs
                       \/ r.srv[g].reqs = <<>>
  BY <1>y, <1>z DEF Dropped
<1> HIDE DEF W
<1>4. Counted(r, P \ O)
  <2>1. P \subseteq Urls /\ Waits(t) \cup Rides(t) \cup t.lost \subseteq P
        /\ t.lost \cap (Waits(t) \cup Rides(t)) = {}
        /\ (t.abort = "no" => P \subseteq Waits(t) \cup Rides(t) \cup t.lost)
    BY <1>a DEF Counted, Under
  <2>2. W \cap Rides(t) = {}
    <3>1. ASSUME NEW u \in Rides(t), u \in Waits(t) PROVE FALSE
      BY <1>a, <3>1 DEF Sound, Loads, Rides, Waits
    <3> QED BY <1>d, <3>1
  <2>3. Waits(r) \cup Rides(r) \cup r.lost \subseteq P \ O
    BY <1>2, <1>3, <1>d, <1>e, <2>1
  <2>4. r.lost \cap (Waits(r) \cup Rides(r)) = {}
    BY <1>2, <1>3, <1>d, <2>1, <2>2
  <2>5. r.abort = "no" => P \ O \subseteq Waits(r) \cup Rides(r) \cup r.lost
    BY <1>2, <1>3, <2>1
  <2> QED BY <2>1, <2>3, <2>4, <2>5 DEF Counted, Under
<1>5. Flows(r)
  <2>1. \A g \in Hosts : \A u \in In(r.srv[g].reqs) : Asks(r.req[u], u)
    BY <1>a, <1>q, <1>w DEF Flows
  <2> QED BY <1>1, <1>a, <2>1 DEF Flows
<1>6. Listing(r)
  <2>1. ASSUME NEW g \in Hosts
        PROVE  Distinct(r.srv[g].conns) /\ In(r.srv[g].conns) \subseteq In(t.srv[g].conns)
    BY <1>y, <1>z, <1>a DEF Sound, Listing
  <2>2. ASSUME NEW g \in Hosts, NEW j \in In(r.srv[g].conns)
        PROVE  r.conn[j].st # "none" /\ r.conn[j].host = g
    <3>1. j \in In(t.srv[g].conns)
      BY <2>1
    <3>2. t.conn[j].st # "none" /\ t.conn[j].host = g
      <4>1. Listing(t)
        BY <1>a DEF Sound
      <4> QED BY <3>1, <4>1 DEF Listing
    <3> QED BY <3>2
  <2> QED BY <2>1, <2>2 DEF Listing
<1>7. Doomed(r) /\ Blank(r) /\ Finite(r)
  <2>1. Blank(r) /\ Finite(r)
    BY <1>a DEF Sound, Blank, Finite
  <2>2. In(r.cbs) \subseteq ConnIds \cup {0}
    BY <1>a, <1>b DEF Sound, Doomed
  <2>3. \A j \in ConnIds : j \in In(r.cbs) => r.conn[j].st # "none" /\ j \notin Lives(r)
    BY <1>1, <1>a, <1>b DEF Sound, Doomed
  <2>4. \A j \in ConnIds : r.conn[j].st # "none" => j \in Lives(r) \/ j \in In(r.cbs)
    BY <1>1, <1>a DEF Sound, Doomed
  <2> QED BY <2>1, <2>2, <2>3, <2>4 DEF Doomed
<1>8. Queues(r)
  BY <1>a, <1>q, <1>w DEF Sound, Queues
<1>9. Loads(r) /\ Apart(r)
  <2>1. \A j \in Lives(r) : j \in Lives(t)
    BY <1>1
  <2>2. Apart(r)
    BY <1>a, <2>1 DEF Sound, Apart
  <2>3. ASSUME NEW j \in Lives(t)
        PROVE  /\ Tidy(t.conn[j])
               /\ \A u \in On(t.conn[j]) :
                    Host[u] = t.conn[j].host /\ u \notin In(r.srv[t.conn[j].host].reqs)
    <3>1. /\ Tidy(t.conn[j])
          /\ \A u \in On(t.conn[j]) :
               Host[u] = t.conn[j].host /\ u \notin In(t.srv[t.conn[j].host].reqs)
      BY <1>a DEF Sound, Loads
    <3>2. In(r.srv[t.conn[j].host].reqs) \subseteq In(t.srv[t.conn[j].host].reqs)
      BY <1>l, <1>q, <1>w
    <3> QED BY <3>1, <3>2
  <2>4. Loads(r)
    BY <2>1, <2>3 DEF Loads
  <2> QED BY <2>2, <2>4
<1> QED BY <1>1, <1>4, <1>5, <1>6, <1>7, <1>8, <1>9, <1>a DEF Good, Sound, O

\* A request that is nowhere can change.
LEMMA Rerequested ==
    ASSUME NEW t \in States, NEW P, Good(t, P), NEW u \in Urls, u \notin P,
           NEW x, NEW r, ReqIs(t, r, u, x)
    PROVE  Good(r, P) /\ Lives(r) = Lives(t)
<1>a. Sound(t) /\ Flows(t) /\ Counted(t, P) /\ ~t.misplaced
  BY DEF Good
<1>c. /\ r \in States /\ r.conn = t.conn /\ r.srv = t.srv /\ r.cbs = t.cbs
      /\ \A v \in Urls : v # u => r.req[v] = t.req[v]
      /\ r.proxy = t.proxy /\ r.abort = t.abort /\ r.lost = t.lost
      /\ r.misplaced = t.misplaced
  BY DEF ReqIs
<1>1. Lives(r) = Lives(t) /\ Waits(r) = Waits(t)
  BY <1>c DEF Lives, Waits
<1>2. Under(r) = Under(t)
  BY <1>1, <1>c DEF Under, Rides
<1>3. Counted(r, P) /\ u \notin Under(t)
  BY <1>2, <1>a, <1>c DEF Counted
<1>4. Sound(r)
  <2>1. Listing(r) /\ Doomed(r) /\ Blank(r) /\ Finite(r) /\ Queues(r)
    BY <1>1, <1>a, <1>c DEF Sound, Listing, Doomed, Blank, Finite, Queues
  <2>2. Loads(r) /\ Apart(r)
    BY <1>1, <1>a, <1>c DEF Sound, Loads, Apart
  <2> QED BY <2>1, <2>2 DEF Sound
<1>5. \A h \in Hosts : \A v \in In(r.srv[h].reqs) : Asks(r.req[v], v)
  <2>1. ASSUME NEW h \in Hosts, NEW v \in In(t.srv[h].reqs)
        PROVE  r.req[v] = t.req[v]
    <3>1. v \in Urls /\ Host[v] = h
      BY <1>a, Fields, InEmpty DEF Sound, Queues
    <3>2. v \in Waits(t)
      BY <3>1 DEF Waits
    <3> QED BY <1>3, <1>c, <3>1, <3>2 DEF Under
  <2> QED BY <1>a, <1>c, <2>1 DEF Flows
<1>6. ASSUME NEW i \in Lives(t) PROVE Steady(t.conn[i], r.req, r.proxy)
  <2>1. \A v \in On(t.conn[i]) : r.req[v] = t.req[v]
    <3>1. On(t.conn[i]) \subseteq Rides(t)
      BY <1>a, Exclusive
    <3>2. On(t.conn[i]) \subseteq Urls
      BY <1>a, LiveConn DEF Sound
    <3> QED BY <1>3, <1>c, <3>1, <3>2 DEF Under
  <2>2. t.conn[i] \in Conns
    BY <1>a, LiveConn DEF Sound
  <2>3. t.conn[i].act # <<>> => r.req[t.conn[i].act[1]] = t.req[t.conn[i].act[1]]
    <3>1. t.conn[i].act # <<>> => t.conn[i].act[1] \in In(t.conn[i].act)
      BY <2>2, ConnFields, InTail
    <3> QED BY <2>1, <3>1 DEF On
  <2>4. Steady(t.conn[i], t.req, t.proxy)
    BY <1>a DEF Flows
  <2>5. Unsent(t.conn[i], r.req) <=> Unsent(t.conn[i], t.req)
    BY <2>3 DEF Unsent
  <2>6. \A q : Flow(t.conn[i], r.req, q) <=> Flow(t.conn[i], t.req, q)
    BY <2>3, <2>5 DEF Flow
  <2>7. \A v \in In(t.conn[i].sub) : Asks(r.req[v], v)
    BY <2>1, <2>4 DEF Steady, On
  <2> QED BY <1>c, <2>4, <2>5, <2>6, <2>7 DEF Steady
<1>7. Flows(r)
  BY <1>1, <1>5, <1>6, <1>c DEF Flows
<1> QED BY <1>1, <1>3, <1>4, <1>7, <1>a, <1>c DEF Good

\* What is beside connections and requests may change.
LEMMA Beside ==
    ASSUME NEW t \in States, NEW P, Good(t, P), NEW r \in States,
           r.conn = t.conn, r.srv = t.srv, r.req = t.req, r.proxy = t.proxy,
           r.lost = t.lost, r.misplaced = t.misplaced, r.abort = "no" => t.abort = "no",
           Once(r.cbs), In(r.cbs) \cup {0} = In(t.cbs) \cup {0}
    PROVE  Good(r, P) /\ Lives(r) = Lives(t)
<1>a. Sound(t) /\ Flows(t) /\ Counted(t, P) /\ ~t.misplaced
  BY DEF Good
<1>1. Lives(r) = Lives(t) /\ Waits(r) = Waits(t)
  BY DEF Lives, Waits
<1>2. Under(r) = Under(t)
  BY <1>1 DEF Under, Rides
<1>3. Counted(r, P)
  BY <1>2, <1>a DEF Counted
<1>4. Flows(r)
  BY <1>1, <1>a DEF Flows
<1>5. \A j \in ConnIds : j \in In(r.cbs) <=> j \in In(t.cbs)
  BY Constants
<1>6. Doomed(r)
  BY <1>1, <1>5, <1>a DEF Sound, Doomed
<1>7. Listing(r) /\ Blank(r) /\ Finite(r) /\ Queues(r)
  BY <1>a DEF Sound, Listing, Blank, Finite, Queues
<1>8. Loads(r) /\ Apart(r)
  BY <1>1, <1>a DEF Sound, Loads, Apart
<1> QED BY <1>1, <1>3, <1>4, <1>6, <1>7, <1>8, <1>a DEF Good, Sound

\* Everything goes.
LEMMA Cleared ==
    ASSUME NEW t \in States, NEW P, Good(t, P), NEW r \in States,
           r.conn = t.conn, r.proxy = t.proxy, r.lost = {}, r.misplaced = t.misplaced,
           \A h \in Hosts : r.srv[h] = NoServer,
           Once(r.cbs), In(r.cbs) = In(t.cbs) \cup Lives(t)
    PROVE  Good(r, {}) /\ Lives(r) = {}
<1>a. Sound(t) /\ ~t.misplaced
  BY DEF Good
<1>w. In(<<>>) = {} /\ Distinct(<<>>)
  BY InEmpty
<1>s. \A h \in Hosts : r.srv[h].reqs = <<>> /\ r.srv[h].conns = <<>>
  BY DEF NoServer
<1>1. Lives(r) = {}
  BY <1>s, <1>w DEF Lives
<1>2. Waits(r) = {}
  BY <1>s, <1>w, Constants DEF Waits
<1>3. Counted(r, {})
  BY <1>1, <1>2 DEF Counted, Under, Rides
<1>4. Flows(r)
  BY <1>1, <1>s, <1>w DEF Flows
<1>5. Listing(r) /\ Blank(r) /\ Finite(r) /\ Queues(r)
  BY <1>a, <1>s, <1>w DEF Sound, Listing, Blank, Finite, Queues
<1>6. Loads(r) /\ Apart(r)
  BY <1>1 DEF Loads, Apart
<1>7. Doomed(r)
  <2>1. \A j \in Lives(t) : j \in ConnIds /\ t.conn[j].st # "none"
    BY <1>a, LiveConn DEF Sound
  <2>2. In(r.cbs) \subseteq ConnIds \cup {0}
    BY <1>a, <2>1 DEF Sound, Doomed
  <2>3. \A j \in ConnIds : j \in In(r.cbs) => r.conn[j].st # "none"
    BY <1>a, <2>1 DEF Sound, Doomed
  <2>4. \A j \in ConnIds : r.conn[j].st # "none" => j \in In(r.cbs)
    BY <1>a DEF Sound, Doomed
  <2> QED BY <1>1, <2>2, <2>3, <2>4 DEF Doomed
<1> QED BY <1>1, <1>3, <1>4, <1>5, <1>6, <1>7, <1>a DEF Good, Sound

\* A connection is deleted.
LEMMA Deleted ==
    ASSUME NEW t \in States, NEW P, Good(t, P), NEW k \in ConnIds, t.cbs # <<>>,
           k = Head(t.cbs), NEW r \in States,
           r.conn[k] = NoConn, \A j \in ConnIds : j # k => r.conn[j] = t.conn[j],
           r.srv = t.srv, r.req = t.req, r.proxy = t.proxy, r.lost = t.lost,
           r.misplaced = t.misplaced, r.abort = t.abort, r.cbs = Tail(t.cbs)
    PROVE  Good(r, P) /\ Lives(r) = Lives(t)
<1>a. Sound(t) /\ Flows(t) /\ Counted(t, P) /\ ~t.misplaced
  BY DEF Good
<1>q. t.cbs \in Seq(Nat)
  BY Fields
<1>b. k \in In(t.cbs) /\ In(t.cbs) = {k} \cup In(r.cbs)
  BY <1>q, InTail
<1>c. k # 0
  BY Constants
<1>d. k \notin In(r.cbs) /\ Once(r.cbs)
  <2>1. Len(r.cbs) = Len(t.cbs) - 1 /\ k = t.cbs[1] /\ Len(t.cbs) \in Nat \ {0}
    BY <1>q, InTail
  <2>2. \A j \in 1..Len(r.cbs) : r.cbs[j] = t.cbs[j + 1] /\ j + 1 \in 1..Len(t.cbs) /\ j \in Int
    BY <1>q, <2>1
  <2>3. Once(t.cbs)
    BY <1>a DEF Sound, Doomed
  <2>4. ASSUME NEW j \in 1..Len(r.cbs), r.cbs[j] = k PROVE FALSE
    <3>1. 1 \in 1..Len(t.cbs)
      BY <2>1
    <3>2. j + 1 = 1
      BY <1>c, <2>1, <2>2, <2>3, <2>4, <3>1 DEF Once
    <3> QED BY <2>2, <3>2
  <2>5. ASSUME NEW i \in 1..Len(r.cbs), NEW j \in 1..Len(r.cbs), r.cbs[i] = r.cbs[j],
               r.cbs[i] # 0
        PROVE  i = j
    <3>1. i + 1 = j + 1
      BY <2>2, <2>3, <2>5 DEF Once
    <3> QED BY <2>2, <3>1
  <2> QED BY <2>4, <2>5 DEF In, Once
<1>e. k \notin Lives(t)
  BY <1>a, <1>b DEF Sound, Doomed
<1>1. Lives(r) = Lives(t) /\ Waits(r) = Waits(t)
  BY DEF Lives, Waits
<1>l. \A j \in Lives(t) : j \in ConnIds /\ j # k /\ r.conn[j] = t.conn[j]
  BY <1>e DEF Lives
<1>2. Under(r) = Under(t)
  BY <1>1, <1>l DEF Under, Rides
<1>3. Counted(r, P)
  BY <1>2, <1>a DEF Counted
<1>4. Flows(r)
  BY <1>1, <1>l, <1>a DEF Flows
<1>n. NoConn.st = "none"
  BY DEF NoConn
<1>5. Doomed(r)
  <2>1. /\ In(t.cbs) \subseteq ConnIds \cup {0}
        /\ \A i \in ConnIds : i \in In(t.cbs) => t.conn[i].st # "none" /\ i \notin Lives(t)
        /\ \A i \in ConnIds : t.conn[i].st # "none" => i \in Lives(t) \/ i \in In(t.cbs)
    BY <1>a DEF Sound, Doomed
  <2>2. In(r.cbs) \subseteq ConnIds \cup {0}
    BY <1>b, <2>1
  <2>3. \A i \in ConnIds : i \in In(r.cbs) => r.conn[i].st # "none" /\ i \notin Lives(r)
    <3>1. ASSUME NEW i \in ConnIds, i \in In(r.cbs)
          PROVE  r.conn[i].st # "none" /\ i \notin Lives(r)
      <4>1. i # k /\ i \in In(t.cbs)
        BY <1>b, <1>d, <3>1
      <4>2. r.conn[i] = t.conn[i]
        BY <4>1
      <4> QED BY <1>1, <2>1, <4>1, <4>2
    <3> QED BY <3>1
  <2>4. \A i \in ConnIds : r.conn[i].st # "none" => i \in Lives(r) \/ i \in In(r.cbs)
    <3>1. ASSUME NEW i \in ConnIds, r.conn[i].st # "none"
          PROVE  i \in Lives(r) \/ i \in In(r.cbs)
      <4>1. i # k
        BY <1>n, <3>1
      <4>2. r.conn[i] = t.conn[i]
        BY <4>1
      <4> QED BY <1>1, <1>b, <2>1, <3>1, <4>1, <4>2
    <3> QED BY <3>1
  <2> QED BY <1>d, <2>2, <2>3, <2>4 DEF Doomed
<1>6. Listing(r)
  <2>1. \A h \in Hosts : In(t.srv[h].conns) \subseteq Lives(t)
    <3>1. \A h \in Hosts : In(t.srv[h].conns) \subseteq ConnIds
      BY Fields, InEmpty
    <3> QED BY <3>1 DEF Lives
  <2> QED BY <1>a, <1>l, <2>1 DEF Sound, Listing
<1>7. Blank(r) /\ Finite(r) /\ Queues(r)
  BY <1>a, <1>n DEF Sound, Blank, Finite, Queues
<1>8. Loads(r)
  <2>1. ASSUME NEW j \in Lives(r)
        PROVE  /\ Tidy(r.conn[j])
               /\ \A u \in On(r.conn[j]) :
                     Host[u] = r.conn[j].host /\ u \notin In(r.srv[r.conn[j].host].reqs)
    <3>1. j \in Lives(t) /\ r.conn[j] = t.conn[j]
      BY <1>1, <1>l
    <3>2. /\ Tidy(t.conn[j])
          /\ \A u \in On(t.conn[j]) :
                Host[u] = t.conn[j].host /\ u \notin In(t.srv[t.conn[j].host].reqs)
      BY <1>a, <3>1 DEF Sound, Loads
    <3> QED BY <3>1, <3>2
  <2> QED BY <2>1 DEF Loads
<1>9. Apart(r)
  BY <1>1, <1>l, <1>a DEF Sound, Apart
<1> QED BY <1>1, <1>3, <1>4, <1>5, <1>6, <1>7, <1>8, <1>9, <1>a DEF Good, Sound

-----------------------------------------------------------------------------
(* What the operators of a connection do.                                  *)

\* A connection between two responses.
Fresh(c) ==
    /\ c.readcb = "http" /\ c.inp = <<>> /\ c.todo = <<>>
    /\ c.act # <<>> => c.out

\* No connection goes, and none that is between two responses gets into one.
Keeps(t, r) ==
    /\ r \in States
    /\ \A i \in Lives(t) : i \in Lives(r) /\ (Fresh(t.conn[i]) => Fresh(r.conn[i]))
    /\ r.abort = "no" => t.abort = "no"

\* http_write_to_outbuf, as a function of the connection.
Written(c, req) ==
    LET d == [c EXCEPT !.sub = Tail(@), !.act = Append(@, Head(c.sub)),
                       !.first = FirstByte(c, req[Head(c.sub)]), !.out = TRUE]
    IN  IF c.sub = <<>> \/ c.act # <<>> THEN c
        ELSE IF c.st = "CONNECTED" THEN EnableWrite(d) ELSE d

\* What it changes.
Wrote(c, d, req) ==
    /\ d \in Conns
    /\ d.st = c.st /\ d.host = c.host /\ d.readcb = c.readcb /\ d.mev = c.mev
    /\ d.inp = c.inp /\ d.todo = c.todo /\ d.closed = c.closed
    /\ d.writecb = c.writecb \/ (c.st = "CONNECTED" /\ d.writecb = "http")
    /\ \/ d = c /\ (c.sub = <<>> \/ c.act # <<>>)
       \/ /\ c.sub # <<>> /\ c.act = <<>>
          /\ d.sub = Tail(c.sub) /\ d.act = <<Head(c.sub)>> /\ d.out
          /\ d.first = req[Head(c.sub)].first

LEMMA EnableWriteIs ==
    ASSUME NEW c \in Conns
    PROVE  LET d == EnableWrite(c)
           IN  /\ d \in Conns /\ d.st = c.st /\ d.host = c.host /\ d.readcb = c.readcb
               /\ d.mev = c.mev /\ d.inp = c.inp /\ d.todo = c.todo /\ d.closed = c.closed
               /\ d.sub = c.sub /\ d.act = c.act /\ d.out = c.out /\ d.first = c.first
               /\ d.blen = c.blen /\ (d.writecb = c.writecb \/ d.writecb = "http")
<1>1. EnableWrite(c) \in Conns
  BY Zenon DEF EnableWrite, Conns, CbNames
<1> QED BY <1>1 DEF EnableWrite, Conns

LEMMA WrittenIs ==
    ASSUME NEW c \in Conns, NEW req, \A u \in Urls : req[u] \in Requests
    PROVE  Wrote(c, Written(c, req), req)
<1>1. CASE c.sub = <<>> \/ c.act # <<>>
  BY <1>1 DEF Written, Wrote
<1>2. CASE c.sub # <<>> /\ c.act = <<>>
  <2>1. c.sub \in Seq(Urls) /\ c.act \in Seq(Urls)
    BY ConnFields
  <2>2. PICK u \in Urls : u = Head(c.sub)
    BY <1>2, <2>1, InTail
  <2>3. PICK tail \in Seq(Urls) : tail = Tail(c.sub)
    BY <1>2, <2>1, InTail
  <2>4. Append(c.act, u) = <<u>> /\ <<u>> \in Seq(Urls)
    BY <1>2
  <2>5. PICK f \in Nat : f = FirstByte(c, req[u]) /\ f = req[u].first
    BY DEF FirstByte, Requests
  <2>6. PICK d : d = [c EXCEPT !.sub = tail, !.act = <<u>>, !.first = f, !.out = TRUE]
    OBVIOUS
  <2>7. d \in Conns
    BY <2>4, <2>6, Zenon DEF Conns
  <2>8. /\ d.st = c.st /\ d.host = c.host /\ d.readcb = c.readcb /\ d.mev = c.mev
        /\ d.inp = c.inp /\ d.todo = c.todo /\ d.closed = c.closed /\ d.writecb = c.writecb
        /\ d.sub = tail /\ d.act = <<u>> /\ d.out /\ d.first = f
    BY <2>6 DEF Conns
  <2>9. Written(c, req) = IF c.st = "CONNECTED" THEN EnableWrite(d) ELSE d
    BY <1>2, <2>2, <2>3, <2>4, <2>5, <2>6, Zenon DEF Written
  <2>10. CASE c.st = "CONNECTED"
    <3>1. PICK e : e = EnableWrite(d)
      OBVIOUS
    <3>2. /\ e \in Conns /\ e.st = c.st /\ e.host = c.host /\ e.readcb = c.readcb
          /\ e.mev = c.mev /\ e.inp = c.inp /\ e.todo = c.todo /\ e.closed = c.closed
          /\ e.sub = tail /\ e.act = <<u>> /\ e.out /\ e.first = f
          /\ (e.writecb = c.writecb \/ e.writecb = "http")
      BY <2>7, <2>8, <3>1, EnableWriteIs
    <3> QED BY <1>2, <2>2, <2>3, <2>5, <2>9, <2>10, <3>1, <3>2 DEF Wrote
  <2>11. CASE c.st # "CONNECTED"
    BY <1>2, <2>2, <2>3, <2>5, <2>7, <2>8, <2>9, <2>11 DEF Wrote
  <2> QED BY <2>10, <2>11
<1> QED BY <1>1, <1>2

LEMMA OutbufIs ==
    ASSUME NEW t \in States, NEW i \in ConnIds
    PROVE  HttpWriteToOutbuf(t, i) = PutConn(t, i, Written(t.conn[i], t.req))
<1>1. CASE t.conn[i].sub = <<>> \/ t.conn[i].act # <<>>
  <2>1. t.conn[i] \in Conns
    BY Fields
  <2>2. t.srv = t.srv /\ \E h \in Hosts : TRUE
    BY BrowserAssumption, Constants
  <2>3. PutConn(t, i, t.conn[i]) = t
    BY <2>1, <2>2, PutTwice, EmptySeq
  <2> QED BY <1>1, <2>3 DEF HttpWriteToOutbuf, Written
<1>2. CASE ~(t.conn[i].sub = <<>> \/ t.conn[i].act # <<>>)
  BY <1>2, Zenon DEF HttpWriteToOutbuf, Written, PutConn
<1> QED BY <1>1, <1>2

\* A sequence of one.
LEMMA InOne ==
    ASSUME NEW S, NEW x \in S
    PROVE  <<x>> \in Seq(S) /\ In(<<x>>) = {x} /\ <<x>> # <<>> /\ Len(<<x>>) = 1
           /\ <<x>>[1] = x /\ Head(<<x>>) = x /\ Tail(<<x>>) = <<>>
<1>1. <<x>> \in Seq(S) /\ <<x>> # <<>> /\ Len(<<x>>) = 1 /\ <<x>>[1] = x
      /\ Head(<<x>>) = x /\ Tail(<<x>>) = <<>>
  OBVIOUS
<1>2. 1..1 = {1}
  OBVIOUS
<1>3. In(<<x>>) = {x}
  BY <1>1, <1>2 DEF In
<1> QED BY <1>1, <1>3

\* http_write_to_outbuf keeps a connection in order.
LEMMA WroteKeeps ==
    ASSUME NEW c \in Conns, NEW d, NEW req, NEW proxy, Wrote(c, d, req),
           Steady(c, req, proxy), Tidy(c), \A u \in Urls : req[u] \in Requests
    PROVE  /\ Steady(d, req, proxy) /\ Tidy(d) /\ On(d) = On(c)
           /\ Fresh(c) => Fresh(d)
<1>1. CASE d = c
  BY <1>1
<1>2. CASE /\ c.sub # <<>> /\ c.act = <<>>
           /\ d.sub = Tail(c.sub) /\ d.act = <<Head(c.sub)>> /\ d.out
           /\ d.first = req[Head(c.sub)].first
  <2>1. c.sub \in Seq(Urls) /\ c.act \in Seq(Urls)
    BY ConnFields
  <2>2. PICK u \in Urls : u = Head(c.sub)
    BY <1>2, <2>1, InTail
  <2>3. In(c.sub) = {u} \cup In(d.sub) /\ u \notin In(d.sub) /\ Distinct(d.sub)
    BY <1>2, <2>1, <2>2, InTail DEF Tidy
  <2>4. In(d.act) = {u} /\ d.act # <<>> /\ Len(d.act) = 1 /\ d.act[1] = u
    BY <1>2, <2>2, InOne
  <2>5. On(d) = On(c)
    BY <1>2, <2>3, <2>4, InEmpty DEF On
  <2>6. Tidy(d)
    BY <2>3, <2>4 DEF Tidy
  <2>7. Asks(req[u], u) /\ d.first = req[u].first /\ \A v \in In(d.sub) : Asks(req[v], v)
    BY <1>2, <2>2, <2>3 DEF Steady
  <2>8. Unsent(d, req)
    BY <1>2, <2>4, <2>7 DEF Unsent, Asks
  <2>9. d.inp = c.inp /\ d.todo = c.todo /\ d.readcb = c.readcb /\ d.mev = c.mev
        /\ d.st = c.st /\ (d.writecb = c.writecb \/ (c.st = "CONNECTED" /\ d.writecb = "http"))
    BY DEF Wrote
  <2>10. Flow(c, req, c.inp \o c.todo) => c.inp \o c.todo = <<>>
    BY <1>2 DEF Flow
  <2>11. Steady(d, req, proxy)
    <3>1. CASE c.readcb = "http"
      <4>1. c.writecb # "socks" /\ (c.mev = "CONNECTING" => ~proxy)
            /\ Flow(c, req, c.inp \o c.todo)
        BY <3>1 DEF Steady
      <4>2. d.writecb # "socks" /\ Flow(d, req, d.inp \o d.todo)
        BY <2>8, <2>9, <2>10, <4>1 DEF Flow
      <4> QED BY <2>7, <2>9, <3>1, <4>1, <4>2 DEF Steady
    <3>2. CASE c.readcb # "http"
      <4>1. proxy /\ Shaking(c)
        BY <3>2 DEF Steady
      <4>2. Shaking(d)
        BY <2>9, <4>1 DEF Shaking
      <4> QED BY <2>7, <2>8, <2>9, <3>2, <4>1, <4>2 DEF Steady
    <3> QED BY <3>1, <3>2
  <2>12. Fresh(c) => Fresh(d)
    BY <1>2, <2>9 DEF Fresh
  <2> QED BY <2>5, <2>6, <2>11, <2>12
<1> QED BY <1>1, <1>2 DEF Wrote

\* A state in which connection i is another one.
LEMMA KeepsOthers ==
    ASSUME NEW t \in States, NEW i \in ConnIds, NEW d, NEW r, ConnIs(t, r, i, d),
           Fresh(t.conn[i]) => Fresh(d)
    PROVE  Keeps(t, r) /\ Lives(r) = Lives(t)
<1>1. Lives(r) = Lives(t)
  BY DEF ConnIs, Lives
<1>2. \A j \in Lives(t) : j \in ConnIds
  BY DEF Lives
<1> QED BY <1>1, <1>2 DEF ConnIs, Keeps

\* http_write_to_outbuf.
LEMMA OutbufKeeps ==
    ASSUME NEW t \in States, NEW P, Good(t, P), NEW i \in Lives(t)
    PROVE  LET r == HttpWriteToOutbuf(t, i)
           IN  /\ Good(r, P) /\ Keeps(t, r)
               /\ \E d \in Conns : ConnIs(t, r, i, d) /\ Wrote(t.conn[i], d, t.req)
<1>a. Sound(t) /\ Flows(t) /\ Counted(t, P)
  BY DEF Good
<1>b. i \in ConnIds /\ t.conn[i] \in Conns /\ t.conn[i].st # "none"
  BY <1>a, LiveConn DEF Sound
<1>1. \A u \in Urls : t.req[u] \in Requests
  BY Fields
<1>2. PICK d : d = Written(t.conn[i], t.req)
  OBVIOUS
<1>3. Wrote(t.conn[i], d, t.req)
  BY <1>1, <1>2, <1>b, WrittenIs
<1>4. PICK r : r = HttpWriteToOutbuf(t, i)
  OBVIOUS
<1>5. r = PutConn(t, i, d) /\ d \in Conns
  BY <1>2, <1>3, <1>4, <1>b, OutbufIs DEF Wrote
<1>6. ConnIs(t, r, i, d)
  BY <1>5, <1>b, ConnPut
<1>7. Steady(t.conn[i], t.req, t.proxy) /\ Tidy(t.conn[i])
  BY <1>a DEF Flows, Sound, Loads
<1>8. Steady(d, t.req, t.proxy) /\ Tidy(d) /\ On(d) = On(t.conn[i])
      /\ (Fresh(t.conn[i]) => Fresh(d))
  BY <1>1, <1>3, <1>7, <1>b, WroteKeeps
<1>9. d.st # "none" /\ d.host = t.conn[i].host
  BY <1>3, <1>b DEF Wrote
<1>10. Good(r, (P \ On(t.conn[i])) \cup On(d))
  BY <1>5, <1>8, <1>9, Replaced
<1>11. On(t.conn[i]) \subseteq P
  <2>1. On(t.conn[i]) \subseteq Rides(t)
    BY <1>a, Exclusive
  <2> QED BY <1>a, <2>1 DEF Counted, Under
<1>12. Good(r, P)
  <2>1. (P \ On(t.conn[i])) \cup On(d) = P
    BY <1>8, <1>11
  <2> QED BY <1>10, <2>1
<1>13. Keeps(t, r)
  BY <1>6, <1>8, <1>b, KeepsOthers
<1> QED BY <1>3, <1>4, <1>5, <1>6, <1>12, <1>13

\* Keeping is transitive.
LEMMA KeepsOn ==
    ASSUME NEW r, NEW t, NEW v, Keeps(r, t), Keeps(t, v)
    PROVE  Keeps(r, v)
BY DEF Keeps

\* d is c with one more request submitted to it.
Burdens(c, d, u) == d = [c EXCEPT !.sub = Append(c.sub, u)]

\* submit_request of a connection.
LEMMA SubmittedIs ==
    ASSUME NEW t \in States, NEW i \in ConnIds, t.conn[i].st # "none", NEW u \in Urls
    PROVE  \E d, e \in Conns :
              /\ Burdens(t.conn[i], d, u)
              /\ e = Written(d, t.req) /\ Wrote(d, e, t.req)
              /\ ConnSubmit(t, i, u) = PutConn(t, i, e)
              /\ HttpWriteToOutbuf(PutConn(t, i, d), i) = PutConn(t, i, e)
<1>1. t.conn[i] \in Conns /\ t.conn[i].sub \in Seq(Urls)
  BY Fields, ConnFields
<1>2. PICK q \in Seq(Urls) : q = Append(t.conn[i].sub, u)
  BY <1>1, InAppend
<1>3. PICK d : d = [t.conn[i] EXCEPT !.sub = q]
  OBVIOUS
<1>4. d \in Conns
  BY <1>1, <1>3, Zenon DEF Conns
<1>5. \A v \in Urls : t.req[v] \in Requests
  BY Fields
<1>6. PICK e : e = Written(d, t.req)
  OBVIOUS
<1>7. Wrote(d, e, t.req)
  BY <1>4, <1>5, <1>6, WrittenIs
<1>8. e \in Conns
  BY <1>7 DEF Wrote
<1>9. PICK m : m = PutConn(t, i, d)
  OBVIOUS
<1>10. m \in States /\ m.conn[i] = d /\ m.req = t.req
  BY <1>4, <1>9, ConnPut DEF ConnIs
<1>11. HttpWriteToOutbuf(m, i) = PutConn(m, i, e)
  BY <1>6, <1>10, OutbufIs
<1>12. PICK h \in Hosts : TRUE
  BY BrowserAssumption, Constants
<1>13. PutConn(m, i, e) = PutConn(t, i, e)
  BY <1>2, <1>4, <1>8, <1>9, <1>12, PutTwice
<1>14. ConnSubmit(t, i, u) = HttpWriteToOutbuf(m, i)
  <2>1. [t EXCEPT !.conn[i].sub = Append(@, u)] = m
    BY <1>2, <1>3, <1>9, Zenon DEF PutConn
  <2> QED BY <2>1 DEF ConnSubmit
<1> QED BY <1>2, <1>3, <1>4, <1>6, <1>7, <1>8, <1>9, <1>11, <1>13, <1>14 DEF Burdens

\* A connection that has a request submitted to it.
LEMMA Burdened ==
    ASSUME NEW c \in Conns, NEW u \in Urls, NEW req, NEW proxy,
           Steady(c, req, proxy), Tidy(c), u \notin On(c), Asks(req[u], u),
           NEW d, Burdens(c, d, u)
    PROVE  /\ Steady(d, req, proxy) /\ Tidy(d) /\ On(d) = On(c) \cup {u}
           /\ d.st = c.st /\ d.host = c.host /\ (Fresh(c) => Fresh(d))
<1>1. c.sub \in Seq(Urls)
  BY ConnFields
<1>2. PICK q : q = Append(c.sub, u)
  OBVIOUS
<1>3. In(q) = In(c.sub) \cup {u} /\ (Distinct(c.sub) => Distinct(q))
  BY <1>1, <1>2, InAppend DEF On
<1>4. /\ d.sub = q /\ d.act = c.act /\ d.st = c.st /\ d.host = c.host /\ d.readcb = c.readcb
      /\ d.mev = c.mev /\ d.inp = c.inp /\ d.todo = c.todo /\ d.out = c.out
      /\ d.first = c.first /\ d.blen = c.blen /\ d.writecb = c.writecb
  BY <1>2 DEF Conns, Burdens
<1>5. On(d) = On(c) \cup {u}
  BY <1>3, <1>4 DEF On
<1>6. Tidy(d)
  BY <1>3, <1>4 DEF Tidy, On
<1>7. Unsent(d, req) <=> Unsent(c, req)
  BY <1>4 DEF Unsent
<1>8. \A r, v, p, w : Reading(d, r, v, p, w) <=> Reading(c, r, v, p, w)
  BY <1>4 DEF Reading
<1>9. \A w : Flow(d, req, w) <=> Flow(c, req, w)
  BY <1>4, <1>7, <1>8 DEF Flow
<1>10. Shaking(d) <=> Shaking(c)
  BY <1>4 DEF Shaking
<1>11. Steady(d, req, proxy)
  BY <1>3, <1>4, <1>7, <1>9, <1>10 DEF Steady
<1>12. Fresh(c) => Fresh(d)
  BY <1>4 DEF Fresh
<1> QED BY <1>4, <1>5, <1>6, <1>11, <1>12

\* The request at the front of a server's queue goes to one of its connections.
LEMMA FrontKeeps ==
    ASSUME NEW t \in States, NEW P, Good(t, P), NEW i \in Lives(t),
           t.srv[t.conn[i].host].reqs # <<>>
    PROVE  Good(SubmitFront(t, i), P) /\ Keeps(t, SubmitFront(t, i))
           /\ SubmitFront(t, i).b = t.b /\ SubmitFront(t, i).req = t.req
<1>a. Sound(t) /\ Flows(t) /\ Counted(t, P)
  BY DEF Good
<1>1. PICK h \in Hosts : h = t.conn[i].host
  BY <1>a, LiveConn DEF Sound
<1>2. i \in ConnIds /\ t.conn[i] \in Conns /\ t.conn[i].st # "none"
  BY <1>a, LiveConn DEF Sound
<1>3. PICK q \in Seq(Urls) : q = t.srv[h].reqs
  BY Fields
<1>4. PICK u \in Urls : u = Head(q)
  BY <1>1, <1>3, InTail
<1>5. PICK w \in Seq(Urls) : w = Tail(q)
  BY <1>1, <1>3, InTail
<1>6. In(q) = {u} \cup In(w) /\ u \notin In(w) /\ Distinct(w) /\ Host[u] = h /\ Asks(t.req[u], u)
  <2>1. Distinct(q) /\ \A v \in In(q) : Host[v] = h /\ Asks(t.req[v], v)
    BY <1>3, <1>a DEF Sound, Queues, Flows
  <2>2. q # <<>>
    BY <1>1, <1>3
  <2>3. In(q) = {u} \cup In(w) /\ u \notin In(w) /\ Distinct(w)
    BY <1>4, <1>5, <2>1, <2>2, InTail
  <2> QED BY <2>1, <2>3
<1>7. PICK m : m = PutReqs(t, h, w)
  OBVIOUS
<1>8. ReqsIs(t, m, h, w)
  BY <1>7, ReqsPut
<1>9. Good(m, P \ {u}) /\ Lives(m) = Lives(t)
  <2>1. Good(m, (P \ In(q)) \cup In(w)) /\ Lives(m) = Lives(t)
    <3>1. Admits(t, P, h, w)
      BY <1>3, <1>6 DEF Admits
    <3> QED BY <1>3, <1>6, <1>8, <3>1, Requeued
  <2>2. In(q) \subseteq P
    <3>1. In(q) \subseteq Waits(t)
      <4>1. In(q) \subseteq Urls /\ \A v \in In(q) : Host[v] = h
        BY <1>3, <1>a, InEmpty DEF Sound, Queues
      <4> QED BY <1>3, <4>1 DEF Waits
    <3> QED BY <1>a, <3>1 DEF Counted, Under
  <2>3. (P \ In(q)) \cup In(w) = P \ {u}
    BY <1>6, <2>2
  <2> QED BY <2>1, <2>3
<1>10. PICK d, e \in Conns :
          /\ Burdens(t.conn[i], d, u)
          /\ e = Written(d, t.req) /\ Wrote(d, e, t.req)
          /\ ConnSubmit(t, i, u) = PutConn(t, i, e)
  BY <1>2, SubmittedIs
<1>11. PICK r : r = SubmitFront(t, i)
  OBVIOUS
<1>12. r = PutConn(m, i, e)
  <2>1. PICK v : v = PutConn(t, i, e)
    OBVIOUS
  <2>2. v.srv = t.srv
    <3>1. ConnIs(t, v, i, e)
      BY <1>2, <1>10, <2>1, ConnPut, Zenon
    <3> QED BY <3>1 DEF ConnIs
  <2>3. r = [v EXCEPT !.srv[h].reqs = Tail(@)]
    BY <1>1, <1>3, <1>4, <1>10, <1>11, <2>1, Zenon DEF SubmitFront
  <2>4. r = PutReqs(v, h, w)
    BY <1>3, <1>5, <2>2, <2>3, Zenon DEF PutReqs
  <2>5. PutReqs(v, h, w) = PutConn(m, i, e)
    BY <1>2, <1>7, <1>10, <2>1, PutTwice
  <2> QED BY <2>4, <2>5
<1>13. m \in States /\ m.conn = t.conn /\ m.req = t.req /\ m.b = t.b /\ m.abort = t.abort
       /\ m.proxy = t.proxy
  BY <1>8 DEF ReqsIs
<1>14. Steady(t.conn[i], t.req, t.proxy) /\ Tidy(t.conn[i])
  BY <1>a DEF Flows, Sound, Loads
<1>15. On(t.conn[i]) \subseteq P \ {u}
  <2>1. On(m.conn[i]) \subseteq Rides(m)
    BY <1>9, <1>13, Exclusive DEF Good
  <2> QED BY <1>9, <1>13, <2>1 DEF Good, Counted, Under
<1>16. /\ Steady(d, t.req, t.proxy) /\ Tidy(d) /\ On(d) = On(t.conn[i]) \cup {u}
       /\ d.st = t.conn[i].st /\ d.host = t.conn[i].host
       /\ (Fresh(t.conn[i]) => Fresh(d))
  BY <1>2, <1>6, <1>10, <1>14, <1>15, Burdened
<1>17. \A v \in Urls : t.req[v] \in Requests
  BY Fields
<1>18. /\ Steady(e, t.req, t.proxy) /\ Tidy(e) /\ On(e) = On(d) /\ (Fresh(d) => Fresh(e))
       /\ e.st = d.st /\ e.host = d.host
  <2>1. /\ Steady(e, t.req, t.proxy) /\ Tidy(e) /\ On(e) = On(d) /\ (Fresh(d) => Fresh(e))
    BY <1>10, <1>16, <1>17, WroteKeeps
  <2>2. e.st = d.st /\ e.host = d.host
    BY <1>10 DEF Wrote
  <2> QED BY <2>1, <2>2
<1>19. Good(r, ((P \ {u}) \ On(t.conn[i])) \cup On(e))
  <2>1. \A v \in On(e) \ On(m.conn[i]) : v \notin P \ {u} /\ Host[v] = e.host
    BY <1>1, <1>6, <1>13, <1>16, <1>18
  <2>2. /\ e.st # "none" /\ e.host = m.conn[i].host /\ Tidy(e)
        /\ Steady(e, m.req, m.proxy) /\ i \in Lives(m)
    BY <1>2, <1>9, <1>13, <1>16, <1>18
  <2> QED BY <1>9, <1>10, <1>12, <1>13, <2>1, <2>2, Replaced
<1>20. Good(r, P)
  <2>1. u \in P
    <3>1. u \in Waits(t)
      BY <1>1, <1>3, <1>6 DEF Waits
    <3> QED BY <1>a, <3>1 DEF Counted, Under
  <2>2. ((P \ {u}) \ On(t.conn[i])) \cup On(e) = P
    BY <1>15, <1>16, <1>18, <2>1
  <2> QED BY <1>19, <2>2
<1>21. ConnIs(m, r, i, e)
  BY <1>2, <1>10, <1>12, <1>13, ConnPut
<1>22. Keeps(t, r)
  <2>1. Keeps(m, r)
    BY <1>2, <1>13, <1>16, <1>18, <1>21, KeepsOthers
  <2> QED BY <1>9, <1>13, <2>1 DEF Keeps
<1> QED BY <1>11, <1>13, <1>20, <1>21, <1>22 DEF ConnIs

\* A new connection.
LEMMA NoConnIs == NoConn \in Conns
<1>1. \A S : <<>> \in Seq(S)
  OBVIOUS
<1>2. /\ "none" \in Sts /\ "none" \in Places /\ "SOCKS5_NONE" \in SocksStates
      /\ "STATUS_LINE" \in Rsps /\ "INIT" \in Mevs /\ "NULL" \in CbNames
      /\ 0 \in Nat /\ -1 \in Int /\ FALSE \in BOOLEAN
  BY DEF Sts, Places, SocksStates, Rsps, Mevs, CbNames
<1> QED BY <1>1, <1>2, Zenon DEF NoConn, Conns

LEMMA NewConnectionIs ==
    ASSUME NEW h \in Hosts, NEW proxy \in BOOLEAN, NEW req
    PROVE  LET d == NewConnection(h, proxy)
           IN  d \in Conns /\ Unused(d, h, req, proxy)
<1>1. PICK c : c = [NoConn EXCEPT !.st = "CONNECTING", !.host = h, !.mev = "CONNECTING"]
  OBVIOUS
<1>2. "CONNECTING" \in Sts /\ h \in Places /\ "CONNECTING" \in Mevs
  BY DEF Sts, Places, Mevs
<1>3. c \in Conns
  BY <1>1, <1>2, NoConnIs, Zenon DEF Conns
<1>4. /\ c.st = "CONNECTING" /\ c.host = h /\ c.mev = "CONNECTING" /\ c.sub = <<>>
      /\ c.act = <<>> /\ c.out = FALSE /\ c.todo = <<>> /\ c.inp = <<>>
      /\ c.readcb = "NULL" /\ c.writecb = "NULL"
  BY <1>1 DEF NoConn
<1>5. PICK d : d = NewConnection(h, proxy)
  OBVIOUS
<1>6. CASE proxy
  <2>1. d = [c EXCEPT !.writecb = "socks"]
    BY <1>1, <1>5, <1>6, Zenon DEF NewConnection
  <2>2. "socks" \in CbNames
    BY DEF CbNames
  <2>3. d \in Conns
    BY <1>3, <2>1, <2>2, Zenon DEF Conns
  <2>4. /\ d.st = "CONNECTING" /\ d.host = h /\ d.sub = <<>>
        /\ d.act = <<>> /\ d.out = FALSE /\ d.todo = <<>> /\ d.inp = <<>>
        /\ d.readcb = "NULL" /\ d.writecb = "socks"
    BY <1>3, <1>4, <2>1 DEF Conns
  <2>5. Tidy(d) /\ On(d) = {}
    BY <2>4, InEmpty DEF Tidy, On
  <2>6. Steady(d, req, proxy)
    BY <1>6, <2>4, InEmpty DEF Steady, Shaking, Unsent
  <2> QED BY <1>5, <2>3, <2>4, <2>5, <2>6 DEF Unused
<1>7. CASE ~proxy
  <2>1. PICK e : e = [c EXCEPT !.readcb = "http"]
    OBVIOUS
  <2>2. "http" \in CbNames
    BY DEF CbNames
  <2>3. e \in Conns
    BY <1>3, <2>1, <2>2, Zenon DEF Conns
  <2>4. /\ e.st = "CONNECTING" /\ e.host = h /\ e.sub = <<>>
        /\ e.act = <<>> /\ e.out = FALSE /\ e.todo = <<>> /\ e.inp = <<>>
        /\ e.readcb = "http" /\ e.writecb = "NULL"
    BY <1>3, <1>4, <2>1 DEF Conns
  <2>5. d = EnableWrite(e)
    BY <1>1, <1>5, <1>7, <2>1, Zenon DEF NewConnection
  <2>6. /\ d \in Conns /\ d.st = "CONNECTING" /\ d.host = h /\ d.sub = <<>>
        /\ d.act = <<>> /\ d.out = FALSE /\ d.todo = <<>> /\ d.inp = <<>>
        /\ d.readcb = "http" /\ d.writecb # "socks"
    BY <2>3, <2>4, <2>5, EnableWriteIs
  <2>7. Tidy(d) /\ On(d) = {}
    BY <2>6, InEmpty DEF Tidy, On
  <2>8. <<>> \o <<>> = <<>>
    OBVIOUS
  <2>9. Steady(d, req, proxy)
    BY <1>7, <2>6, <2>8, InEmpty DEF Steady, Flow, Unsent
  <2> QED BY <1>5, <2>6, <2>7, <2>9 DEF Unused
<1> QED BY <1>6, <1>7

\* submit_request of the manager.
LEMMA SubmitKeeps ==
    ASSUME NEW t \in States, NEW P, Good(t, P), NEW u \in Urls, u \notin P,
           Asks(t.req[u], u), ConnIds = Nat \ {0}
    PROVE  LET r == SubmitRequest(t, u)
           IN  Good(r, P \cup {u}) /\ Keeps(t, r) /\ r.b = t.b /\ r.req = t.req
<1>1. PICK h \in Hosts : h = Host[u]
  BY Constants
<1>2. PICK w \in Seq(Urls) : w = t.srv[h].reqs
  BY Fields
<1>3. PICK q : q = Append(w, u)
  OBVIOUS
<1>a. Sound(t) /\ Flows(t) /\ Counted(t, P)
  BY DEF Good
<1>4. In(w) \subseteq P /\ Distinct(w) /\ \A v \in In(w) : Host[v] = h
  <2>1. Distinct(w) /\ \A v \in In(w) : Host[v] = h
    BY <1>2, <1>a DEF Sound, Queues
  <2>2. In(w) \subseteq Urls
    BY InEmpty
  <2>3. In(w) \subseteq Waits(t)
    BY <1>2, <2>1, <2>2 DEF Waits
  <2> QED BY <1>a, <2>1, <2>3 DEF Counted, Under
<1>5. q \in Seq(Urls) /\ In(q) = In(w) \cup {u} /\ Distinct(q) /\ q # <<>>
  BY <1>3, <1>4, InAppend
<1>6. PICK m : m = PutReqs(t, h, q)
  OBVIOUS
<1>7. ReqsIs(t, m, h, q)
  BY <1>5, <1>6, ReqsPut
<1>8. Good(m, P \cup {u}) /\ Lives(m) = Lives(t)
  <2>1. Admits(t, P, h, q)
    BY <1>1, <1>2, <1>5 DEF Admits
  <2>2. Good(m, (P \ In(w)) \cup In(q)) /\ Lives(m) = Lives(t)
    BY <1>2, <1>5, <1>7, <2>1, Requeued
  <2>3. (P \ In(w)) \cup In(q) = P \cup {u}
    BY <1>4, <1>5
  <2> QED BY <2>2, <2>3
<1>9. /\ m \in States /\ m.conn = t.conn /\ m.req = t.req /\ m.b = t.b /\ m.abort = t.abort
      /\ m.proxy = t.proxy /\ m.persist = t.persist /\ m.srv[h].conns = t.srv[h].conns
      /\ m.srv[h].reqs = q
  BY <1>7 DEF ReqsIs
<1>10. Keeps(t, m)
  BY <1>8, <1>9 DEF Keeps
<1>11. [t EXCEPT !.srv[h].reqs = Append(@, u)] = m
  BY <1>2, <1>3, <1>6, Zenon DEF PutReqs
<1>12. PICK conns \in Seq(ConnIds) : conns = t.srv[h].conns
  BY Fields
<1>13. PICK idle : idle = {k \in DOMAIN conns : QueueSize(t.conn[conns[k]]) = 0}
  OBVIOUS
<1>14. PICK new : new = FreeId(t)
  OBVIOUS
<1>15. PICK r : r = SubmitRequest(t, u)
  OBVIOUS
<1>16. PICK joined : joined = [m EXCEPT !.conn[new] = NewConnection(h, t.proxy),
                                        !.srv[h].conns = Append(@, new)]
  OBVIOUS
<1>17. r = IF idle # {} THEN SubmitFront(m, conns[Min(idle)])
           ELSE IF Len(conns) >= t.persist THEN m
           ELSE SubmitFront(joined, new)
  <2> DEFINE h2 == Host[u]
             m2 == [t EXCEPT !.srv[h2].reqs = Append(@, u)]
             conns2 == t.srv[h2].conns
             idle2 == {k \in DOMAIN conns2 : QueueSize(t.conn[conns2[k]]) = 0}
             new2 == FreeId(t)
             joined2 == [m2 EXCEPT !.conn[new2] = NewConnection(h2, t.proxy),
                                   !.srv[h2].conns = Append(@, new2)]
  <2>1. r = IF idle2 # {} THEN SubmitFront(m2, conns2[Min(idle2)])
            ELSE IF Len(conns2) >= t.persist THEN m2
            ELSE SubmitFront(joined2, new2)
    BY <1>15, Zenon DEF SubmitRequest
  <2>2. h2 = h /\ new2 = new
    BY <1>1, <1>14
  <2>3. m2 = m
    BY <1>1, <1>11
  <2>4. conns2 = conns
    BY <1>1, <1>12
  <2> HIDE DEF h2, m2, conns2, new2
  <2>5. idle2 = idle
    BY <1>13, <2>4
  <2>6. joined2 = joined
    BY <1>16, <2>2, <2>3
  <2> HIDE DEF idle2, joined2
  <2> QED BY <2>1, <2>2, <2>3, <2>4, <2>5, <2>6
<1>18. CASE idle # {}
  <2>1. idle \subseteq Nat /\ DOMAIN conns = 1..Len(conns)
    BY <1>13
  <2>2. Min(idle) \in 1..Len(conns)
    BY <1>13, <1>18, <2>1, MinIn
  <2>3. PICK i : i = conns[Min(idle)]
    OBVIOUS
  <2>4. i \in In(conns) /\ i \in ConnIds
    BY <2>2, <2>3, InEmpty DEF In
  <2>5. i \in Lives(m) /\ m.conn[i].host = h
    BY <1>12, <1>8, <1>9, <1>a, <2>4 DEF Lives, Sound, Listing
  <2>6. Good(SubmitFront(m, i), P \cup {u}) /\ Keeps(m, SubmitFront(m, i))
        /\ SubmitFront(m, i).b = m.b /\ SubmitFront(m, i).req = m.req
    BY <1>5, <1>8, <1>9, <2>5, FrontKeeps
  <2>7. r = SubmitFront(m, i)
    BY <1>17, <1>18, <2>3
  <2> QED BY <1>9, <1>10, <1>15, <2>6, <2>7, KeepsOn
<1>19. CASE idle = {} /\ Len(conns) >= t.persist
  BY <1>8, <1>9, <1>10, <1>15, <1>17, <1>19
<1>20. CASE idle = {} /\ ~(Len(conns) >= t.persist)
  <2>1. new \in ConnIds /\ t.conn[new].st = "none"
    BY <1>14, <1>a, FreeIdIs
  <2>2. PICK d : d = NewConnection(h, t.proxy)
    OBVIOUS
  <2>3. t.proxy \in BOOLEAN
    BY Fields
  <2>4. d \in Conns /\ Unused(d, h, m.req, m.proxy) /\ d.host = h
    <3>1. d \in Conns /\ Unused(d, h, t.req, t.proxy)
      BY <2>2, <2>3, NewConnectionIs
    <3> QED BY <1>9, <3>1 DEF Unused
  <2>5. PICK x : x = PutConn(m, new, d)
    OBVIOUS
  <2>6. ConnIs(m, x, new, d)
    BY <1>9, <2>1, <2>4, <2>5, ConnPut
  <2>7. x \in States /\ x.srv = m.srv
    BY <2>6 DEF ConnIs
  <2>8. PICK y \in Seq(ConnIds) : y = Append(conns, new)
    BY <2>1, InAppend
  <2>9. joined = PutConns(x, h, y)
    <3>1. m.srv[h].conns = conns
      BY <1>9, <1>12
    <3>2. joined = [m EXCEPT !.conn[new] = d, !.srv[h].conns = y]
      BY <1>16, <2>2, <2>8, <3>1, Zenon
    <3> QED BY <3>2, <2>5, Zenon DEF PutConn, PutConns
  <2>10. ConnsIs(x, joined, h, y)
    BY <2>7, <2>8, <2>9, ConnsPut
  <2>11. ConnsIs(x, joined, h, Append(m.srv[h].conns, new))
    BY <1>9, <1>12, <2>8, <2>10
  <2>12. Good(joined, P \cup {u}) /\ Lives(joined) = Lives(m) \cup {new}
    <3>1. m.conn[new].st = "none"
      BY <1>9, <2>1
    <3> QED BY <1>8, <1>9, <2>1, <2>4, <2>6, <2>11, <3>1, Joined
  <2>13. /\ joined \in States /\ joined.conn = x.conn /\ joined.b = x.b /\ joined.req = x.req
         /\ joined.srv[h].reqs = q /\ joined.abort = x.abort
    BY <1>9, <2>7, <2>10 DEF ConnsIs
  <2>14. x.b = t.b /\ x.req = t.req /\ x.abort = t.abort /\ x.conn[new] = d
         /\ \A j \in ConnIds : j # new => x.conn[j] = t.conn[j]
    BY <1>9, <2>6 DEF ConnIs
  <2>15. Keeps(t, joined)
    <3>1. ASSUME NEW j \in Lives(t)
          PROVE  j \in Lives(joined) /\ joined.conn[j] = t.conn[j]
      <4>1. j \in ConnIds /\ t.conn[j].st # "none"
        BY <1>a, LiveConn DEF Sound
      <4>2. j # new
        BY <2>1, <4>1
      <4> QED BY <1>8, <2>12, <2>13, <2>14, <4>1, <4>2
    <3> QED BY <2>13, <2>14, <3>1 DEF Keeps
  <2>16. new \in Lives(joined) /\ joined.srv[joined.conn[new].host].reqs # <<>>
    BY <1>5, <2>4, <2>12, <2>13, <2>14
  <2>17. /\ Good(SubmitFront(joined, new), P \cup {u})
         /\ Keeps(joined, SubmitFront(joined, new))
         /\ SubmitFront(joined, new).b = joined.b /\ SubmitFront(joined, new).req = joined.req
    BY <2>12, <2>13, <2>16, FrontKeeps
  <2>18. r = SubmitFront(joined, new)
    BY <1>17, <1>20
  <2> QED BY <1>15, <2>13, <2>14, <2>15, <2>17, <2>18, KeepsOn
<1> QED BY <1>18, <1>19, <1>20

-----------------------------------------------------------------------------
(* What the operators of the browser do.                                   *)

\* r is t but for what the browser notes of the load, and what is to be done for it.
Notes(t, r) ==
    /\ r \in States
    /\ r.conn = t.conn /\ r.srv = t.srv /\ r.req = t.req /\ r.proxy = t.proxy
    /\ r.lost = t.lost /\ r.misplaced = t.misplaced
    /\ r.abort = "no" => t.abort = "no"
    /\ Once(t.cbs) => Once(r.cbs)
    /\ In(r.cbs) \cup {0} = In(t.cbs) \cup {0}

LEMMA NotesKeep ==
    ASSUME NEW t \in States, NEW P, Good(t, P), NEW r, Notes(t, r)
    PROVE  Good(r, P) /\ Keeps(t, r) /\ Lives(r) = Lives(t)
<1>1. r \in States /\ Once(r.cbs)
  BY DEF Notes, Good, Sound, Doomed
<1>2. Good(r, P) /\ Lives(r) = Lives(t)
  BY <1>1, Beside DEF Notes
<1>3. Keeps(t, r)
  BY <1>2 DEF Notes, Keeps
<1> QED BY <1>2, <1>3

\* The browser_t object is another one.
PutB(t, x) == [t EXCEPT !.b = x]

LEMMA BrowserPut ==
    ASSUME NEW t \in States, NEW x \in Browsers
    PROVE  /\ Notes(t, PutB(t, x)) /\ PutB(t, x).b = x /\ PutB(t, x).abort = t.abort
           /\ PutB(t, x).cbs = t.cbs /\ PutB(t, x).nap = t.nap /\ PutB(t, x).timers = t.timers
           /\ PutB(t, x).timed = t.timed /\ PutB(t, x).persist = t.persist
<1>1. PutB(t, x) \in States
  BY Zenon DEF States, PutB
<1>2. /\ PutB(t, x).b = x /\ PutB(t, x).abort = t.abort /\ PutB(t, x).cbs = t.cbs
      /\ PutB(t, x).nap = t.nap /\ PutB(t, x).timers = t.timers
      /\ PutB(t, x).timed = t.timed /\ PutB(t, x).persist = t.persist
  BY DEF States, PutB
<1>3. Notes(t, PutB(t, x))
  BY <1>1, <1>2 DEF States, PutB, Notes
<1> QED BY <1>2, <1>3

LEMMA BrowserFields ==
    ASSUME NEW x \in Browsers
    PROVE  /\ x.state \in LoadStates /\ x.loadnum \in Nat /\ x.pending \in SUBSET Urls
           /\ x.embedded \in SUBSET Urls /\ x.received \in SUBSET Urls
           /\ x.expected \in SUBSET Urls /\ x.notified \in BOOLEAN
           /\ x.html \in BOOLEAN /\ x.vr \in Results
BY DEF Browsers

\* One element more at the end.
LEMMA OnceAppend ==
    ASSUME NEW q \in Seq(Nat), NEW x \in Nat
    PROVE  /\ Append(q, x) \in Seq(Nat) /\ In(Append(q, x)) = In(q) \cup {x}
           /\ Once(q) /\ (x \in In(q) => x = 0) => Once(Append(q, x))
<1>1. Append(q, x) \in Seq(Nat) /\ In(Append(q, x)) = In(q) \cup {x}
  BY InAppend
<1>2. Append(q, x) = q \o <<x>>
  OBVIOUS
<1>3. <<x>> \in Seq(Nat) /\ In(<<x>>) = {x} /\ Len(<<x>>) = 1
  BY InOne
<1>4. Once(<<x>>)
  BY <1>3 DEF Once
<1>5. Once(q) /\ (x \in In(q) => x = 0) => Once(Append(q, x))
  <2> SUFFICES ASSUME Once(q), x \in In(q) => x = 0 PROVE Once(Append(q, x))
    OBVIOUS
  <2>1. PICK p : p = <<x>>
    OBVIOUS
  <2>2. In(q) \cap In(p) \subseteq {0}
    BY <1>3, <2>1
  <2>3. Once(q \o p)
    BY <1>3, <1>4, <2>1, <2>2, InConcat
  <2> QED BY <1>2, <2>1, <2>3
<1> QED BY <1>1, <1>5

\* A failed assertion.
Fails(t, r) ==
    /\ r \in States /\ r.abort # "no"
    /\ r.b = t.b /\ r.conn = t.conn /\ r.srv = t.srv /\ r.req = t.req /\ r.cbs = t.cbs
    /\ r.proxy = t.proxy /\ r.lost = t.lost /\ r.misplaced = t.misplaced

LEMMA AbortFails ==
    ASSUME NEW t \in States, NEW why \in Reasons, why # "no"
    PROVE  Fails(t, Abort(t, why))
<1>1. CASE t.abort = "no"
  <2>1. Abort(t, why) = [t EXCEPT !.abort = why]
    BY <1>1 DEF Abort
  <2>2. Abort(t, why) \in States
    BY <2>1, Zenon DEF States
  <2> QED BY <2>1, <2>2 DEF States, Fails
<1>2. CASE t.abort # "no"
  BY <1>2 DEF Abort, Fails
<1> QED BY <1>1, <1>2

LEMMA FailsKeep ==
    ASSUME NEW t \in States, NEW P, Good(t, P), NEW Q, P \subseteq Q, Q \subseteq Urls,
           NEW r, Fails(t, r)
    PROVE  Good(r, Q) /\ Keeps(t, r) /\ r.b = t.b /\ Lives(r) = Lives(t)
<1>1. Notes(t, r)
  BY DEF Notes, Fails
<1>2. Good(r, P) /\ Keeps(t, r) /\ Lives(r) = Lives(t)
  BY <1>1, NotesKeep
<1>3. Counted(r, Q)
  BY <1>2 DEF Good, Counted, Fails
<1> QED BY <1>2, <1>3 DEF Good, Fails

\* notify.
LEMMA NotifyKeeps ==
    ASSUME NEW t \in States, NEW P, Good(t, P), NEW when
    PROVE  LET r == Notify(t, when)
           IN  /\ Good(r, P) /\ Keeps(t, r)
               /\ r.b.state = t.b.state /\ r.b.pending = t.b.pending
               /\ Lives(r) = Lives(t)
<1>1. CASE t.b.notified
  <2>1. Fails(t, Notify(t, when))
    BY <1>1, AbortFails DEF Notify, Reasons
  <2>2. P \subseteq Urls
    BY DEF Good, Counted
  <2> QED BY <2>1, <2>2, FailsKeep DEF Fails
<1>2. CASE ~t.b.notified
  <2>1. PICK q : q = IF when = "now" THEN Append(t.cbs, 0) ELSE t.cbs
    OBVIOUS
  <2>2. t.cbs \in Seq(Nat) /\ t.b \in Browsers
    BY Fields
  <2>3. q \in Seq(Nat) /\ In(q) \cup {0} = In(t.cbs) \cup {0} /\ (Once(t.cbs) => Once(q))
    BY <2>1, <2>2, OnceAppend
  <2>4. PICK n \in BOOLEAN : n = IF when = "nap" THEN TRUE ELSE t.nap
    BY DEF States
  <2>5. PICK x : x = [t.b EXCEPT !.notified = TRUE]
    OBVIOUS
  <2>6. x \in Browsers /\ x.state = t.b.state /\ x.pending = t.b.pending
    BY <2>2, <2>5 DEF Browsers
  <2>7. PICK r : r = Notify(t, when)
    OBVIOUS
  <2>8. r = [t EXCEPT !.b = x, !.cbs = q, !.nap = n]
    BY <1>2, <2>1, <2>4, <2>5, <2>7, Zenon DEF Notify
  <2>9. r \in States
    BY <2>3, <2>6, <2>8, Zenon DEF States
  <2>10. r.b = x /\ r.cbs = q /\ r.conn = t.conn /\ r.srv = t.srv /\ r.req = t.req
         /\ r.proxy = t.proxy /\ r.lost = t.lost /\ r.misplaced = t.misplaced
         /\ r.abort = t.abort
    BY <2>8 DEF States
  <2>11. Notes(t, r)
    BY <2>3, <2>9, <2>10 DEF Notes
  <2> QED BY <2>6, <2>7, <2>10, <2>11, NotesKeep
<1> QED BY <1>1, <1>2

\* The browser waits for one more request.
OneMore(v, r, u) == r = [v EXCEPT !.b.embedded = @ \cup {u}, !.b.pending = @ \cup {u}]

LEMMA AskedFor ==
    ASSUME NEW v \in States, NEW u \in Urls, NEW r, OneMore(v, r, u)
    PROVE  \E x \in Browsers : r = PutB(v, x) /\ x.pending = v.b.pending \cup {u}
                               /\ x.state = v.b.state
<1>1. v.b \in Browsers
  BY Fields
<1>2. PICK p \in SUBSET Urls : p = v.b.pending \cup {u}
  BY <1>1, BrowserFields
<1>3. PICK e \in SUBSET Urls : e = v.b.embedded \cup {u}
  BY <1>1, BrowserFields
<1>4. PICK x : x = [v.b EXCEPT !.embedded = e, !.pending = p]
  OBVIOUS
<1>5. x \in Browsers
  BY <1>1, <1>4, Zenon DEF Browsers
<1>6. x.pending = p /\ x.state = v.b.state
  BY <1>1, <1>4 DEF Browsers
<1>7. PICK w : w = [v EXCEPT !.b.embedded = e]
  OBVIOUS
<1>8. w.b.pending = v.b.pending
  BY <1>7 DEF States, Browsers
<1>9. r = [w EXCEPT !.b.pending = p]
  BY <1>2, <1>3, <1>7, <1>8, Zenon DEF OneMore
<1>10. r = PutB(v, x)
  BY <1>4, <1>7, <1>9, Zenon DEF PutB, States
<1> QED BY <1>2, <1>5, <1>6, <1>10

\* request_one_url.
LEMMA RequestOneKeeps ==
    ASSUME NEW t \in States, Good(t, t.b.pending), NEW u \in Urls, ConnIds = Nat \ {0}
    PROVE  LET r == RequestOneUrl(t, u)
           IN  Good(r, r.b.pending) /\ Keeps(t, r) /\ r.b.state = t.b.state
<1>1. CASE u \in t.b.pending
  <2>1. Fails(t, RequestOneUrl(t, u))
    BY <1>1, AbortFails DEF RequestOneUrl, Reasons
  <2>2. t.b.pending \subseteq Urls
    BY DEF Good, Counted
  <2> QED BY <2>1, <2>2, FailsKeep DEF Fails
<1>2. CASE u \notin t.b.pending
  <2>1. PICK P : P = t.b.pending
    OBVIOUS
  <2>2. PICK x \in Requests : x = NewRequest
    BY DEF NewRequest, Requests
  <2>3. PICK m : m = PutReq(t, u, x)
    OBVIOUS
  <2>4. ReqIs(t, m, u, x)
    BY <2>3, ReqPut
  <2>5. Good(m, P) /\ Lives(m) = Lives(t)
    BY <1>2, <2>1, <2>4, Rerequested
  <2>6. m \in States /\ m.conn = t.conn /\ m.b = t.b /\ m.abort = t.abort /\ m.req[u] = x
    BY <2>4 DEF ReqIs
  <2>7. Keeps(t, m)
    BY <2>5, <2>6 DEF Keeps
  <2>8. Asks(m.req[u], u)
    BY <2>2, <2>6, Constants DEF NewRequest, Asks
  <2>9. PICK v : v = SubmitRequest(m, u)
    OBVIOUS
  <2>10. Good(v, P \cup {u}) /\ Keeps(m, v) /\ v.b = m.b
    BY <1>2, <2>1, <2>5, <2>6, <2>8, <2>9, SubmitKeeps
  <2>11. PICK r : r = RequestOneUrl(t, u)
    OBVIOUS
  <2>12. OneMore(v, r, u)
    BY <1>2, <2>2, <2>3, <2>9, <2>11, Zenon DEF RequestOneUrl, PutReq, OneMore
  <2>13. v \in States
    BY <2>10 DEF Keeps
  <2>14. PICK y \in Browsers : r = PutB(v, y) /\ y.pending = v.b.pending \cup {u}
                               /\ y.state = v.b.state
    BY <2>12, <2>13, AskedFor
  <2>15. Notes(v, r) /\ r.b = y
    BY <2>13, <2>14, BrowserPut
  <2>16. Good(r, P \cup {u}) /\ Keeps(v, r)
    BY <2>10, <2>13, <2>15, NotesKeep
  <2>17. r.b.pending = P \cup {u} /\ r.b.state = t.b.state
    BY <2>1, <2>6, <2>10, <2>14, <2>15
  <2>18. Keeps(t, r)
    BY <2>7, <2>10, <2>16, KeepsOn
  <2> QED BY <2>11, <2>16, <2>17, <2>18
<1> QED BY <1>1, <1>2

\* What is asked for on the way from t, as a set of states.
Asking(t) ==
    {x \in States : Good(x, x.b.pending) /\ Keeps(t, x) /\ x.b.state = t.b.state}

\* All that is named in what was received of a body is asked for.
LEMMA RequestNamedKeeps ==
    ASSUME NEW t \in States, Good(t, t.b.pending), NEW u \in Urls, ConnIds = Nat \ {0}
    PROVE  RequestNamed(t, u) \in Asking(t)
<1>1. PICK links \in Seq([at : Nat, url : Urls]) : links = Links[u]
  BY BrowserAssumption
<1>2. PICK n \in Nat : n = Len(links)
  OBVIOUS
<1> DEFINE A == Asking(t)
           Step(k, x) == IF links[k].at <= t.req[u].size
                         THEN RequestOneUrl(x, links[k].url) ELSE x
<1>3. t \in A
  BY DEF Asking, Keeps
<1>4. ASSUME NEW k \in 1..n, NEW x \in A PROVE Step(k, x) \in A
  <2>1. links[k].url \in Urls
    <3>1. PICK L : L = [at : Nat, url : Urls]
      OBVIOUS
    <3>2. links \in Seq(L)
      BY <1>1, <3>1
    <3>3. links[k] \in L
      BY <1>2, <3>2
    <3> QED BY <3>1, <3>3
  <2>2. x \in States /\ Good(x, x.b.pending) /\ Keeps(t, x) /\ x.b.state = t.b.state
    BY DEF Asking
  <2>3. PICK r : r = RequestOneUrl(x, links[k].url)
    OBVIOUS
  <2>4. Good(r, r.b.pending) /\ Keeps(x, r) /\ r.b.state = x.b.state
    BY <2>1, <2>2, <2>3, RequestOneKeeps
  <2>5. Keeps(t, r) /\ r \in States
    <3>1. r \in States
      BY <2>4 DEF Keeps
    <3> QED BY <2>2, <2>4, <3>1, KeepsOn
  <2>6. r \in A
    BY <2>2, <2>4, <2>5 DEF Asking
  <2> QED BY <2>3, <2>6
<1> DEFINE T == [k \in 0..n |-> A]
           F == [k \in 1..n |-> [x \in A |-> Step(k, x)]]
           Eq(f) == f = [k \in 0..n |-> IF k = 0 THEN t ELSE Step(k, f[k - 1])]
<1> HIDE DEF A, Step
<1>5. \E f : Eq(f)
  <2>1. \A k \in 1..n : F[k] \in [T[k - 1] -> T[k]]
    <3> TAKE k \in 1..n
    <3>1. k - 1 \in 0..n /\ k \in 0..n
      BY <1>2
    <3>2. F[k] \in [A -> A]
      BY <1>4
    <3> QED BY <3>1, <3>2
  <2>2. t \in T[0]
    BY <1>2, <1>3
  <2>3. PICK f : /\ f = [k \in 0..n |-> IF k = 0 THEN t ELSE F[k][f[k - 1]]]
                 /\ \A k \in 0..n : f[k] \in T[k]
    <3> HIDE DEF F, T
    <3>1. Steps(n, T, F)
      BY <2>1 DEF Steps
    <3>2. PICK f : Folded(f, n, T, F, t)
      BY <2>2, <3>1, Folds
    <3> QED BY <3>2 DEF Folded
  <2>4. \A k \in 0..n : f[k] \in A
    BY <2>3
  <2>5. \A k \in 0..n : k # 0 => F[k][f[k - 1]] = Step(k, f[k - 1])
    <3> TAKE k \in 0..n
    <3> HAVE k # 0
    <3>1. k \in 1..n /\ k - 1 \in 0..n
      BY <1>2
    <3> QED BY <2>4, <3>1
  <2> HIDE DEF F
  <2>6. [k \in 0..n |-> IF k = 0 THEN t ELSE F[k][f[k - 1]]]
        = [k \in 0..n |-> IF k = 0 THEN t ELSE Step(k, f[k - 1])]
    BY <2>5
  <2>7. Eq(f)
    BY <2>3, <2>6
  <2> QED BY <2>7
<1>6. PICK g : g = CHOOSE f : Eq(f)
  OBVIOUS
<1>7. Eq(g)
  BY <1>5, <1>6
<1>8. \A k \in 0..n : g[k] \in A
  <2> DEFINE K == {k \in 0..n : g[k] \in A}
  <2>1. 0 \in K
    BY <1>2, <1>3, <1>7
  <2>2. \A k \in 1..n : k - 1 \in K => k \in K
    <3> TAKE k \in 1..n
    <3> HAVE k - 1 \in K
    <3>1. k \in 0..n /\ k # 0
      BY <1>2
    <3>2. g[k] = Step(k, g[k - 1])
      BY <1>7, <3>1
    <3> QED BY <1>4, <3>1, <3>2
  <2>3. \A k \in 0..n : k \in K
    <3> HIDE DEF K
    <3> QED BY <2>1, <2>2, Climb
  <2> QED BY <2>3
<1>9. RequestNamed(t, u) = g[n]
  BY <1>1, <1>2, <1>6 DEF RequestNamed, Step
<1>10. g[n] \in A
  BY <1>2, <1>8
<1> QED BY <1>9, <1>10 DEF A

\* The browser_t object changes, all but what it waits for.
Noted(t, r, P, state) ==
    \E x \in Browsers : r = PutB(t, x) /\ x.pending = P /\ x.state = state

LEMMA NotedKeep ==
    ASSUME NEW t \in States, NEW P, Good(t, P), NEW Q, NEW state, NEW r, Noted(t, r, Q, state)
    PROVE  Good(r, P) /\ Keeps(t, r) /\ Lives(r) = Lives(t) /\ r.b.pending = Q
           /\ r.b.state = state /\ r \in States
<1>1. PICK x \in Browsers : r = PutB(t, x) /\ x.pending = Q /\ x.state = state
  BY DEF Noted
<1>2. Notes(t, r) /\ r.b = x
  BY <1>1, BrowserPut
<1> QED BY <1>1, <1>2, NotesKeep DEF Notes

\* A state in which the load is somewhere else.
LEMMA StateIs ==
    ASSUME NEW t \in States, NEW state \in LoadStates
    PROVE  Noted(t, [t EXCEPT !.b.state = state], t.b.pending, state)
<1>1. PICK x : x = [t.b EXCEPT !.state = state]
  OBVIOUS
<1>2. t.b \in Browsers
  BY Fields
<1>3. x \in Browsers
  BY <1>1, <1>2, Zenon DEF Browsers
<1>4. x.pending = t.b.pending /\ x.state = state
  BY <1>1, <1>2 DEF Browsers
<1>5. [t EXCEPT !.b.state = state] = PutB(t, x)
  BY <1>1, Zenon DEF PutB
<1> QED BY <1>3, <1>4, <1>5 DEF Noted

\* A response is received.
LEMMA ReceivedIs ==
    ASSUME NEW t \in States, NEW u \in Urls
    PROVE  Noted(t, [t EXCEPT !.b.received = @ \cup {u}], t.b.pending, t.b.state)
<1>1. PICK q \in SUBSET Urls : q = t.b.received \cup {u}
  BY Fields, BrowserFields
<1>2. PICK x : x = [t.b EXCEPT !.received = q]
  OBVIOUS
<1>3. t.b \in Browsers
  BY Fields
<1>4. x \in Browsers
  BY <1>2, <1>3, Zenon DEF Browsers
<1>5. x.pending = t.b.pending /\ x.state = t.b.state
  BY <1>2, <1>3 DEF Browsers
<1>6. [t EXCEPT !.b.received = @ \cup {u}] = PutB(t, x)
  BY <1>1, <1>2, Zenon DEF PutB
<1> QED BY <1>4, <1>5, <1>6 DEF Noted

\* A resource is validated and no longer waited for.
LEMMA ValidateIs ==
    ASSUME NEW t \in States, NEW u \in Urls
    PROVE  Noted(t, [Validate(t, u) EXCEPT !.b.pending = @ \ {u}], t.b.pending \ {u}, t.b.state)
<1>1. t.b \in Browsers
  BY Fields
<1>2. PICK p \in SUBSET Urls : p = t.b.pending \ {u}
  BY <1>1, BrowserFields
<1>3. PICK e \in SUBSET Urls : e = t.b.expected \ {u}
  BY <1>1, BrowserFields
<1>4. PICK w \in Results :
         w = IF u \in t.b.expected /\ t.req[u].size = Size[u] THEN t.b.vr ELSE "VR_FAIL"
  BY <1>1, BrowserFields DEF Results
<1>5. PICK x : x = [t.b EXCEPT !.vr = w, !.expected = e]
  OBVIOUS
<1>6. x \in Browsers
  BY <1>1, <1>5, Zenon DEF Browsers
<1>7. x.pending = t.b.pending /\ x.state = t.b.state
  BY <1>1, <1>5 DEF Browsers
<1>8. Validate(t, u) = PutB(t, x)
  <2>1. PICK m : m = [t EXCEPT !.b.vr = w]
    OBVIOUS
  <2>2. m.b.expected = t.b.expected
    BY <1>1, <2>1 DEF States, Browsers
  <2>3. Validate(t, u) = [m EXCEPT !.b.expected = e]
    BY <1>3, <1>4, <2>1, <2>2, Zenon DEF Validate
  <2> QED BY <1>5, <2>1, <2>3, Zenon DEF PutB, States
<1>9. PICK y : y = [x EXCEPT !.pending = p]
  OBVIOUS
<1>10. y \in Browsers
  BY <1>6, <1>9, Zenon DEF Browsers
<1>11. y.pending = p /\ y.state = t.b.state
  BY <1>6, <1>7, <1>9 DEF Browsers
<1>12. PICK v : v = PutB(t, x)
  OBVIOUS
<1>13. v.b = x /\ v \in States
  BY <1>6, <1>12, BrowserPut DEF Notes
<1>14. [v EXCEPT !.b.pending = @ \ {u}] = PutB(t, y)
  BY <1>2, <1>7, <1>9, <1>12, <1>13, Zenon DEF PutB, States
<1> QED BY <1>2, <1>8, <1>10, <1>11, <1>12, <1>14 DEF Noted

\* A state that a step of the process may end in.
Settled(t, r) == Good(r, r.b.pending) /\ Keeps(t, r) /\ Rested(r)

\* response_finished_cb.
LEMMA FinishedKeeps ==
    ASSUME NEW t \in States, NEW u \in Urls, Good(t, t.b.pending \ {u}), Rested(t),
           ConnIds = Nat \ {0}
    PROVE  Settled(t, ResponseFinished(t, u))
<1>1. PICK P : P = t.b.pending \ {u}
  OBVIOUS
<1>2. PICK v : v = [Validate(t, u) EXCEPT !.b.pending = @ \ {u}]
  OBVIOUS
<1>3. v \in States /\ Good(v, P) /\ Keeps(t, v) /\ v.b.pending = P /\ v.b.state = t.b.state
  <2>1. Noted(t, v, P, t.b.state)
    BY <1>1, <1>2, ValidateIs
  <2> QED BY <1>1, <2>1, NotedKeep
<1>4. PICK r : r = [v EXCEPT !.b.received = @ \cup {u}]
  OBVIOUS
<1>5. r \in States /\ Good(r, P) /\ Keeps(v, r) /\ r.b.pending = P /\ r.b.state = t.b.state
  <2>1. Noted(v, r, v.b.pending, v.b.state)
    BY <1>3, <1>4, ReceivedIs
  <2> QED BY <1>3, <2>1, NotedKeep
<1>6. PICK n : n = IF u \in Scripts THEN RequestNamed(r, u) ELSE r
  OBVIOUS
<1>7. n \in States /\ Good(n, n.b.pending) /\ Keeps(r, n) /\ n.b.state = t.b.state
  <2>1. CASE u \in Scripts
    <3>1. n \in Asking(r)
      BY <1>5, <1>6, <2>1, RequestNamedKeeps
    <3> QED BY <1>5, <3>1 DEF Asking
  <2>2. CASE u \notin Scripts
    BY <1>5, <1>6, <2>2 DEF Keeps
  <2> QED BY <2>1, <2>2
<1>8. Keeps(t, n)
  <2>1. Keeps(t, r)
    BY <1>3, <1>5, KeepsOn
  <2> QED BY <1>7, <2>1, KeepsOn
<1>9. PICK z : z = ResponseFinished(t, u)
  OBVIOUS
<1>10. z = IF u = Doc THEN Notify([v EXCEPT !.b.state = "SB_DONE_DOCUMENT"], "now")
           ELSE IF t.b.state # "SB_FETCHING_EMBEDDED" THEN Abort(t, "not-embedded")
           ELSE IF IsPageDone(n) THEN Notify([n EXCEPT !.b.state = "SB_DONE"], "now")
           ELSE n
  <2> DEFINE v2 == [Validate(t, u) EXCEPT !.b.pending = @ \ {u}]
             r2 == [v2 EXCEPT !.b.received = @ \cup {u}]
             n2 == IF u \in Scripts THEN RequestNamed(r2, u) ELSE r2
  <2>1. z = IF u = Doc THEN Notify([v2 EXCEPT !.b.state = "SB_DONE_DOCUMENT"], "now")
            ELSE IF t.b.state # "SB_FETCHING_EMBEDDED" THEN Abort(t, "not-embedded")
            ELSE IF IsPageDone(n2) THEN Notify([n2 EXCEPT !.b.state = "SB_DONE"], "now")
            ELSE n2
    BY <1>9, Zenon DEF ResponseFinished
  <2>2. v2 = v
    BY <1>2
  <2> HIDE DEF v2
  <2>3. r2 = r
    BY <1>4, <2>2
  <2> HIDE DEF r2
  <2>4. n2 = n
    BY <1>6, <2>3
  <2> HIDE DEF n2
  <2> QED BY <2>1, <2>2, <2>4
<1>11. "SB_DONE_DOCUMENT" \in LoadStates /\ "SB_DONE" \in LoadStates
  BY DEF LoadStates
<1>12. CASE u = Doc
  <2>1. PICK w : w = [v EXCEPT !.b.state = "SB_DONE_DOCUMENT"]
    OBVIOUS
  <2>2. w \in States /\ Good(w, P) /\ Keeps(v, w) /\ w.b.pending = P
        /\ w.b.state = "SB_DONE_DOCUMENT"
    BY <1>3, <1>11, <2>1, StateIs, NotedKeep
  <2>3. z = Notify(w, "now")
    BY <1>10, <1>12, <2>1
  <2>4. Good(z, P) /\ Keeps(w, z) /\ z.b.pending = P /\ z.b.state = "SB_DONE_DOCUMENT"
    BY <2>2, <2>3, NotifyKeeps
  <2>5. Keeps(t, w)
    BY <1>3, <2>2, KeepsOn
  <2>6. Keeps(t, z)
    BY <2>4, <2>5, KeepsOn
  <2> QED BY <1>9, <2>4, <2>6 DEF Settled, Rested
<1>13. CASE u # Doc /\ t.b.state # "SB_FETCHING_EMBEDDED"
  <2>1. Fails(t, z)
    BY <1>10, <1>13, AbortFails DEF Reasons
  <2>2. t.b.pending \subseteq Urls
    BY Fields, BrowserFields
  <2>3. Good(z, t.b.pending) /\ Keeps(t, z) /\ z.b = t.b
    BY <1>1, <2>1, <2>2, FailsKeep
  <2> QED BY <1>9, <2>3 DEF Settled, Rested
<1>14. CASE u # Doc /\ t.b.state = "SB_FETCHING_EMBEDDED" /\ IsPageDone(n)
  <2>1. PICK w : w = [n EXCEPT !.b.state = "SB_DONE"]
    OBVIOUS
  <2>2. w \in States /\ Good(w, n.b.pending) /\ Keeps(n, w) /\ w.b.pending = n.b.pending
        /\ w.b.state = "SB_DONE"
    BY <1>7, <1>11, <2>1, StateIs, NotedKeep
  <2>3. z = Notify(w, "now")
    BY <1>10, <1>14, <2>1
  <2>4. Good(z, n.b.pending) /\ Keeps(w, z) /\ z.b.pending = n.b.pending
        /\ z.b.state = "SB_DONE"
    BY <2>2, <2>3, NotifyKeeps
  <2>5. Keeps(t, w)
    BY <1>8, <2>2, KeepsOn
  <2>6. Keeps(t, z)
    BY <2>4, <2>5, KeepsOn
  <2> QED BY <1>9, <2>4, <2>6 DEF Settled, Rested
<1>15. CASE u # Doc /\ t.b.state = "SB_FETCHING_EMBEDDED" /\ ~IsPageDone(n)
  BY <1>7, <1>8, <1>9, <1>10, <1>15 DEF Settled, Rested
<1> QED BY <1>12, <1>13, <1>14, <1>15

-----------------------------------------------------------------------------
(* What the operators of the manager do.                                   *)

\* cnx_request_done_cb.
LEMMA DoneKeeps ==
    ASSUME NEW t \in States, NEW P, Good(t, P), NEW i \in Lives(t)
    PROVE  LET r == RequestDone(t, i)
           IN  Good(r, P) /\ Keeps(t, r) /\ r.b = t.b /\ r.req = t.req
<1>1. PICK h \in Hosts : h = t.conn[i].host /\ i \in In(t.srv[h].conns)
  BY LiveConn DEF Good, Sound
<1>2. t.srv[h].conns # <<>>
  BY <1>1, InEmpty
<1>3. PICK r : r = RequestDone(t, i)
  OBVIOUS
<1>4. r = IF t.srv[h].reqs = <<>> THEN t ELSE SubmitFront(t, i)
  BY <1>1, <1>2, <1>3 DEF RequestDone
<1>5. CASE t.srv[h].reqs = <<>>
  BY <1>3, <1>4, <1>5 DEF Keeps
<1>6. CASE t.srv[h].reqs # <<>>
  <2>1. r = SubmitFront(t, i)
    BY <1>4, <1>6
  <2> QED BY <1>1, <1>3, <1>6, <2>1, FrontKeeps
<1> QED BY <1>5, <1>6

\* r is t without connection i.
Without(t, r, i) ==
    /\ r \in States /\ Lives(r) = Lives(t) \ {i}
    /\ r.b = t.b /\ r.req = t.req /\ r.abort = t.abort /\ r.conn = t.conn

\* release_conn.
LEMMA ReleaseKeeps ==
    ASSUME NEW t \in States, NEW P, Good(t, P), NEW i \in Lives(t)
    PROVE  Good(ReleaseConn(t, i), P \ On(t.conn[i])) /\ Without(t, ReleaseConn(t, i), i)
<1>a. Listing(t) /\ Doomed(t)
  BY DEF Good, Sound
<1>1. PICK h \in Hosts : h = t.conn[i].host /\ i \in In(t.srv[h].conns)
  BY <1>a, LiveConn
<1>2. i \in ConnIds /\ i \in Nat /\ i # 0
  BY <1>a, LiveConn, Constants
<1>3. PICK conns \in Seq(ConnIds) : conns = t.srv[h].conns
  BY Fields
<1>4. PICK kept : kept = RemoveFirst(conns, i)
  OBVIOUS
<1>5. kept \in Seq(ConnIds) /\ In(kept) = In(conns) \ {i} /\ Distinct(kept)
  BY <1>1, <1>3, <1>4, <1>a, Removed DEF Listing
<1>6. PICK one \in Seq(Nat) : one = <<i>>
  BY <1>2, InOne
<1>7. In(one) = {i} /\ Len(one) = 1 /\ one[1] = i
  BY <1>2, <1>6, InOne
<1>8. [k \in 1..Len(<<i>>) |-> <<i>>[k]] = one
  BY <1>2, <1>6
<1>9. PICK cbs : cbs = t.cbs \o one
  OBVIOUS
<1>10. cbs \in Seq(Nat) /\ In(cbs) = In(t.cbs) \cup {i} /\ Once(cbs)
  <2>1. Once(one)
    BY <1>7 DEF Once
  <2>2. i \notin In(t.cbs)
    BY <1>2, <1>a DEF Doomed
  <2>3. In(t.cbs) \cap In(one) \subseteq {0}
    BY <1>7, <2>2
  <2>4. t.cbs \in Seq(Nat) /\ Once(t.cbs)
    BY <1>a, Fields DEF Doomed
  <2> QED BY <1>7, <1>9, <2>1, <2>3, <2>4, InConcat
<1>11. PICK m : m = [t EXCEPT !.cbs = cbs]
  OBVIOUS
<1>12. m = DeleteLater(t, <<i>>)
  BY <1>8, <1>9, <1>11, Zenon DEF DeleteLater
<1>13. m \in States
  BY <1>10, <1>11, Zenon DEF States
<1>14. /\ m.conn = t.conn /\ m.req = t.req /\ m.proxy = t.proxy /\ m.misplaced = t.misplaced
       /\ m.abort = t.abort /\ m.cbs = cbs /\ m.srv = t.srv /\ m.lost = t.lost /\ m.b = t.b
  BY <1>11 DEF States
<1>15. Contains(conns, i)
  <2>1. \E k \in 1..Len(conns) : conns[k] = i
    BY <1>1, <1>3 DEF In
  <2> QED BY <2>1 DEF Contains
<1>16. PICK lost : lost = t.lost \cup In(t.srv[h].reqs)
  OBVIOUS
<1>17. ToSet(t.srv[h].reqs) = In(t.srv[h].reqs)
  <2>1. t.srv[h].reqs \in Seq(Urls)
    BY Fields
  <2> QED BY <2>1 DEF ToSet, In
<1>18. PICK r : r = ReleaseConn(t, i)
  OBVIOUS
<1>19. r = IF kept # <<>> THEN [m EXCEPT !.srv[h].conns = kept]
           ELSE [m EXCEPT !.srv[h] = NoServer, !.lost = lost]
  <2>1. m.lost \cup ToSet(t.srv[h].reqs) = lost
    BY <1>14, <1>16, <1>17
  <2>2. ~Contains(t.srv[h].conns, i) <=> FALSE
    BY <1>3, <1>15
  <2> DEFINE h2 == t.conn[i].host
             left2 == RemoveFirst(t.srv[h2].conns, i)
             m2 == DeleteLater(t, <<i>>)
  <2>3. r = IF ~Contains(t.srv[h2].conns, i) THEN Abort(m2, "not-listed")
            ELSE IF ~EntryGoes(left2) THEN [m2 EXCEPT !.srv[h2].conns = left2]
            ELSE [m2 EXCEPT !.srv[h2] = NoServer, !.lost = @ \cup ToSet(t.srv[h2].reqs)]
    BY <1>18, Zenon DEF ReleaseConn
  <2>4. h2 = h
    BY <1>1
  <2> HIDE DEF h2
  <2>5. left2 = kept
    BY <1>3, <1>4, <2>4
  <2>6. m2 = m
    BY <1>12
  <2> HIDE DEF left2, m2
  <2>7. r = IF ~(kept = <<>>) THEN [m EXCEPT !.srv[h].conns = kept]
            ELSE [m EXCEPT !.srv[h] = NoServer, !.lost = @ \cup ToSet(t.srv[h].reqs)]
    BY <2>2, <2>3, <2>4, <2>5, <2>6, Zenon DEF EntryGoes
  <2>8. [m EXCEPT !.srv[h] = NoServer, !.lost = @ \cup ToSet(t.srv[h].reqs)]
        = [m EXCEPT !.srv[h] = NoServer, !.lost = lost]
    <3>1. PICK z : z = [m EXCEPT !.srv[h] = NoServer]
      OBVIOUS
    <3>2. z.lost = m.lost
      BY <1>13, <3>1 DEF States
    <3>3. [z EXCEPT !.lost = @ \cup ToSet(t.srv[h].reqs)] = [z EXCEPT !.lost = lost]
      BY <2>1, <3>2
    <3> QED BY <3>1, <3>3, Zenon
  <2> QED BY <2>7, <2>8
<1>20. /\ r \in States /\ r.conn = t.conn /\ r.req = t.req /\ r.proxy = t.proxy
       /\ r.misplaced = t.misplaced /\ r.abort = t.abort /\ r.cbs = cbs /\ r.b = t.b
       /\ r.srv[h].conns = kept /\ \A g \in Hosts : g # h => r.srv[g] = t.srv[g]
       /\ \/ r.srv[h].reqs = t.srv[h].reqs /\ r.lost = t.lost
          \/ r.srv[h].reqs = <<>> /\ r.lost = t.lost \cup In(t.srv[h].reqs)
  <2>1. CASE kept # <<>>
    <3>1. r = PutConns(m, h, kept)
      BY <1>19, <2>1 DEF PutConns
    <3>2. ConnsIs(m, r, h, kept)
      BY <1>5, <1>13, <3>1, ConnsPut
    <3> QED BY <1>14, <3>2 DEF ConnsIs
  <2>2. CASE kept = <<>>
    <3>1. NoServer \in Servers /\ NoServer.conns = <<>> /\ NoServer.reqs = <<>>
      BY DEF NoServer, Servers
    <3>2. lost \in SUBSET Urls
      BY <1>16, Fields, InEmpty
    <3>3. PICK z : z = [m EXCEPT !.srv[h] = NoServer]
      OBVIOUS
    <3>4. z \in States
      BY <1>13, <3>1, <3>3, SrvPut
    <3>5. r = [z EXCEPT !.lost = lost]
      BY <1>19, <2>2, <3>3, Zenon
    <3>6. r \in States
      BY <3>2, <3>4, <3>5, Zenon DEF States
    <3>7. /\ z.conn = t.conn /\ z.req = t.req /\ z.proxy = t.proxy /\ z.b = t.b
          /\ z.misplaced = t.misplaced /\ z.abort = t.abort /\ z.cbs = cbs
          /\ z.srv[h] = NoServer /\ \A g \in Hosts : g # h => z.srv[g] = t.srv[g]
      BY <1>13, <1>14, <3>3 DEF States
    <3>8. /\ r.conn = z.conn /\ r.req = z.req /\ r.proxy = z.proxy /\ r.b = z.b
          /\ r.misplaced = z.misplaced /\ r.abort = z.abort /\ r.cbs = z.cbs
          /\ r.srv = z.srv /\ r.lost = lost
      BY <3>4, <3>5 DEF States
    <3> QED BY <1>16, <2>2, <3>1, <3>6, <3>7, <3>8
  <2> QED BY <2>1, <2>2
<1>21. Good(r, P \ On(t.conn[i])) /\ Lives(r) = Lives(t) \ {i}
  <2>1. Distinct(r.srv[h].conns) /\ In(r.srv[h].conns) = In(t.srv[h].conns) \ {i}
    BY <1>3, <1>5, <1>20
  <2>2. Once(r.cbs) /\ In(r.cbs) = In(t.cbs) \cup {i}
    BY <1>10, <1>20
  <2>3. Dropped(t, r, h) /\ SameElsewhere(t, r, h) /\ HostOf(t, i, h)
    BY <1>1, <1>20 DEF Dropped, SameElsewhere, HostOf
  <2>4. r.conn = t.conn
    BY <1>20
  <2>5. r.req = t.req
    BY <1>20
  <2>6. r.proxy = t.proxy
    BY <1>20
  <2>7. r.misplaced = t.misplaced
    BY <1>20
  <2>8. r.abort = t.abort
    BY <1>20
  <2>9. r \in States
    BY <1>20
  <2>10. Once(r.cbs)
    BY <2>2
  <2>11. In(r.cbs) = In(t.cbs) \cup {i}
    BY <2>2
  <2>12. Distinct(r.srv[h].conns)
    BY <2>1
  <2>13. In(r.srv[h].conns) = In(t.srv[h].conns) \ {i}
    BY <2>1
  <2> QED BY <2>3, <2>4, <2>5, <2>6, <2>7, <2>8, <2>9, <2>10, <2>11, <2>12, <2>13, Released, Zenon
<1> QED BY <1>18, <1>20, <1>21 DEF Without

-----------------------------------------------------------------------------
(* Retries.                                                                *)

LEMMA RetriedIs ==
    ASSUME NEW x \in Requests
    PROVE  /\ Retried(x) \in Requests /\ Retried(x).size = x.size
           /\ Retried(x).first = IF x.size > 0 THEN x.size ELSE x.first
<1>1. PICK n \in Nat : n = x.retries + 1
  BY DEF Requests
<1>2. PICK f \in Nat : f = IF x.size > 0 THEN x.size ELSE x.first
  BY DEF Requests
<1>3. PICK y : y = [x EXCEPT !.retries = n, !.first = f]
  OBVIOUS
<1>4. y \in Requests /\ y.size = x.size /\ y.first = f
  BY <1>3 DEF Requests
<1>5. Retried(x) = y
  BY <1>1, <1>2, <1>3 DEF Retried
<1> QED BY <1>2, <1>4, <1>5

\* A request that is retried asks for what is missing.
LEMMA RetryAsks ==
    ASSUME NEW c \in Conns, NEW req, NEW proxy, Steady(c, req, proxy), NEW u \in Urls,
           c.act # <<>>, u = c.act[1], req[u] \in Requests
    PROVE  Asks(Retried(req[u]), u)
<1>1. PICK x \in Requests : x = req[u]
  OBVIOUS
<1>2. x.size \in Nat /\ x.first \in Nat /\ Size[u] \in Nat
  BY Constants DEF Requests
<1>3. x.size < Size[u] /\ (x.size = 0 => x.first = 0)
  <2>1. CASE Unsent(c, req)
    BY <1>1, <1>2, <2>1 DEF Unsent, Asks
  <2>2. CASE \E p \in Nat : \E q : Reading(c, x, u, p, q)
    <3>1. PICK p \in Nat : \E q : Reading(c, x, u, p, q)
      BY <2>2
    <3>2. /\ c.first < Size[u] /\ x.first = c.first /\ p \in 1..Lasts(u, c.first)
          /\ x.size = c.first + (IF p > Header(c.first) THEN p - Header(c.first) - 1 ELSE 0)
      BY <3>1 DEF Reading
    <3>3. PICK hd \in Nat : hd = Header(c.first)
      BY DEF Header
    <3>4. p <= hd + Size[u] - x.first
      BY <1>2, <3>2, <3>3 DEF Lasts
    <3>5. x.size = x.first + (IF p > hd THEN p - hd - 1 ELSE 0)
      BY <3>2, <3>3
    <3>6. x.first < Size[u]
      BY <3>2
    <3> QED BY <1>2, <3>4, <3>5, <3>6
  <2> QED BY <1>1, <2>1, <2>2 DEF Steady, Flow
<1>4. Retried(x).size = x.size /\ Retried(x).first = IF x.size > 0 THEN x.size ELSE x.first
  BY RetriedIs
<1> QED BY <1>1, <1>2, <1>3, <1>4 DEF Asks

\* retry_requests, for one request.
LEMMA RetryKeeps ==
    ASSUME NEW t \in States, NEW u \in Urls, Good(t, t.b.pending \ {u}), Rested(t),
           u \in t.b.pending, Asks(Retried(t.req[u]), u), ConnIds = Nat \ {0}
    PROVE  Settled(t, RetryRequest(t, u))
<1>1. PICK r : r = RetryRequest(t, u)
  OBVIOUS
<1>2. CASE t.req[u].retries = MaxRetries
  <2>1. r = ResponseFinished(t, u)
    BY <1>1, <1>2 DEF RetryRequest
  <2> QED BY <1>1, <2>1, FinishedKeeps
<1>3. CASE t.req[u].retries # MaxRetries
  <2>1. PICK P : P = t.b.pending \ {u}
    OBVIOUS
  <2>2. PICK x \in Requests : x = Retried(t.req[u])
    BY Fields, RetriedIs
  <2>3. PICK m : m = PutReq(t, u, x)
    OBVIOUS
  <2>4. ReqIs(t, m, u, x)
    BY <2>3, ReqPut
  <2>5. Good(m, P) /\ Lives(m) = Lives(t)
    BY <2>1, <2>4, Rerequested
  <2>6. m \in States /\ m.conn = t.conn /\ m.b = t.b /\ m.abort = t.abort /\ m.req[u] = x
    BY <2>4 DEF ReqIs
  <2>7. Keeps(t, m)
    BY <2>5, <2>6 DEF Keeps
  <2>8. Asks(m.req[u], u)
    BY <2>2, <2>6
  <2>9. r = SubmitRequest(m, u)
    BY <1>1, <1>3, <2>2, <2>3, Zenon DEF RetryRequest, PutReq
  <2>10. Good(r, P \cup {u}) /\ Keeps(m, r) /\ r.b = m.b
    BY <2>1, <2>5, <2>6, <2>8, <2>9, SubmitKeeps
  <2>11. P \cup {u} = r.b.pending
    BY <2>1, <2>6, <2>10
  <2>12. Keeps(t, r)
    BY <2>7, <2>10, KeepsOn
  <2> QED BY <1>1, <2>6, <2>10, <2>11, <2>12 DEF Settled, Rested
<1> QED BY <1>2, <1>3

\* retry_requests, for none or one.
LEMMA RetriesAre ==
    ASSUME NEW t
    PROVE  /\ RetryRequests(t, <<>>) = t
           /\ \A u : RetryRequests(t, <<u>>) = RetryRequest(t, u)
<1>1. RetryRequests(t, <<>>) = t
  <2> DEFINE Eq(f) == f = [k \in 0..Len(<<>>) |->
                            IF k = 0 THEN t ELSE RetryRequest(f[k - 1], <<>>[k])]
  <2>1. 0..Len(<<>>) = {0}
    OBVIOUS
  <2>2. PICK g : g = [k \in {0} |-> t]
    OBVIOUS
  <2>3. Eq(g)
    BY <2>1, <2>2
  <2>4. PICK f : f = CHOOSE ff : Eq(ff)
    OBVIOUS
  <2>5. Eq(f)
    BY <2>3, <2>4
  <2>6. f[0] = t
    BY <2>1, <2>5
  <2>7. RetryRequests(t, <<>>) = f[Len(<<>>)]
    BY <2>4 DEF RetryRequests
  <2> QED BY <2>6, <2>7
<1>2. ASSUME NEW u PROVE RetryRequests(t, <<u>>) = RetryRequest(t, u)
  <2> DEFINE Eq(f) == f = [k \in 0..Len(<<u>>) |->
                            IF k = 0 THEN t ELSE RetryRequest(f[k - 1], <<u>>[k])]
  <2>1. Len(<<u>>) = 1 /\ 0..1 = {0, 1} /\ <<u>>[1] = u
    OBVIOUS
  <2>2. PICK g : g = [k \in {0, 1} |-> IF k = 0 THEN t ELSE RetryRequest(t, u)]
    OBVIOUS
  <2>3. Eq(g)
    <3>1. g[0] = t /\ \A k \in {0, 1} : k # 0 => k = 1 /\ k - 1 = 0
      BY <2>2
    <3>2. g = [k \in {0, 1} |-> IF k = 0 THEN t ELSE RetryRequest(g[k - 1], <<u>>[k])]
      BY <2>1, <2>2, <3>1
    <3> QED BY <2>1, <3>2
  <2>4. PICK f : f = CHOOSE ff : Eq(ff)
    OBVIOUS
  <2>5. Eq(f)
    BY <2>3, <2>4
  <2>6. f = [k \in {0, 1} |-> IF k = 0 THEN t ELSE RetryRequest(f[k - 1], <<u>>[k])]
    BY <2>1, <2>5
  <2>7. f[0] = t
    BY <2>6
  <2>8. f[1] = RetryRequest(f[0], u)
    BY <2>1, <2>6
  <2>9. RetryRequests(t, <<u>>) = f[Len(<<u>>)]
    BY <2>4 DEF RetryRequests
  <2> QED BY <2>1, <2>7, <2>8, <2>9
<1> QED BY <1>1, <1>2

\* A state that the end of connection i may lead to.
SettledBut(t, r, i) ==
    Good(r, r.b.pending) /\ Rested(r) /\ \A j \in Lives(t) : j # i => j \in Lives(r)

\* What an unusable connection leads to.
LEMMA UnusableKeeps ==
    ASSUME NEW t \in States, Good(t, t.b.pending), Rested(t), NEW i \in Lives(t),
           ConnIds = Nat \ {0}
    PROVE  SettledBut(t, Unusable(t, i), i)
<1>a. Sound(t) /\ Flows(t) /\ Counted(t, t.b.pending)
  BY DEF Good
<1>1. PICK P : P = t.b.pending
  OBVIOUS
<1>2. PICK c \in Conns : c = t.conn[i]
  BY <1>a, LiveConn DEF Sound
<1>3. c.act \in Seq(Urls) /\ Len(c.act) <= 1 /\ Steady(c, t.req, t.proxy)
  BY <1>2, <1>a, ConnFields DEF Sound, Loads, Tidy, Flows
<1>4. On(c) \subseteq P
  <2>1. On(c) \subseteq Rides(t)
    BY <1>2, <1>a, Exclusive
  <2> QED BY <1>1, <1>a, <2>1 DEF Counted, Under
<1>5. PICK m : m = ReleaseConn(t, i)
  OBVIOUS
<1>6. Good(m, P \ On(c)) /\ Without(t, m, i)
  BY <1>1, <1>2, <1>5, ReleaseKeeps
<1>7. /\ m \in States /\ Lives(m) = Lives(t) \ {i}
      /\ m.b = t.b /\ m.req = t.req
  BY <1>6 DEF Without
<1>8. PICK r : r = Unusable(t, i)
  OBVIOUS
<1>9. r = IF c.sub # <<>> THEN Abort(m, "pending") ELSE RetryRequests(m, c.act)
  BY <1>2, <1>5, <1>8, Zenon DEF Unusable
<1>10. CASE c.sub # <<>>
  <2>1. Fails(m, r)
    BY <1>7, <1>9, <1>10, AbortFails DEF Reasons
  <2>2. P \subseteq Urls /\ P \ On(c) \subseteq P
    BY <1>1, <1>a DEF Counted
  <2>3. Good(r, P) /\ r.b = m.b /\ Lives(r) = Lives(m)
    BY <1>6, <1>7, <2>1, <2>2, FailsKeep
  <2> QED BY <1>1, <1>7, <1>8, <2>3 DEF SettledBut, Rested
<1>11. CASE c.sub = <<>> /\ c.act = <<>>
  <2>1. r = m
    BY <1>9, <1>11, RetriesAre
  <2>2. On(c) = {}
    BY <1>11, InEmpty DEF On
  <2>3. Good(m, P)
    <3>1. P \ On(c) = P
      BY <2>2
    <3> QED BY <1>6, <3>1
  <2> QED BY <1>1, <1>7, <1>8, <2>1, <2>3 DEF SettledBut, Rested
<1>12. CASE c.sub = <<>> /\ c.act # <<>>
  <2>1. PICK u \in Urls : u = c.act[1]
    BY <1>3, <1>12, InTail
  <2>2. c.act = <<u>>
    BY <1>3, <1>12, <2>1
  <2>3. r = RetryRequest(m, u)
    BY <1>9, <1>12, <2>2, RetriesAre
  <2>4. On(c) = {u}
    BY <1>12, <2>2, InEmpty, InOne DEF On
  <2>5. Good(m, m.b.pending \ {u}) /\ Rested(m) /\ u \in m.b.pending
    BY <1>1, <1>4, <1>6, <1>7, <2>4 DEF Rested
  <2>6. Asks(Retried(m.req[u]), u)
    <3>1. t.req[u] \in Requests
      BY Fields
    <3> QED BY <1>3, <1>7, <1>12, <2>1, <3>1, RetryAsks
  <2>7. Settled(m, r)
    BY <1>7, <2>3, <2>5, <2>6, RetryKeeps
  <2> QED BY <1>7, <1>8, <2>7 DEF Settled, SettledBut, Keeps
<1> QED BY <1>10, <1>11, <1>12

-----------------------------------------------------------------------------
(* Steps of one connection.                                                *)

\* What a connection may become.
Succeeds(t, P, i, d) ==
    /\ d.st # "none" /\ d.host = t.conn[i].host /\ Tidy(d) /\ Steady(d, t.req, t.proxy)
    /\ \A u \in On(d) \ On(t.conn[i]) : u \notin P /\ Host[u] = d.host

\* A connection changes.
LEMMA ReplacedBy ==
    ASSUME NEW t \in States, NEW P, Good(t, P), NEW i \in Lives(t), NEW d \in Conns,
           Succeeds(t, P, i, d), NEW r, ConnIs(t, r, i, d)
    PROVE  Good(r, (P \ On(t.conn[i])) \cup On(d)) /\ Lives(r) = Lives(t)
<1>1. i \in ConnIds
  BY DEF Lives
<1>2. PICK m : m = PutConn(t, i, d)
  OBVIOUS
<1>3. ConnIs(t, m, i, d)
  BY <1>1, <1>2, ConnPut
<1>4. PICK Q : Q = (P \ On(t.conn[i])) \cup On(d)
  OBVIOUS
<1>5. Good(m, Q) /\ Lives(m) = Lives(t)
  BY <1>2, <1>4, Replaced DEF Succeeds
<1>6. m \in States /\ r \in States
  BY <1>3 DEF ConnIs
<1>7. m.conn = r.conn
  <2>1. m.conn \in [ConnIds -> Conns] /\ r.conn \in [ConnIds -> Conns]
    BY <1>6 DEF States
  <2>2. \A j \in ConnIds : m.conn[j] = r.conn[j]
    BY <1>3 DEF ConnIs
  <2> QED BY <2>1, <2>2
<1>8. /\ r.srv = m.srv /\ r.req = m.req /\ r.proxy = m.proxy /\ r.lost = m.lost
      /\ r.misplaced = m.misplaced /\ r.abort = m.abort /\ r.cbs = m.cbs
  BY <1>3 DEF ConnIs
<1>9. Notes(m, r)
  BY <1>6, <1>7, <1>8 DEF Notes
<1>10. Good(r, Q) /\ Lives(r) = Lives(m)
  BY <1>5, <1>6, <1>9, NotesKeep
<1> QED BY <1>4, <1>5, <1>10

\* d is c, as far as the invariant can tell.
Seems(c, d) ==
    /\ d.st = c.st /\ d.host = c.host /\ d.sub = c.sub /\ d.act = c.act /\ d.first = c.first
    /\ d.out = c.out /\ d.mev = c.mev /\ d.readcb = c.readcb /\ d.writecb = c.writecb
    /\ d.todo = c.todo /\ d.inp = c.inp /\ d.closed = c.closed /\ d.wen = c.wen
Looks(c, d) == Seems(c, d) /\ d.blen = c.blen

LEMMA LooksSteady ==
    ASSUME NEW c, NEW d, NEW req, NEW proxy, Looks(c, d), Steady(c, req, proxy)
    PROVE  Steady(d, req, proxy) /\ (Fresh(c) => Fresh(d))
<1>1. Unsent(d, req) <=> Unsent(c, req)
  BY DEF Unsent, Looks, Seems
<1>2. \A r, v, p, w : Reading(d, r, v, p, w) <=> Reading(c, r, v, p, w)
  BY DEF Reading, Looks, Seems
<1>3. \A w : Flow(d, req, w) <=> Flow(c, req, w)
  BY <1>1, <1>2 DEF Flow, Looks, Seems
<1>4. Shaking(d) <=> Shaking(c)
  BY DEF Shaking, Looks, Seems
<1> QED BY <1>1, <1>3, <1>4 DEF Steady, Looks, Seems, Fresh

LEMMA LooksKeep ==
    ASSUME NEW t \in States, NEW P, Good(t, P), NEW i \in Lives(t), NEW d \in Conns,
           Looks(t.conn[i], d), NEW r, ConnIs(t, r, i, d)
    PROVE  Good(r, P) /\ Keeps(t, r) /\ Lives(r) = Lives(t) /\ r.b = t.b
<1>a. Sound(t) /\ Flows(t) /\ Counted(t, P)
  BY DEF Good
<1>1. PICK c \in Conns : c = t.conn[i]
  BY <1>a, LiveConn DEF Sound
<1>2. c.st # "none" /\ i \in ConnIds
  BY <1>1, <1>a, LiveConn DEF Sound
<1>3. Steady(c, t.req, t.proxy) /\ Tidy(c)
  BY <1>1, <1>a DEF Flows, Sound, Loads
<1>4. Steady(d, t.req, t.proxy) /\ (Fresh(c) => Fresh(d))
  BY <1>1, <1>3, LooksSteady
<1>5. Tidy(d) /\ On(d) = On(c) /\ d.st # "none" /\ d.host = c.host
  BY <1>1, <1>2, <1>3 DEF Tidy, On, Looks, Seems
<1>6. Succeeds(t, P, i, d)
  BY <1>1, <1>4, <1>5 DEF Succeeds
<1>7. Good(r, (P \ On(c)) \cup On(d)) /\ Lives(r) = Lives(t)
  BY <1>1, <1>6, ReplacedBy
<1>8. On(c) \subseteq P
  <2>1. On(c) \subseteq Rides(t)
    BY <1>1, <1>a, Exclusive
  <2> QED BY <1>a, <2>1 DEF Counted, Under
<1>9. Good(r, P)
  <2>1. (P \ On(c)) \cup On(d) = P
    BY <1>5, <1>8
  <2> QED BY <1>7, <2>1
<1>10. Keeps(t, r)
  BY <1>1, <1>2, <1>4, KeepsOthers
<1> QED BY <1>7, <1>9, <1>10 DEF ConnIs

\* r is t but for connection i and request u.
Moved(t, r, i, d, u, x) ==
    /\ r \in States
    /\ r.conn[i] = d /\ \A j \in ConnIds : j # i => r.conn[j] = t.conn[j]
    /\ r.req[u] = x /\ \A v \in Urls : v # u => r.req[v] = t.req[v]
    /\ r.srv = t.srv /\ r.cbs = t.cbs /\ r.proxy = t.proxy
    /\ r.abort = t.abort /\ r.lost = t.lost /\ r.misplaced = t.misplaced

\* A connection to the server that has request u under way, and the same connection
\* later.
Fits(c, d, u) ==
    /\ c.act = <<u>> /\ c.readcb = "http"
    /\ d.st = c.st /\ d.host = c.host /\ d.sub = c.sub /\ d.mev = c.mev
    /\ d.readcb = "http" /\ (d.act = <<u>> \/ d.act = <<>>)

LEMMA Moves ==
    ASSUME NEW t \in States, NEW P, Good(t, P), NEW i \in Lives(t), NEW u \in Urls,
           NEW d \in Conns, NEW x \in Requests, Fits(t.conn[i], d, u),
           NEW r, Moved(t, r, i, d, u, x), Steady(d, r.req, r.proxy)
    PROVE  Good(r, IF d.act = <<>> THEN P \ {u} ELSE P) /\ Lives(r) = Lives(t)
<1>a. Sound(t) /\ Flows(t) /\ Counted(t, P)
  BY DEF Good
<1>1. PICK c \in Conns : c = t.conn[i]
  BY <1>a, LiveConn DEF Sound
<1>2. c.st # "none" /\ i \in ConnIds
  BY <1>1, <1>a, LiveConn DEF Sound
<1>3. Steady(c, t.req, t.proxy) /\ Tidy(c) /\ \A v \in On(c) : Host[v] = c.host
  BY <1>1, <1>a DEF Flows, Sound, Loads
<1>4. On(c) \subseteq P
  <2>1. On(c) \subseteq Rides(t)
    BY <1>1, <1>a, Exclusive
  <2> QED BY <1>a, <2>1 DEF Counted, Under
<1>5. /\ c.act = <<u>> /\ c.readcb = "http"
      /\ d.st = c.st /\ d.host = c.host /\ d.sub = c.sub /\ d.mev = c.mev
      /\ d.readcb = "http" /\ (d.act = <<u>> \/ d.act = <<>>)
  BY <1>1 DEF Fits
<1>6. In(c.act) = {u} /\ u \notin In(c.sub) /\ On(c) = In(c.sub) \cup {u} /\ In(<<>>) = {}
  BY <1>3, <1>5, InOne, InEmpty DEF On, Tidy
<1>7. PICK e : e = [c EXCEPT !.sub = <<>>, !.act = <<>>, !.out = FALSE, !.inp = <<>>,
                             !.todo = <<>>]
  OBVIOUS
<1>8. e \in Conns
  BY <1>7, EmptySeq, Zenon DEF Conns
<1>9. /\ e.sub = <<>> /\ e.act = <<>> /\ e.out = FALSE /\ e.inp = <<>> /\ e.todo = <<>>
      /\ e.st = c.st /\ e.host = c.host /\ e.mev = c.mev /\ e.readcb = c.readcb
      /\ e.writecb = c.writecb
  BY <1>7 DEF Conns
<1>10. Tidy(e) /\ On(e) = {}
  BY <1>9, InEmpty DEF Tidy, On
<1>11. Steady(e, t.req, t.proxy)
  <2>1. Unsent(e, t.req)
    BY <1>9 DEF Unsent
  <2>2. e.inp \o e.todo = <<>>
    BY <1>9
  <2>3. (c.mev = "CONNECTING" => ~t.proxy) /\ c.writecb # "socks"
    BY <1>3, <1>5 DEF Steady
  <2>4. In(e.sub) = {}
    BY <1>9, InEmpty
  <2> QED BY <1>5, <1>9, <2>1, <2>2, <2>3, <2>4 DEF Steady, Flow
<1>12. PICK m : m = PutConn(t, i, e)
  OBVIOUS
<1>13. ConnIs(t, m, i, e)
  BY <1>2, <1>8, <1>12, ConnPut
<1>14. Good(m, P \ On(c)) /\ Lives(m) = Lives(t)
  <2>1. Succeeds(t, P, i, e)
    BY <1>1, <1>2, <1>9, <1>10, <1>11 DEF Succeeds
  <2>2. Good(m, (P \ On(c)) \cup On(e)) /\ Lives(m) = Lives(t)
    BY <1>1, <1>8, <1>13, <2>1, ReplacedBy
  <2>3. (P \ On(c)) \cup On(e) = P \ On(c)
    BY <1>10
  <2> QED BY <2>2, <2>3
<1>15. m \in States /\ m.conn[i] = e /\ m.abort = t.abort
  BY <1>13 DEF ConnIs
<1>16. PICK n : n = PutReq(m, u, x)
  OBVIOUS
<1>17. ReqIs(m, n, u, x)
  BY <1>15, <1>16, ReqPut
<1>18. Good(n, P \ On(c)) /\ Lives(n) = Lives(t)
  <2>1. u \notin P \ On(c)
    BY <1>6
  <2> QED BY <1>14, <1>15, <1>17, <2>1, Rerequested
<1>19. n \in States /\ n.conn = m.conn
  BY <1>17 DEF ReqIs
<1>20. n.req = r.req /\ n.proxy = r.proxy
  <2>1. n.req \in [Urls -> Requests] /\ r.req \in [Urls -> Requests]
    BY <1>19 DEF States, Moved
  <2>2. \A v \in Urls : n.req[v] = r.req[v]
    BY <1>13, <1>17 DEF Moved, ReqIs, ConnIs
  <2>3. n.proxy = r.proxy
    BY <1>13, <1>17 DEF Moved, ReqIs, ConnIs
  <2> QED BY <2>1, <2>2, <2>3
<1>21. Tidy(d) /\ On(d) = IF d.act = <<>> THEN On(c) \ {u} ELSE On(c)
  <2>1. Distinct(d.sub) /\ In(d.sub) = In(c.sub)
    BY <1>3, <1>5 DEF Tidy
  <2>2. CASE d.act = <<>>
    <3>1. In(d.act) = {} /\ Len(d.act) = 0
      BY <1>6, <2>2
    <3>2. Tidy(d)
      BY <2>1, <3>1 DEF Tidy
    <3>3. On(d) = On(c) \ {u}
      BY <1>6, <2>1, <3>1 DEF On
    <3> QED BY <2>2, <3>2, <3>3
  <2>3. CASE d.act = <<u>>
    <3>1. In(d.act) = {u} /\ Len(d.act) = 1 /\ d.act # <<>>
      BY <2>3, InOne
    <3>2. Tidy(d)
      BY <1>6, <2>1, <3>1 DEF Tidy
    <3>3. On(d) = On(c)
      BY <1>6, <2>1, <3>1 DEF On
    <3> QED BY <3>1, <3>2, <3>3
  <2> QED BY <1>5, <2>2, <2>3
<1>22. Succeeds(n, P \ On(c), i, d)
  <2>1. On(n.conn[i]) = {} /\ n.conn[i].host = c.host
    BY <1>9, <1>10, <1>15, <1>19
  <2> QED BY <1>2, <1>3, <1>5, <1>20, <1>21, <2>1 DEF Succeeds
<1>23. PICK k : k = PutConn(n, i, d)
  OBVIOUS
<1>24. ConnIs(n, k, i, d)
  BY <1>2, <1>19, <1>23, ConnPut
<1>25. PICK Q : Q = IF d.act = <<>> THEN P \ {u} ELSE P
  OBVIOUS
<1>26. Good(k, Q) /\ Lives(k) = Lives(t)
  <2>1. Good(k, ((P \ On(c)) \ On(n.conn[i])) \cup On(d)) /\ Lives(k) = Lives(n)
    BY <1>18, <1>19, <1>22, <1>24, ReplacedBy
  <2>2. On(n.conn[i]) = {}
    BY <1>10, <1>15, <1>19
  <2>3. ((P \ On(c)) \ On(n.conn[i])) \cup On(d) = Q
    BY <1>4, <1>6, <1>21, <1>25, <2>2
  <2> QED BY <1>18, <2>1, <2>3
<1>27. k \in States /\ r \in States
  BY <1>24 DEF ConnIs, Moved
<1>28. k.conn = r.conn
  <2>1. k.conn \in [ConnIds -> Conns] /\ r.conn \in [ConnIds -> Conns]
    BY <1>27 DEF States
  <2>2. \A j \in ConnIds : k.conn[j] = r.conn[j]
    BY <1>13, <1>19, <1>24 DEF Moved, ConnIs
  <2> QED BY <2>1, <2>2
<1>29. /\ r.srv = k.srv /\ r.req = k.req /\ r.proxy = k.proxy /\ r.lost = k.lost
       /\ r.misplaced = k.misplaced /\ r.abort = k.abort /\ r.cbs = k.cbs
  <2>1. r.req = k.req /\ r.proxy = k.proxy
    BY <1>20, <1>24 DEF ConnIs
  <2>2. /\ r.srv = k.srv /\ r.lost = k.lost
        /\ r.misplaced = k.misplaced /\ r.abort = k.abort /\ r.cbs = k.cbs
    BY <1>13, <1>17, <1>24 DEF ConnIs, ReqIs, Moved
  <2> QED BY <2>1, <2>2
<1>30. Notes(k, r)
  BY <1>27, <1>28, <1>29 DEF Notes
<1>31. Good(r, Q) /\ Lives(r) = Lives(k)
  BY <1>26, <1>27, <1>30, NotesKeep
<1> QED BY <1>25, <1>26, <1>31

-----------------------------------------------------------------------------
(* What is read.                                                           *)

\* The unit at position p of a response.
At(u, f, p) ==
    IF p = 1 THEN Unit("status", 0)
    ELSE IF p = 2 THEN Unit("length", Size[u] - f)
    ELSE IF p < Header(f) THEN Unit("range", f)
    ELSE IF p = Header(f) THEN Unit("blank", 0)
    ELSE Unit("body", f + p - Header(f) - 1)

LEMMA UnitIs ==
    ASSUME NEW kind \in Kinds, NEW val \in Int
    PROVE  Unit(kind, val) \in Units /\ Unit(kind, val).kind = kind /\ Unit(kind, val).val = val
BY DEF Unit, Units

\* One sequence after another.
LEMMA ConcatIs ==
    ASSUME NEW S, NEW p \in Seq(S), NEW q \in Seq(S)
    PROVE  /\ p \o q \in Seq(S) /\ Len(p \o q) = Len(p) + Len(q)
           /\ \A k \in 1..(Len(p) + Len(q)) :
                 (p \o q)[k] = IF k <= Len(p) THEN p[k] ELSE q[k - Len(p)]
OBVIOUS

LEMMA ThreeOrFour ==
    ASSUME NEW S, NEW x \in S, NEW y \in S, NEW v \in S, NEW w \in S
    PROVE  /\ LET q == <<x, y>> \o <<v>> \o <<w>>
              IN  q \in Seq(S) /\ Len(q) = 4 /\ q[1] = x /\ q[2] = y /\ q[3] = v /\ q[4] = w
           /\ LET q == <<x, y>> \o <<>> \o <<w>>
              IN  q \in Seq(S) /\ Len(q) = 3 /\ q[1] = x /\ q[2] = y /\ q[3] = w
<1>0. /\ <<x, y>> \in Seq(S) /\ Len(<<x, y>>) = 2 /\ <<x, y>>[1] = x /\ <<x, y>>[2] = y
      /\ <<v>> \in Seq(S) /\ Len(<<v>>) = 1 /\ <<v>>[1] = v
      /\ <<w>> \in Seq(S) /\ Len(<<w>>) = 1 /\ <<w>>[1] = w
  OBVIOUS
<1>1. PICK p \in Seq(S) : p = <<x, y>> /\ Len(p) = 2 /\ p[1] = x /\ p[2] = y
  BY <1>0
<1>2. PICK a \in Seq(S) : a = <<v>> /\ Len(a) = 1 /\ a[1] = v
  BY <1>0
<1>3. PICK b \in Seq(S) : b = <<w>> /\ Len(b) = 1 /\ b[1] = w
  BY <1>0
<1>4. PICK c : c = p \o a
  OBVIOUS
<1>5. c \in Seq(S) /\ Len(c) = 3 /\ c[1] = x /\ c[2] = y /\ c[3] = v
  BY <1>1, <1>2, <1>4, ConcatIs
<1>6. PICK d : d = c \o b
  OBVIOUS
<1>7. d \in Seq(S) /\ Len(d) = 4 /\ d[1] = x /\ d[2] = y /\ d[3] = v /\ d[4] = w
  <2>0. c \in Seq(S) /\ b \in Seq(S) /\ Len(c) + Len(b) = 4 /\ Len(c) = 3
    BY <1>3, <1>5
  <2>1. d \in Seq(S) /\ Len(d) = 4
    BY <1>6, <2>0, ConcatIs
  <2>2. \A k \in 1..4 : d[k] = IF k <= 3 THEN c[k] ELSE b[k - 3]
    BY <1>6, <2>0, ConcatIs
  <2> QED BY <1>3, <1>5, <2>1, <2>2
<1>8. PICK e : e = p \o b
  OBVIOUS
<1>9. e \in Seq(S) /\ Len(e) = 3 /\ e[1] = x /\ e[2] = y /\ e[3] = w
  BY <1>1, <1>3, <1>8, ConcatIs
<1>10. p \o <<>> = p
  BY <1>1
<1> QED BY <1>1, <1>2, <1>3, <1>4, <1>6, <1>7, <1>8, <1>9, <1>10

LEMMA ResponseIs ==
    ASSUME NEW u \in Urls, NEW f \in Nat, f < Size[u]
    PROVE  /\ Response(u, f) \in Seq(Units) /\ Len(Response(u, f)) = Lasts(u, f)
           /\ \A p \in 1..Lasts(u, f) : Response(u, f)[p] = At(u, f, p)
<1>1. PICK z \in Nat : z = Size[u]
  BY Constants
<1>2. PICK x \in Units : x = Unit("status", 0)
  BY UnitIs DEF Kinds
<1>3. PICK y \in Units : y = Unit("length", z - f)
  BY UnitIs DEF Kinds
<1>4. PICK v \in Units : v = Unit("range", f)
  BY UnitIs DEF Kinds
<1>5. PICK w \in Units : w = Unit("blank", 0)
  BY UnitIs DEF Kinds
<1>6. PICK body : body = [k \in 1..(z - f) |-> Unit("body", f + k - 1)]
  OBVIOUS
<1>7. body \in Seq(Units) /\ Len(body) = z - f
  <2>1. \A k \in 1..(z - f) : Unit("body", f + k - 1) \in Units
    BY UnitIs DEF Kinds
  <2>2. z - f \in Nat
    BY <1>1
  <2> QED BY <1>6, <2>1, <2>2
<1>8. PICK front : front = <<x, y>> \o (IF f > 0 THEN <<v>> ELSE <<>>) \o <<w>>
  OBVIOUS
<1>9. PICK n \in Nat : n = Header(f)
  BY DEF Header
<1>12. front \in Seq(Units) /\ Len(front) = n /\ \A p \in 1..n : front[p] = At(u, f, p)
  <2>1. CASE f > 0
    <3>1. /\ front \in Seq(Units) /\ Len(front) = 4
          /\ front[1] = x /\ front[2] = y /\ front[3] = v /\ front[4] = w
      BY <1>8, <2>1, ThreeOrFour
    <3>2. n = 4
      BY <1>9, <2>1 DEF Header
    <3>3. \A p \in 1..4 : p = 1 \/ p = 2 \/ p = 3 \/ p = 4
      OBVIOUS
    <3>4. \A p \in 1..n : front[p] = At(u, f, p)
      BY <1>1, <1>2, <1>3, <1>4, <1>5, <1>9, <3>1, <3>2, <3>3 DEF At
    <3> QED BY <3>1, <3>2, <3>4
  <2>2. CASE ~(f > 0)
    <3>1. /\ front \in Seq(Units) /\ Len(front) = 3
          /\ front[1] = x /\ front[2] = y /\ front[3] = w
      BY <1>8, <2>2, ThreeOrFour
    <3>2. n = 3
      BY <1>9, <2>2 DEF Header
    <3>3. \A p \in 1..3 : p = 1 \/ p = 2 \/ p = 3
      OBVIOUS
    <3>4. \A p \in 1..n : front[p] = At(u, f, p)
      BY <1>1, <1>2, <1>3, <1>5, <1>9, <3>1, <3>2, <3>3 DEF At
    <3> QED BY <3>1, <3>2, <3>4
  <2> QED BY <2>1, <2>2
<1>13. PICK r : r = front \o body
  OBVIOUS
<1>14. Response(u, f) = r
  BY <1>1, <1>2, <1>3, <1>4, <1>5, <1>6, <1>8, <1>13, Zenon DEF Response
<1>15. r \in Seq(Units) /\ Len(r) = n + (z - f)
  <2>1. r \in Seq(Units) /\ Len(r) = Len(front) + Len(body)
    BY <1>7, <1>12, <1>13, ConcatIs
  <2> QED BY <1>7, <1>12, <2>1
<1>16. Lasts(u, f) = n + z - f
  BY <1>1, <1>9 DEF Lasts
<1>17. n + (z - f) = n + z - f
  BY <1>1
<1>18. ASSUME NEW p \in 1..Lasts(u, f) PROVE r[p] = At(u, f, p)
  <2>1. CASE p <= n
    <3>1. p \in 1..n
      BY <1>16, <2>1
    <3>2. r[p] = front[p]
      BY <1>7, <1>12, <1>13, <3>1
    <3> QED BY <1>12, <3>1, <3>2
  <2>2. CASE ~(p <= n)
    <3>1. p - n \in 1..(z - f) /\ p \in 1..(n + (z - f))
      BY <1>1, <1>16, <2>2
    <3>2. r[p] = body[p - n]
      BY <1>7, <1>12, <1>13, <2>2, <3>1
    <3>3. body[p - n] = Unit("body", f + (p - n) - 1)
      BY <1>6, <3>1
    <3>4. f + (p - n) - 1 = f + p - n - 1
      BY <3>1
    <3>5. n >= 3
      BY <1>9 DEF Header
    <3> QED BY <1>9, <2>2, <3>2, <3>3, <3>4, <3>5 DEF At
  <2> QED BY <2>1, <2>2
<1> QED BY <1>14, <1>15, <1>16, <1>17, <1>18

\* The next unit of a response.
LEMMA ReadNext ==
    ASSUME NEW u \in Urls, NEW c \in Conns, NEW r \in Requests, NEW p \in Nat,
           NEW q \in Seq(Units), q # <<>>, Reading(c, r, u, p, q)
    PROVE  q[1] = At(u, c.first, p) /\ p \in 1..Lasts(u, c.first)
<1>1. c.first \in Nat /\ c.first < Size[u] /\ p \in 1..Lasts(u, c.first)
  BY ConnFields DEF Reading
<1>2. 1 \in 1..Len(q) /\ p + 1 - 1 = p
  OBVIOUS
<1>3. q[1] = Response(u, c.first)[p]
  BY <1>2 DEF Reading
<1> QED BY <1>1, <1>3, ResponseIs

\* What a connection keeps while it reads.
Later(c, d) ==
    /\ d.st = c.st /\ d.host = c.host /\ d.sub = c.sub /\ d.act = c.act /\ d.first = c.first
    /\ d.out = c.out /\ d.mev = c.mev /\ d.readcb = c.readcb /\ d.todo = c.todo
    /\ d.inp = c.inp /\ d.writecb = c.writecb /\ d.closed = c.closed /\ d.wen = c.wen

\* What has been read, and what is to be read, once the unit at position p is read.
ReadTo(c, d, r, x, u, p) ==
    /\ Later(c, d) /\ x.first = r.first
    /\ p >= 2 => d.blen = Size[u] - x.size
    /\ x.size = c.first + (IF p + 1 > Header(c.first) THEN p - Header(c.first) ELSE 0)

LEMMA ReadOn ==
    ASSUME NEW u \in Urls, NEW c \in Conns, NEW r \in Requests, NEW p \in Nat,
           NEW q \in Seq(Units), q # <<>>, Reading(c, r, u, p, q),
           p # Lasts(u, c.first), NEW d \in Conns, NEW x \in Requests,
           ReadTo(c, d, r, x, u, p)
    PROVE  Reading(d, x, u, p + 1, Tail(q))
<1>1. PICK n \in Int : n = Lasts(u, c.first)
  BY ConnFields, Constants DEF Lasts, Header
<1>2. p \in 1..n /\ p # n
  BY <1>1 DEF Reading
<1>3. p + 1 \in 1..n
  BY <1>2
<1>4. PICK w \in Seq(Units) : w = Tail(q) /\ Len(w) = Len(q) - 1
  BY InTail
<1>5. Len(q) <= n - p + 1 /\ Len(q) \in Nat
  BY <1>1 DEF Reading
<1>6. Len(w) <= n - (p + 1) + 1
  BY <1>2, <1>4, <1>5
<1>7. \A j \in 1..Len(w) : w[j] = Response(u, c.first)[p + 1 + j - 1]
  <2> TAKE j \in 1..Len(w)
  <2>1. j + 1 \in 1..Len(q) /\ p + (j + 1) - 1 = p + 1 + j - 1
    BY <1>4, <1>5
  <2>2. w[j] = q[j + 1]
    BY <1>4
  <2>3. q[j + 1] = Response(u, c.first)[p + (j + 1) - 1]
    BY <2>1 DEF Reading
  <2> QED BY <2>1, <2>2, <2>3
<1>8. PICK hd \in Nat : hd = Header(c.first)
  BY DEF Header
<1>9. x.size = c.first + (IF p + 1 > hd THEN (p + 1) - hd - 1 ELSE 0)
  <2>1. p - hd = (p + 1) - hd - 1
    OBVIOUS
  <2> QED BY <1>8, <2>1 DEF ReadTo
<1>10. p + 1 > 2 => p >= 2
  OBVIOUS
<1>11. /\ ~d.out /\ d.first = c.first /\ c.first < Size[u] /\ x.first = c.first
       /\ (p + 1 > 2 => d.blen = Size[u] - x.size)
  BY <1>10 DEF Reading, ReadTo, Later
<1>12. p + 1 \in 1..Lasts(u, d.first) /\ Len(w) <= Lasts(u, d.first) - (p + 1) + 1
  BY <1>1, <1>3, <1>6, <1>11
<1>13. x.size = d.first + (IF p + 1 > Header(d.first) THEN (p + 1) - Header(d.first) - 1 ELSE 0)
  BY <1>8, <1>9, <1>11
<1>14. \A j \in 1..Len(w) : w[j] = Response(u, d.first)[p + 1 + j - 1]
  BY <1>7, <1>11
<1>15. Reading(d, x, u, p + 1, w)
  BY <1>11, <1>12, <1>13, <1>14 DEF Reading
<1> QED BY <1>4, <1>15

\* A connection with q to be read.
Fill(c, q) == [c EXCEPT !.inp = q]
Filled(x, i, q) == PutConn(x, i, Fill(x.conn[i], q))

LEMMA FillIs ==
    ASSUME NEW c \in Conns, NEW q \in Seq(Units)
    PROVE  LET d == Fill(c, q)
           IN  /\ d \in Conns /\ d.inp = q
               /\ d.st = c.st /\ d.host = c.host /\ d.sub = c.sub /\ d.act = c.act
               /\ d.first = c.first /\ d.out = c.out /\ d.mev = c.mev /\ d.readcb = c.readcb
               /\ d.todo = c.todo /\ d.blen = c.blen /\ d.writecb = c.writecb
               /\ d.closed = c.closed /\ d.wen = c.wen
<1>1. Fill(c, q) \in Conns
  BY Zenon DEF Fill, Conns
<1> QED BY <1>1 DEF Fill, Conns

\* The states of http_receive with q still to be read from connection i, which started
\* from t.
Got(t, i, q) ==
    {x \in States :
        /\ ~x.misplaced
        /\ x.abort = "no" =>
              /\ x.conn[i].inp = <<>> /\ x.conn[i].readcb = "http"
              /\ (\A j \in Lives(t) : j \in Lives(x)) /\ Rested(x)
              /\ Good(Filled(x, i, q), x.b.pending)}

\* The response to u is under way, and the unit at position p is the next one.
Midway(x, i, q, u, p) ==
    /\ x.conn[i].act = <<u>> /\ (x.conn[i].mev = "CONNECTING" => ~x.proxy)
    /\ x.conn[i].writecb # "socks"
    /\ \A w \in In(x.conn[i].sub) : Asks(x.req[w], w) /\ w # u
    /\ Reading(x.conn[i], x.req[u], u, p, q \o x.conn[i].todo)
    /\ q[1] = At(u, x.conn[i].first, p) /\ p \in 1..Lasts(u, x.conn[i].first)

LEMMA MidwayIs ==
    ASSUME NEW t \in States, NEW i \in Lives(t), NEW q \in Seq(Units), q # <<>>,
           NEW x \in Got(t, i, q), x.abort = "no"
    PROVE  \E u \in Urls : \E p \in Nat : Midway(x, i, q, u, p)
<1>1. x \in States /\ i \in ConnIds
  BY DEF Got, Lives
<1>2. PICK c \in Conns : c = x.conn[i]
  BY <1>1, Fields
<1>3. PICK d \in Conns : d = Fill(c, q)
  BY FillIs
<1>4. PICK v : v = Filled(x, i, q)
  OBVIOUS
<1>5. ConnIs(x, v, i, d)
  BY <1>1, <1>2, <1>3, <1>4, ConnPut DEF Filled
<1>6. Good(v, x.b.pending) /\ i \in Lives(x) /\ c.readcb = "http"
  BY <1>2, <1>4 DEF Got
<1>7. v.conn[i] = d /\ v.req = x.req /\ v.proxy = x.proxy /\ Lives(v) = Lives(x) /\ v \in States
  BY <1>5 DEF ConnIs, Lives
<1>8. Steady(d, x.req, x.proxy) /\ Tidy(d)
  BY <1>6, <1>7 DEF Good, Flows, Sound, Loads
<1>9. /\ d.inp = q /\ d.sub = c.sub /\ d.act = c.act /\ d.first = c.first /\ d.out = c.out
      /\ d.mev = c.mev /\ d.readcb = c.readcb /\ d.todo = c.todo /\ d.blen = c.blen
      /\ d.writecb = c.writecb
  BY <1>3, FillIs
<1>10. PICK w \in Seq(Units) : w = q \o c.todo
  BY ConnFields, ConcatIs
<1>11. w # <<>> /\ w[1] = q[1]
  <2>1. c.todo \in Seq(Units) /\ Len(q) \in Nat /\ Len(q) # 0 /\ Len(c.todo) \in Nat
    BY ConnFields
  <2>2. 1 \in 1..(Len(q) + Len(c.todo)) /\ 1 <= Len(q) /\ Len(w) = Len(q) + Len(c.todo)
    BY <1>10, <2>1, ConcatIs
  <2>3. w[1] = q[1]
    BY <1>10, <2>1, <2>2, ConcatIs
  <2> QED BY <2>1, <2>2, <2>3
<1>12. Flow(d, x.req, w) /\ (c.mev = "CONNECTING" => ~x.proxy) /\ c.writecb # "socks"
  BY <1>6, <1>8, <1>9, <1>10 DEF Steady
<1>13. PICK p \in Nat : c.act # <<>> /\ Reading(d, x.req[c.act[1]], c.act[1], p, w)
  BY <1>9, <1>11, <1>12 DEF Flow
<1>14. PICK u \in Urls : u = c.act[1]
  BY <1>13, ConnFields, InTail
<1>15. c.act = <<u>>
  BY <1>8, <1>9, <1>13, <1>14, ConnFields DEF Tidy
<1>16. Reading(c, x.req[u], u, p, w)
  BY <1>9, <1>13, <1>14 DEF Reading
<1>17. x.req[u] \in Requests
  BY <1>1, Fields
<1>18. q[1] = At(u, c.first, p) /\ p \in 1..Lasts(u, c.first)
  BY <1>11, <1>16, <1>17, ReadNext
<1>19. \A y \in In(c.sub) : Asks(x.req[y], y) /\ y # u
  BY <1>8, <1>9, <1>15, InOne DEF Steady, Tidy
<1> QED BY <1>2, <1>10, <1>12, <1>15, <1>16, <1>18, <1>19 DEF Midway

\* The rest of what is read, and what is still on its way.
LEMMA RestIs ==
    ASSUME NEW p \in Seq(Units), p # <<>>, NEW q \in Seq(Units)
    PROVE  Tail(p \o q) = Tail(p) \o q /\ p \o q # <<>>
<1>1. /\ p \o q \in Seq(Units) /\ Len(p \o q) = Len(p) + Len(q) /\ Len(p) \in Nat \ {0}
      /\ Len(q) \in Nat
  BY ConcatIs
<1>2. p \o q # <<>>
  BY <1>1
<1>3. Tail(p) \in Seq(Units) /\ Len(Tail(p)) = Len(p) - 1
  BY InTail
<1>4. PICK x \in Seq(Units) : x = Tail(p \o q)
  BY <1>1, <1>2, InTail
<1>5. PICK y \in Seq(Units) : y = Tail(p) \o q
  BY <1>3, ConcatIs
<1>6. Len(x) = Len(p) + Len(q) - 1 /\ Len(y) = Len(p) + Len(q) - 1
  BY <1>1, <1>2, <1>3, <1>4, <1>5, InTail, ConcatIs
<1>7. ASSUME NEW k \in 1..(Len(p) + Len(q) - 1)
      PROVE  x[k] = y[k]
  <2>1. x[k] = (p \o q)[k + 1]
    BY <1>1, <1>2, <1>4, <1>6, <1>7
  <2>2. (p \o q)[k + 1] = IF k + 1 <= Len(p) THEN p[k + 1] ELSE q[k + 1 - Len(p)]
    BY <1>1, <1>7, ConcatIs
  <2>3. y[k] = IF k <= Len(p) - 1 THEN Tail(p)[k] ELSE q[k - (Len(p) - 1)]
    BY <1>1, <1>3, <1>5, <1>7, ConcatIs
  <2>4. k <= Len(p) - 1 => Tail(p)[k] = p[k + 1]
    BY <1>1, <1>7
  <2>5. k + 1 <= Len(p) <=> k <= Len(p) - 1
    BY <1>1, <1>7
  <2>6. k + 1 - Len(p) = k - (Len(p) - 1)
    BY <1>1, <1>7
  <2> QED BY <2>1, <2>2, <2>3, <2>4, <2>5, <2>6
<1>8. x = y
  BY <1>6, <1>7
<1> QED BY <1>2, <1>4, <1>5, <1>8

\* What asking for an object leaves alone, and what the reading of a unit does.
Aloof(t, r) ==
    /\ r.b.state = t.b.state /\ r.b.notified = t.b.notified /\ r.b.loadnum = t.b.loadnum
    /\ r.b.received = t.b.received
    /\ r.cbs = t.cbs /\ r.nap = t.nap /\ r.timers = t.timers /\ r.timed = t.timed
Quietly(t, r) ==
    /\ Aloof(t, r) /\ r.b.pending = t.b.pending /\ r.b.embedded = t.b.embedded
    /\ r.abort = t.abort /\ r.persist = t.persist

\* One unit is read: y is x but for connection i and request u.
Advances(x, y, i, d, u, z) == Moved(x, y, i, d, u, z) /\ Quietly(x, y)

\* A unit that is not the last one is read.
LEMMA StepTo ==
    ASSUME NEW t \in States, NEW i \in Lives(t), NEW q \in Seq(Units), q # <<>>,
           NEW x \in Got(t, i, q), x.abort = "no", NEW u \in Urls, NEW p \in Nat,
           Midway(x, i, q, u, p), p # Lasts(u, x.conn[i].first), NEW d \in Conns,
           NEW z \in Requests, ReadTo(x.conn[i], d, x.req[u], z, u, p),
           NEW y, Advances(x, y, i, d, u, z)
    PROVE  y \in Got(t, i, Tail(q))
<1>1. x \in States /\ i \in ConnIds /\ i \in Lives(x) /\ Rested(x)
  BY DEF Got, Lives
<1>2. PICK c \in Conns : c = x.conn[i]
  BY <1>1, Fields
<1>3. PICK g \in Seq(Units) : g = Tail(q)
  BY InTail
<1>4. PICK f \in Conns : f = Fill(c, q)
  BY FillIs
<1>5. PICK e \in Conns : e = Fill(d, g)
  BY FillIs
<1>6. PICK v : v = Filled(x, i, q)
  OBVIOUS
<1>7. ConnIs(x, v, i, f)
  BY <1>1, <1>2, <1>4, <1>6, ConnPut DEF Filled
<1>8. /\ y \in States /\ y.conn[i] = d /\ y.req[u] = z /\ y.srv = x.srv /\ y.cbs = x.cbs
      /\ y.proxy = x.proxy /\ y.abort = x.abort /\ y.lost = x.lost
      /\ y.misplaced = x.misplaced /\ y.b.pending = x.b.pending /\ y.b.state = x.b.state
      /\ (\A j \in ConnIds : j # i => y.conn[j] = x.conn[j])
      /\ (\A w \in Urls : w # u => y.req[w] = x.req[w])
  BY DEF Advances, Moved, Quietly, Aloof
<1>9. PICK w : w = Filled(y, i, g)
  OBVIOUS
<1>10. ConnIs(y, w, i, e)
  BY <1>1, <1>5, <1>8, <1>9, ConnPut DEF Filled
<1>11. Good(v, x.b.pending) /\ c.inp = <<>> /\ c.readcb = "http"
  BY <1>2, <1>6 DEF Got
<1>12. /\ v \in States /\ v.conn[i] = f /\ v.srv = x.srv /\ v.req = x.req /\ v.proxy = x.proxy
       /\ v.cbs = x.cbs /\ v.abort = x.abort /\ v.lost = x.lost /\ v.misplaced = x.misplaced
       /\ (\A j \in ConnIds : j # i => v.conn[j] = x.conn[j])
  BY <1>7 DEF ConnIs
<1>13. /\ w \in States /\ w.conn[i] = e /\ w.srv = y.srv /\ w.req = y.req /\ w.proxy = y.proxy
       /\ w.cbs = y.cbs /\ w.abort = y.abort /\ w.lost = y.lost /\ w.misplaced = y.misplaced
       /\ (\A j \in ConnIds : j # i => w.conn[j] = y.conn[j])
  BY <1>10 DEF ConnIs
<1>14. Moved(v, w, i, e, u, z)
  BY <1>8, <1>12, <1>13 DEF Moved
<1>15. /\ f.inp = q /\ f.st = c.st /\ f.host = c.host /\ f.sub = c.sub /\ f.act = c.act
       /\ f.mev = c.mev /\ f.readcb = c.readcb
  BY <1>4, FillIs
<1>16. /\ e.inp = g /\ e.st = d.st /\ e.host = d.host /\ e.sub = d.sub /\ e.act = d.act
       /\ e.first = d.first /\ e.out = d.out /\ e.mev = d.mev /\ e.readcb = d.readcb
       /\ e.todo = d.todo /\ e.blen = d.blen /\ e.writecb = d.writecb
  BY <1>5, FillIs
<1>17. /\ d.st = c.st /\ d.host = c.host /\ d.sub = c.sub /\ d.act = c.act /\ d.first = c.first
       /\ d.out = c.out /\ d.mev = c.mev /\ d.readcb = c.readcb /\ d.todo = c.todo
       /\ d.inp = c.inp /\ d.writecb = c.writecb
  BY <1>2 DEF ReadTo, Later
<1>18. /\ c.act = <<u>> /\ (c.mev = "CONNECTING" => ~x.proxy) /\ c.writecb # "socks"
       /\ (\A k \in In(c.sub) : Asks(x.req[k], k) /\ k # u)
       /\ Reading(c, x.req[u], u, p, q \o c.todo)
  BY <1>2 DEF Midway
<1>19. Fits(v.conn[i], e, u)
  BY <1>11, <1>12, <1>15, <1>16, <1>17, <1>18 DEF Fits
<1>20. Steady(e, w.req, w.proxy)
  <2>1. PICK r \in Seq(Units) : r = q \o c.todo
    BY ConnFields, ConcatIs
  <2>2. r # <<>> /\ Tail(r) = g \o c.todo
    BY <1>3, <2>1, ConnFields, RestIs
  <2>3. PICK xr \in Requests : xr = x.req[u]
    BY <1>1, Fields
  <2>4. Reading(c, xr, u, p, r) /\ p # Lasts(u, c.first) /\ ReadTo(c, d, xr, z, u, p)
    BY <1>2, <1>18, <2>1, <2>3
  <2>5. Reading(d, z, u, p + 1, Tail(r))
    BY <2>2, <2>4, ReadOn
  <2>6. Reading(e, z, u, p + 1, e.inp \o e.todo)
    <3>1. PICK k : k = Tail(r)
      OBVIOUS
    <3>2. Reading(d, z, u, p + 1, k)
      BY <2>5, <3>1
    <3>3. Reading(e, z, u, p + 1, k)
      BY <1>16, <3>2 DEF Reading
    <3>4. k = e.inp \o e.todo
      BY <1>16, <1>17, <2>2, <3>1
    <3> QED BY <3>3, <3>4
  <2>7. e.act = <<u>> /\ e.act # <<>> /\ e.act[1] = u
    BY <1>16, <1>17, <1>18, InOne
  <2>8. Flow(e, w.req, e.inp \o e.todo)
    <3>1. w.req[e.act[1]] = z /\ p + 1 \in Nat
      BY <1>8, <1>13, <2>7
    <3> QED BY <2>6, <2>7, <3>1 DEF Flow
  <2>9. ASSUME NEW k \in In(e.sub)
        PROVE  Asks(w.req[k], k)
    <3>1. k \in In(c.sub) /\ k \in Urls
      BY <1>16, <1>17, <2>9, ConnFields, InEmpty
    <3>2. w.req[k] = x.req[k]
      BY <1>8, <1>13, <1>18, <3>1
    <3> QED BY <1>18, <3>1, <3>2
  <2>10. e.readcb = "http" /\ e.writecb # "socks" /\ (e.mev = "CONNECTING" => ~w.proxy)
    BY <1>8, <1>11, <1>13, <1>16, <1>17, <1>18
  <2> QED BY <2>8, <2>9, <2>10 DEF Steady
<1>21. Lives(v) = Lives(x) /\ Lives(y) = Lives(x)
  BY <1>8, <1>12 DEF Lives
<1>22. i \in Lives(v)
  BY <1>1, <1>21
<1>23. e.act # <<>>
  BY <1>16, <1>17, <1>18, InOne
<1>24. Good(w, x.b.pending)
  <2>1. Good(w, IF e.act = <<>> THEN x.b.pending \ {u} ELSE x.b.pending)
    BY <1>11, <1>12, <1>14, <1>19, <1>20, <1>22, Moves
  <2> QED BY <1>23, <2>1
<1>25. ~y.misplaced /\ Rested(y) /\ (\A j \in Lives(t) : j \in Lives(y))
  BY <1>1, <1>8, <1>21 DEF Got, Rested
<1>26. y.conn[i].inp = <<>> /\ y.conn[i].readcb = "http"
  BY <1>8, <1>11, <1>17
<1>27. Good(Filled(y, i, Tail(q)), y.b.pending)
  BY <1>3, <1>8, <1>9, <1>24
<1> QED BY <1>8, <1>25, <1>26, <1>27 DEF Got

\* Where in a response a unit of some kind is.
LEMMA AtIs ==
    ASSUME NEW u \in Urls, NEW f \in Nat, f < Size[u], NEW p \in 1..Lasts(u, f)
    PROVE  LET x == At(u, f, p)
           IN  /\ x \in Units
               /\ x.kind = "status" => p = 1
               /\ x.kind = "length" => p = 2 /\ x.val = Size[u] - f
               /\ x.kind = "range" => p = 3 /\ p < Header(f) /\ x.val = f
               /\ x.kind = "blank" => p = Header(f)
               /\ x.kind = "body" => p > Header(f) /\ x.val = f + p - Header(f) - 1
               /\ x.kind \in {"status", "length", "range", "blank", "body"}
<1>1. Size[u] \in Nat /\ Header(f) \in {3, 4} /\ Lasts(u, f) \in Nat /\ p \in Nat
  BY Constants DEF Header, Lasts
<1>2. CASE p = 1
  <2>1. At(u, f, p) = Unit("status", 0)
    BY <1>2 DEF At
  <2> QED BY <1>2, <2>1, UnitIs DEF Kinds
<1>3. CASE p = 2
  <2>1. At(u, f, p) = Unit("length", Size[u] - f) /\ Size[u] - f \in Int
    BY <1>1, <1>3 DEF At
  <2> QED BY <1>3, <2>1, UnitIs DEF Kinds
<1>4. CASE p > 2 /\ p < Header(f)
  <2>1. At(u, f, p) = Unit("range", f) /\ f \in Int /\ p = 3
    BY <1>1, <1>4 DEF At
  <2> QED BY <1>4, <2>1, UnitIs DEF Kinds
<1>5. CASE p = Header(f)
  <2>1. At(u, f, p) = Unit("blank", 0)
    BY <1>1, <1>5 DEF At
  <2> QED BY <1>5, <2>1, UnitIs DEF Kinds
<1>6. CASE p > Header(f)
  <2>1. At(u, f, p) = Unit("body", f + p - Header(f) - 1) /\ f + p - Header(f) - 1 \in Int
    BY <1>1, <1>6 DEF At
  <2> QED BY <1>6, <2>1, UnitIs DEF Kinds
<1>7. p = 1 \/ p = 2 \/ (p > 2 /\ p < Header(f)) \/ p = Header(f) \/ p > Header(f)
  BY <1>1
<1> QED BY <1>2, <1>3, <1>4, <1>5, <1>6, <1>7

\* A line of the header is read.
Headed(c, d, u, p) ==
    /\ Later(c, d) /\ p <= Header(c.first)
    /\ p > 2 => d.blen = c.blen
    /\ p = 2 => d.blen = Size[u] - c.first

LEMMA HeaderRead ==
    ASSUME NEW t \in States, NEW i \in Lives(t), NEW q \in Seq(Units), q # <<>>,
           NEW x \in Got(t, i, q), x.abort = "no", NEW u \in Urls, NEW p \in Nat,
           Midway(x, i, q, u, p), NEW d \in Conns, Headed(x.conn[i], d, u, p),
           NEW y, Advances(x, y, i, d, u, x.req[u])
    PROVE  y \in Got(t, i, Tail(q))
<1>1. x \in States /\ i \in ConnIds
  BY DEF Got, Lives
<1>2. PICK c \in Conns : c = x.conn[i]
  BY <1>1, Fields
<1>3. PICK r \in Requests : r = x.req[u]
  BY <1>1, Fields
<1>4. /\ r.first = c.first /\ c.first < Size[u] /\ p \in 1..Lasts(u, c.first)
      /\ (p > 2 => c.blen = Size[u] - r.size)
      /\ r.size = c.first + (IF p > Header(c.first) THEN p - Header(c.first) - 1 ELSE 0)
  BY <1>2, <1>3 DEF Midway, Reading
<1>5. c.first \in Nat /\ Size[u] \in Nat /\ Header(c.first) \in {3, 4} /\ r.size \in Nat
  BY Constants, ConnFields DEF Header, Requests
<1>6. Later(c, d) /\ p <= Header(c.first) /\ (p > 2 => d.blen = c.blen)
      /\ (p = 2 => d.blen = Size[u] - c.first)
  BY <1>2 DEF Headed
<1>7. r.size = c.first
  BY <1>4, <1>5, <1>6
<1>8. p # Lasts(u, c.first)
  BY <1>4, <1>5, <1>6 DEF Lasts
<1>9. ReadTo(c, d, r, r, u, p)
  <2>1. p >= 2 => d.blen = Size[u] - r.size
    BY <1>4, <1>5, <1>6, <1>7
  <2>2. r.size = c.first + (IF p + 1 > Header(c.first) THEN p - Header(c.first) ELSE 0)
    BY <1>5, <1>6, <1>7
  <2> QED BY <1>6, <2>1, <2>2 DEF ReadTo
<1> QED BY <1>2, <1>3, <1>8, <1>9, StepTo

\* A connection changes, but no request.
LEMMA ConnAdvances ==
    ASSUME NEW x, NEW y, NEW i, NEW d, NEW u, ConnIs(x, y, i, d)
    PROVE  Advances(x, y, i, d, u, x.req[u])
BY DEF ConnIs, Advances, Moved, Quietly, Aloof

\* One unit of the response to u, at position p, is read: after that which tells the
\* range, the range was told.
Reads(x, y, i, u, p) ==
    \E d \in Conns, z \in Requests :
        /\ Advances(x, y, i, d, u, z) /\ Later(x.conn[i], d)
        /\ p = 3 /\ p < Header(x.conn[i].first) => d.ranged

\* A state of http_receive after an assertion failed.
LEMMA FailedGot ==
    ASSUME NEW t, NEW i, NEW q, NEW x \in States, ~x.misplaced, NEW y, Fails(x, y)
    PROVE  y \in Got(t, i, q)
BY DEF Fails, Got

\* What is known of connection i when there is a unit to be read.
LEMMA ReadFacts ==
    ASSUME NEW t \in States, NEW i \in Lives(t), NEW q \in Seq(Units), q # <<>>,
           NEW x \in Got(t, i, q), x.abort = "no", NEW u \in Urls, NEW p \in Nat,
           Midway(x, i, q, u, p)
    PROVE  /\ x \in States /\ ~x.misplaced /\ i \in ConnIds /\ x.conn[i] \in Conns
           /\ x.req[u] \in Requests /\ x.conn[i].act = <<u>>
           /\ x.conn[i].first \in Nat /\ x.conn[i].first < Size[u]
           /\ p \in 1..Lasts(u, x.conn[i].first) /\ q[1] = At(u, x.conn[i].first, p)
           /\ q[1] \in Units
           /\ p > 2 => x.conn[i].blen = Size[u] - x.req[u].size
           /\ x.req[u].first = x.conn[i].first
           /\ x.req[u].size = x.conn[i].first + (IF p > Header(x.conn[i].first)
                                                 THEN p - Header(x.conn[i].first) - 1 ELSE 0)
<1>1. x \in States /\ ~x.misplaced /\ i \in ConnIds
  BY DEF Got, Lives
<1>2. x.conn[i] \in Conns /\ x.req[u] \in Requests
  BY <1>1, Fields
<1>3. x.conn[i].first \in Nat
  BY <1>2, ConnFields
<1>4. q[1] \in Units
  BY InTail
<1> QED BY <1>1, <1>2, <1>3, <1>4 DEF Midway, Reading

\* Of two updates the last one counts.
LEMMA PutAgain ==
    ASSUME NEW x \in States, NEW i \in ConnIds, NEW c \in Conns, NEW d \in Conns
    PROVE  PutConn(PutConn(x, i, c), i, d) = PutConn(x, i, d)
BY Zenon DEF PutConn, States

\* The status line.
LEMMA StatusRead ==
    ASSUME NEW t \in States, NEW i \in Lives(t), NEW q \in Seq(Units), q # <<>>,
           NEW x \in Got(t, i, q), x.abort = "no", NEW u \in Urls, NEW p \in Nat,
           Midway(x, i, q, u, p), q[1].kind = "status"
    PROVE  LET y == HttpUnit(x, i, q[1]) IN y \in Got(t, i, Tail(q)) /\ Reads(x, y, i, u, p)
<1>1. PICK c \in Conns : c = x.conn[i]
  BY ReadFacts
<1>2. p = 1 /\ x \in States /\ i \in ConnIds /\ c.first \in Nat /\ x.req[u] \in Requests
  BY <1>1, ReadFacts, AtIs
<1>3. PICK d : d = [c EXCEPT !.rsp = "HEADERS", !.ranged = FALSE]
  OBVIOUS
<1>4. d \in Conns
  BY <1>3, Zenon DEF Conns, Rsps
<1>5. Later(c, d) /\ d.blen = c.blen
  BY <1>3 DEF Conns, Later
<1>6. HttpUnit(x, i, q[1]) = [x EXCEPT !.conn[i].rsp = "HEADERS", !.conn[i].ranged = FALSE]
  BY DEF HttpUnit
<1>7. PICK e : e = [c EXCEPT !.rsp = "HEADERS"]
  OBVIOUS
<1>8. e \in Conns
  BY <1>7, Zenon DEF Conns, Rsps
<1>9. PICK w : w = PutConn(x, i, e)
  OBVIOUS
<1>10. w.conn[i] = e
  BY <1>2, <1>8, <1>9, ConnPut DEF ConnIs
<1>11. w = [x EXCEPT !.conn[i].rsp = "HEADERS"]
  BY <1>1, <1>7, <1>9, Zenon DEF PutConn
<1>12. [w EXCEPT !.conn[i].ranged = FALSE] = PutConn(w, i, d)
  BY <1>3, <1>7, <1>10, Zenon DEF PutConn
<1>13. HttpUnit(x, i, q[1]) = PutConn(x, i, d)
  <2>1. PutConn(w, i, d) = PutConn(x, i, d)
    BY <1>2, <1>4, <1>8, <1>9, PutAgain
  <2> QED BY <1>6, <1>11, <1>12, <2>1, Zenon
<1>14. Advances(x, PutConn(x, i, d), i, d, u, x.req[u])
  BY <1>2, <1>4, ConnPut, ConnAdvances
<1>15. Headed(x.conn[i], d, u, p)
  <2>1. 1 <= Header(c.first)
    BY <1>2 DEF Header
  <2> QED BY <1>1, <1>2, <1>5, <2>1 DEF Headed
<1>16. Reads(x, PutConn(x, i, d), i, u, p)
  BY <1>1, <1>2, <1>4, <1>5, <1>14 DEF Reads
<1> QED BY <1>2, <1>4, <1>13, <1>14, <1>15, <1>16, HeaderRead

\* Content-Length.
LEMMA LengthRead ==
    ASSUME NEW t \in States, NEW i \in Lives(t), NEW q \in Seq(Units), q # <<>>,
           NEW x \in Got(t, i, q), x.abort = "no", NEW u \in Urls, NEW p \in Nat,
           Midway(x, i, q, u, p), q[1].kind = "length"
    PROVE  LET y == HttpUnit(x, i, q[1]) IN y \in Got(t, i, Tail(q)) /\ Reads(x, y, i, u, p)
<1>1. PICK c \in Conns : c = x.conn[i]
  BY ReadFacts
<1>2. p = 2 /\ x \in States /\ i \in ConnIds /\ c.first \in Nat /\ x.req[u] \in Requests
      /\ q[1].val = Size[u] - c.first /\ q[1] \in Units
  BY <1>1, ReadFacts, AtIs
<1>3. PICK n \in Int : n = q[1].val
  BY <1>2 DEF Units
<1>4. PICK d : d = [c EXCEPT !.blen = n]
  OBVIOUS
<1>5. d \in Conns
  BY <1>4, Zenon DEF Conns
<1>6. Later(c, d) /\ d.blen = n
  BY <1>4 DEF Conns, Later
<1>7. HttpUnit(x, i, q[1]) = [x EXCEPT !.conn[i].blen = n]
  BY <1>3 DEF HttpUnit
<1>8. HttpUnit(x, i, q[1]) = PutConn(x, i, d)
  BY <1>1, <1>4, <1>7, Zenon DEF PutConn
<1>9. Advances(x, PutConn(x, i, d), i, d, u, x.req[u])
  BY <1>2, <1>5, ConnPut, ConnAdvances
<1>10. Headed(x.conn[i], d, u, p)
  <2>1. 2 <= Header(c.first)
    BY <1>2 DEF Header
  <2> QED BY <1>1, <1>2, <1>3, <1>6, <2>1 DEF Headed
<1>11. Reads(x, PutConn(x, i, d), i, u, p)
  BY <1>1, <1>2, <1>5, <1>6, <1>9 DEF Reads
<1> QED BY <1>2, <1>5, <1>8, <1>9, <1>10, <1>11, HeaderRead

\* Content-Range, which is the one asked for.
LEMMA RangeRead ==
    ASSUME NEW t \in States, NEW i \in Lives(t), NEW q \in Seq(Units), q # <<>>,
           NEW x \in Got(t, i, q), x.abort = "no", NEW u \in Urls, NEW p \in Nat,
           Midway(x, i, q, u, p), q[1].kind = "range"
    PROVE  LET y == HttpUnit(x, i, q[1]) IN y \in Got(t, i, Tail(q)) /\ Reads(x, y, i, u, p)
<1>1. PICK c \in Conns : c = x.conn[i]
  BY ReadFacts
<1>2. p = 3 /\ p < Header(c.first) /\ x \in States /\ i \in ConnIds /\ c.first \in Nat
      /\ x.req[u] \in Requests /\ q[1].val = c.first
  BY <1>1, ReadFacts, AtIs
<1>3. PICK d : d = [c EXCEPT !.ranged = TRUE]
  OBVIOUS
<1>4. d \in Conns
  BY <1>3, Zenon DEF Conns
<1>5. Later(c, d) /\ d.blen = c.blen /\ d.ranged
  BY <1>3 DEF Conns, Later
<1>6. HttpUnit(x, i, q[1]) = [x EXCEPT !.conn[i].ranged = TRUE]
  BY <1>1, <1>2 DEF HttpUnit, ContentRange
<1>7. HttpUnit(x, i, q[1]) = PutConn(x, i, d)
  BY <1>1, <1>3, <1>6, Zenon DEF PutConn
<1>8. Advances(x, PutConn(x, i, d), i, d, u, x.req[u])
  BY <1>2, <1>4, ConnPut, ConnAdvances
<1>9. Headed(x.conn[i], d, u, p)
  <2>1. Header(c.first) \in {3, 4}
    BY <1>2 DEF Header
  <2> QED BY <1>1, <1>2, <1>5, <2>1 DEF Headed
<1>10. Reads(x, PutConn(x, i, d), i, u, p)
  BY <1>1, <1>2, <1>4, <1>5, <1>8 DEF Reads
<1> QED BY <1>2, <1>4, <1>7, <1>8, <1>9, <1>10, HeaderRead

\* The end of the header.
LEMMA BlankRead ==
    ASSUME NEW t \in States, NEW i \in Lives(t), NEW q \in Seq(Units), q # <<>>,
           NEW x \in Got(t, i, q), x.abort = "no", NEW u \in Urls, NEW p \in Nat,
           Midway(x, i, q, u, p), q[1].kind = "blank"
    PROVE  LET y == HttpUnit(x, i, q[1])
           IN  /\ y \in Got(t, i, Tail(q))
               /\ x.conn[i].first = 0 \/ x.conn[i].ranged => Reads(x, y, i, u, p)
<1>1. PICK c \in Conns : c = x.conn[i]
  BY ReadFacts
<1>2. p = Header(c.first) /\ x \in States /\ ~x.misplaced /\ i \in ConnIds /\ c.first \in Nat
      /\ x.req[u] \in Requests
  BY <1>1, ReadFacts, AtIs
<1>3. HttpUnit(x, i, q[1]) = HeaderDone(x, i)
  BY DEF HttpUnit
<1>4. CASE ~c.ranged /\ c.first > 0
  <2>1. HeaderDone(x, i) = Abort(x, "content-range")
    BY <1>1, <1>4 DEF HeaderDone
  <2>2. Fails(x, HeaderDone(x, i))
    BY <1>2, <2>1, AbortFails DEF Reasons
  <2> QED BY <1>1, <1>2, <1>3, <1>4, <2>2, FailedGot
<1>5. c.blen > 0
  <2>1. /\ c.first < Size[u] /\ (p > 2 => c.blen = Size[u] - x.req[u].size)
        /\ x.req[u].size = c.first + (IF p > Header(c.first) THEN p - Header(c.first) - 1 ELSE 0)
    BY <1>1, ReadFacts
  <2>2. Size[u] \in Nat /\ Header(c.first) \in {3, 4}
    BY Constants DEF Header
  <2>3. p > 2 /\ x.req[u].size = c.first
    BY <1>2, <2>1, <2>2
  <2> QED BY <1>2, <2>1, <2>2, <2>3
<1>6. CASE ~(~c.ranged /\ c.first > 0)
  <2>1. PICK d : d = [c EXCEPT !.rsp = "BODY"]
    OBVIOUS
  <2>2. d \in Conns
    BY <2>1, Zenon DEF Conns, Rsps
  <2>3. Later(c, d) /\ d.blen = c.blen
    BY <2>1 DEF Conns, Later
  <2>4. PICK w : w = PutConn(x, i, d)
    OBVIOUS
  <2>5. ConnIs(x, w, i, d)
    BY <1>2, <2>2, <2>4, ConnPut
  <2>6. w \in States /\ w.b = x.b /\ w.b \in Browsers
    BY <2>5, Fields DEF ConnIs
  <2>7. PICK z \in BOOLEAN : z = (x.b.html \/ Head(c.act) = Doc)
    BY <2>6, BrowserFields
  <2>8. PICK b : b = [w.b EXCEPT !.html = z]
    OBVIOUS
  <2>9. b \in Browsers
    BY <2>6, <2>8, Zenon DEF Browsers
  <2>10. /\ b.pending = x.b.pending /\ b.state = x.b.state /\ b.embedded = x.b.embedded
         /\ b.received = x.b.received /\ b.notified = x.b.notified /\ b.loadnum = x.b.loadnum
    BY <2>6, <2>8 DEF Browsers
  <2>11. PICK y : y = PutB(w, b)
    OBVIOUS
  <2>12. /\ Notes(w, y) /\ y.b = b /\ y.abort = w.abort /\ y.cbs = w.cbs /\ y.nap = w.nap
         /\ y.timers = w.timers /\ y.timed = w.timed /\ y.persist = w.persist
    BY <2>6, <2>9, <2>11, BrowserPut
  <2>13. HeaderDone(x, i) = [x EXCEPT !.conn[i].rsp = "BODY",
                                      !.b.html = @ \/ Head(c.act) = Doc]
    BY <1>1, <1>5, <1>6, ConnFields DEF HeaderDone
  <2>14. w = [x EXCEPT !.conn[i].rsp = "BODY"]
    BY <1>1, <2>1, <2>4, Zenon DEF PutConn
  <2>15. [x EXCEPT !.conn[i].rsp = "BODY", !.b.html = @ \/ Head(c.act) = Doc]
           = [w EXCEPT !.b.html = z]
    BY <2>6, <2>7, <2>14, Zenon
  <2>16. [w EXCEPT !.b.html = z] = y
    BY <2>8, <2>11, Zenon DEF PutB
  <2>17. HttpUnit(x, i, q[1]) = y
    BY <1>3, <2>13, <2>15, <2>16
  <2>18. Advances(x, y, i, d, u, x.req[u])
    BY <2>5, <2>10, <2>12 DEF ConnIs, Notes, Advances, Moved, Quietly, Aloof
  <2>19. Headed(x.conn[i], d, u, p)
    <3>1. Header(c.first) \in {3, 4}
      BY <1>2 DEF Header
    <3> QED BY <1>1, <1>2, <2>3, <3>1 DEF Headed
  <2>20. Reads(x, y, i, u, p)
    BY <1>1, <1>2, <2>2, <2>3, <2>18 DEF Reads
  <2> QED BY <2>2, <2>17, <2>18, <2>19, <2>20, HeaderRead
<1> QED BY <1>4, <1>6

\* A piece of the body: connection i and request u change, nothing is misplaced.
LEMMA BodyDataIs ==
    ASSUME NEW x \in States, NEW i \in ConnIds, NEW u \in Urls, NEW k \in Units,
           x.conn[i].act = <<u>>, k.val = x.req[u].size, ~x.misplaced
    PROVE  \E d \in Conns, z \in Requests :
              /\ Advances(x, BodyData(x, i, k), i, d, u, z)
              /\ Later(x.conn[i], d) /\ d.blen = x.conn[i].blen - 1
              /\ z.size = x.req[u].size + 1 /\ z.first = x.req[u].first
<1>1. PICK c \in Conns : c = x.conn[i]
  BY Fields
<1>2. PICK r \in Requests : r = x.req[u]
  BY Fields
<1>3. PICK n \in Int : n = c.blen - 1
  BY ConnFields
<1>4. PICK m \in Nat : m = r.size + 1
  BY DEF Requests
<1>5. PICK d : d = [c EXCEPT !.blen = n]
  OBVIOUS
<1>6. d \in Conns
  BY <1>5, Zenon DEF Conns
<1>7. Later(c, d) /\ d.blen = n
  BY <1>5 DEF Conns, Later
<1>8. PICK z : z = [r EXCEPT !.size = m]
  OBVIOUS
<1>9. z \in Requests
  BY <1>8, Zenon DEF Requests
<1>10. z.size = m /\ z.first = r.first
  BY <1>8 DEF Requests
<1>11. PICK w : w = PutConn(x, i, d)
  OBVIOUS
<1>12. ConnIs(x, w, i, d)
  BY <1>6, <1>11, ConnPut
<1>13. PICK v : v = PutReq(w, u, z)
  OBVIOUS
<1>14. ReqIs(w, v, u, z)
  BY <1>9, <1>12, <1>13, ReqPut DEF ConnIs
<1>15. PICK y : y = BodyData(x, i, k)
  OBVIOUS
<1>16. Head(c.act) = u
  BY <1>1, InOne
<1>17. y = [x EXCEPT !.conn[i].blen = @ - 1, !.req[u].size = @ + 1,
                     !.misplaced = @ \/ k.val # x.req[u].size]
  BY <1>1, <1>15, <1>16 DEF BodyData
<1>18. w = [x EXCEPT !.conn[i].blen = @ - 1]
  BY <1>1, <1>3, <1>5, <1>11, Zenon DEF PutConn
<1>19. v = [w EXCEPT !.req[u].size = @ + 1]
  <2>1. w.req[u] = r
    BY <1>2, <1>12 DEF ConnIs
  <2> QED BY <1>4, <1>8, <1>13, <2>1, Zenon DEF PutReq
<1>20. y = [v EXCEPT !.misplaced = @ \/ k.val # x.req[u].size]
  BY <1>17, <1>18, <1>19, Zenon
<1>21. v \in States /\ v.misplaced = FALSE
  BY <1>12, <1>14, Fields DEF ConnIs, ReqIs
<1>22. y = [v EXCEPT !.misplaced = v.misplaced]
  <2>1. (v.misplaced \/ k.val # x.req[u].size) = v.misplaced
    BY <1>21
  <2> QED BY <1>20, <2>1, Zenon
<1>23. y = v
  BY <1>21, <1>22, Zenon DEF States
<1>24. Advances(x, y, i, d, u, z)
  BY <1>12, <1>14, <1>23 DEF ConnIs, ReqIs, Advances, Moved, Quietly, Aloof
<1> QED BY <1>1, <1>2, <1>3, <1>4, <1>6, <1>7, <1>9, <1>10, <1>15, <1>24

\* A piece of the body that is not the last one.
LEMMA PieceRead ==
    ASSUME NEW t \in States, NEW i \in Lives(t), NEW q \in Seq(Units), q # <<>>,
           NEW x \in Got(t, i, q), x.abort = "no", NEW u \in Urls, NEW p \in Nat,
           Midway(x, i, q, u, p), q[1].kind = "body", p # Lasts(u, x.conn[i].first)
    PROVE  LET y == HttpUnit(x, i, q[1]) IN y \in Got(t, i, Tail(q)) /\ Reads(x, y, i, u, p)
<1>1. PICK c \in Conns : c = x.conn[i]
  BY ReadFacts
<1>2. PICK r \in Requests : r = x.req[u]
  BY ReadFacts
<1>3. PICK f \in Nat : f = c.first
  BY ConnFields
<1>4. /\ p > Header(f) /\ x \in States /\ ~x.misplaced /\ i \in ConnIds /\ q[1] \in Units
      /\ q[1].val = f + p - Header(f) - 1 /\ c.act = <<u>> /\ p \in 1..Lasts(u, f)
      /\ r.size = f + p - Header(f) - 1 /\ (p > 2 => c.blen = Size[u] - r.size)
  <2>1. /\ x \in States /\ ~x.misplaced /\ i \in ConnIds /\ q[1] \in Units /\ c.act = <<u>>
        /\ f < Size[u] /\ p \in 1..Lasts(u, f) /\ q[1] = At(u, f, p)
        /\ (p > 2 => c.blen = Size[u] - r.size)
        /\ r.size = f + (IF p > Header(f) THEN p - Header(f) - 1 ELSE 0)
    BY <1>1, <1>2, <1>3, ReadFacts
  <2>2. p > Header(f) /\ q[1].val = f + p - Header(f) - 1
    BY <2>1, AtIs
  <2>3. Header(f) \in {3, 4}
    BY DEF Header
  <2> QED BY <2>1, <2>2, <2>3
<1>5. Header(f) \in {3, 4} /\ Size[u] \in Nat /\ Lasts(u, f) = Header(f) + Size[u] - f
  BY Constants DEF Header, Lasts
<1>6. PICK y : y = BodyData(x, i, q[1])
  OBVIOUS
<1>7. PICK d \in Conns, z \in Requests :
         /\ Advances(x, y, i, d, u, z) /\ Later(c, d) /\ d.blen = c.blen - 1
         /\ z.size = r.size + 1 /\ z.first = r.first
  <2>1. q[1].val = x.req[u].size /\ x.conn[i].act = <<u>>
    BY <1>1, <1>2, <1>4
  <2> QED BY <1>1, <1>2, <1>4, <1>6, <2>1, BodyDataIs
<1>8. d.blen = Size[u] - z.size /\ z.size = f + p - Header(f) /\ d.blen # 0
  <2>1. p # Lasts(u, f) /\ p > 2 /\ p <= Lasts(u, f)
    BY <1>1, <1>3, <1>4, <1>5
  <2>2. z.size = f + p - Header(f)
    BY <1>4, <1>5, <1>7
  <2>3. d.blen = Size[u] - z.size
    BY <1>4, <1>5, <1>7, <2>1, <2>2
  <2> QED BY <1>5, <2>1, <2>2, <2>3
<1>9. ReadTo(c, d, r, z, u, p)
  BY <1>3, <1>4, <1>5, <1>7, <1>8 DEF ReadTo
<1>10. y \in Got(t, i, Tail(q))
  BY <1>1, <1>2, <1>7, <1>9, StepTo
<1>11. y.conn[i] = d
  BY <1>7 DEF Advances, Moved, Quietly, Aloof
<1>12. HttpUnit(x, i, q[1]) = y
  BY <1>6, <1>8, <1>11 DEF HttpUnit
<1>13. Reads(x, y, i, u, p)
  BY <1>1, <1>3, <1>4, <1>5, <1>7 DEF Reads
<1> QED BY <1>6, <1>10, <1>12, <1>13

\* A connection that is between two responses can be told so.
LEMMA ToldKeeps ==
    ASSUME NEW t \in States, NEW P, Good(t, P), NEW i \in Lives(t), Fresh(t.conn[i])
    PROVE  LET r == [t EXCEPT !.conn[i].blen = -1, !.conn[i].rsp = "STATUS_LINE"]
           IN  /\ Good(r, P) /\ Keeps(t, r) /\ r.b = t.b
               /\ \E d \in Conns : ConnIs(t, r, i, d) /\ Seems(t.conn[i], d)
<1>1. Sound(t) /\ Flows(t) /\ Counted(t, P)
  BY DEF Good
<1>2. PICK c \in Conns : c = t.conn[i]
  BY <1>1, LiveConn DEF Sound
<1>3. c.st # "none" /\ i \in ConnIds
  BY <1>1, <1>2, LiveConn DEF Sound
<1>4. PICK d : d = [c EXCEPT !.blen = -1, !.rsp = "STATUS_LINE"]
  OBVIOUS
<1>5. d \in Conns
  <2>1. -1 \in Int /\ "STATUS_LINE" \in Rsps
    BY DEF Rsps
  <2> QED BY <1>4, <2>1, Zenon DEF Conns
<1>6. /\ d.st = c.st /\ d.host = c.host /\ d.sub = c.sub /\ d.act = c.act
      /\ d.first = c.first /\ d.out = c.out /\ d.mev = c.mev /\ d.readcb = c.readcb
      /\ d.writecb = c.writecb /\ d.todo = c.todo /\ d.inp = c.inp /\ Seems(c, d)
  BY <1>4 DEF Conns, Seems
<1>7. Steady(c, t.req, t.proxy) /\ Tidy(c)
  BY <1>1, <1>2 DEF Flows, Sound, Loads
<1>8. Tidy(d) /\ On(d) = On(c) /\ (Fresh(c) => Fresh(d))
  <2>1. Tidy(d)
    BY <1>6, <1>7 DEF Tidy
  <2>2. On(d) = On(c)
    BY <1>6 DEF On
  <2>3. Fresh(c) => Fresh(d)
    BY <1>6 DEF Fresh
  <2> QED BY <2>1, <2>2, <2>3
<1>9. c.readcb = "http" /\ (c.act # <<>> => c.out)
  BY <1>2 DEF Fresh
<1>10. Unsent(c, t.req) /\ c.inp \o c.todo = <<>>
  <2>1. Flow(c, t.req, c.inp \o c.todo)
    BY <1>7, <1>9 DEF Steady
  <2>2. ~(c.act # <<>> /\ \E p \in Nat : Reading(c, t.req[c.act[1]], c.act[1], p, c.inp \o c.todo))
    BY <1>9 DEF Reading
  <2> QED BY <2>1, <2>2 DEF Flow
<1>11. Steady(d, t.req, t.proxy)
  <2>1. Unsent(d, t.req)
    BY <1>6, <1>10 DEF Unsent
  <2>2. d.inp \o d.todo = <<>>
    BY <1>6, <1>10
  <2>3. Flow(d, t.req, d.inp \o d.todo)
    BY <2>1, <2>2 DEF Flow
  <2> QED BY <1>6, <1>7, <1>9, <2>3 DEF Steady
<1>12. PICK r : r = PutConn(t, i, d)
  OBVIOUS
<1>13. ConnIs(t, r, i, d)
  BY <1>3, <1>5, <1>12, ConnPut
<1>14. Good(r, P)
  <2>1. Succeeds(t, P, i, d)
    BY <1>2, <1>3, <1>6, <1>8, <1>11 DEF Succeeds
  <2>2. Good(r, (P \ On(c)) \cup On(d))
    BY <1>2, <1>5, <1>13, <2>1, ReplacedBy
  <2>3. On(c) \subseteq P
    <3>1. On(c) \subseteq Rides(t)
      BY <1>1, <1>2, Exclusive
    <3> QED BY <1>1, <3>1 DEF Counted, Under
  <2>4. (P \ On(c)) \cup On(d) = P
    BY <1>8, <2>3
  <2> QED BY <2>2, <2>4
<1>15. Keeps(t, r) /\ r.b = t.b
  <2>1. Fresh(t.conn[i]) => Fresh(d)
    BY <1>2, <1>8
  <2>2. Keeps(t, r)
    BY <1>3, <1>13, <2>1, KeepsOthers
  <2> QED BY <1>13, <2>2 DEF ConnIs
<1>16. [t EXCEPT !.conn[i].blen = -1, !.conn[i].rsp = "STATUS_LINE"] = r
  <2>1. PICK e : e = [c EXCEPT !.blen = -1]
    OBVIOUS
  <2>2. e \in Conns
    <3>1. -1 \in Int
      OBVIOUS
    <3> QED BY <2>1, <3>1, Zenon DEF Conns
  <2>3. PICK w : w = PutConn(t, i, e)
    OBVIOUS
  <2>4. w.conn[i] = e
    BY <1>3, <2>2, <2>3, ConnPut DEF ConnIs
  <2>5. w = [t EXCEPT !.conn[i].blen = -1]
    BY <1>2, <2>1, <2>3, Zenon DEF PutConn
  <2>6. [w EXCEPT !.conn[i].rsp = "STATUS_LINE"] = PutConn(w, i, d)
    BY <1>4, <2>1, <2>4, Zenon DEF PutConn
  <2>7. PutConn(w, i, d) = PutConn(t, i, d)
    BY <1>3, <1>5, <2>2, <2>3, PutAgain
  <2> QED BY <1>12, <2>5, <2>6, <2>7, Zenon
<1> QED BY <1>2, <1>5, <1>6, <1>13, <1>14, <1>15, <1>16

\* A state in which u has just been received on connection i, and nothing follows.
Ended(y, i) == [y EXCEPT !.conn[i].act = Tail(@)]
Drained(c, e) ==
    /\ e.act = <<>> /\ e.st = c.st /\ e.sub = c.sub /\ e.out = c.out /\ e.mev = c.mev
    /\ e.writecb = c.writecb /\ e.closed = c.closed /\ e.wen = c.wen
Popped(x, o, i, u) ==
    /\ o \in States /\ Good(o, x.b.pending \ {u})
    /\ o.b.pending = x.b.pending /\ o.b.state = x.b.state
    /\ Lives(o) = Lives(x) /\ Fresh(o.conn[i])
    /\ Quietly(x, o) /\ o.srv = x.srv /\ Drained(x.conn[i], o.conn[i])
    /\ \A j \in ConnIds : j # i => o.conn[j] = x.conn[j]

\* The last piece of the body.
LEMMA LastIs ==
    ASSUME NEW t \in States, NEW i \in Lives(t), NEW q \in Seq(Units), q # <<>>,
           NEW x \in Got(t, i, q), x.abort = "no", NEW u \in Urls, NEW p \in Nat,
           Midway(x, i, q, u, p), q[1].kind = "body", p = Lasts(u, x.conn[i].first)
    PROVE  /\ HttpUnit(x, i, q[1]) = BodyDone(BodyData(x, i, q[1]), i)
           /\ Head(BodyData(x, i, q[1]).conn[i].act) = u
           /\ Popped(x, Ended(BodyData(x, i, q[1]), i), i, u)
           /\ Tail(q) = <<>>
<1>1. PICK c \in Conns : c = x.conn[i]
  BY ReadFacts
<1>2. PICK r \in Requests : r = x.req[u]
  BY ReadFacts
<1>3. PICK f \in Nat : f = c.first
  BY ConnFields
<1>4. /\ p > Header(f) /\ x \in States /\ ~x.misplaced /\ i \in ConnIds /\ q[1] \in Units
      /\ q[1].val = f + p - Header(f) - 1 /\ c.act = <<u>> /\ p \in 1..Lasts(u, f)
      /\ r.size = f + p - Header(f) - 1 /\ (p > 2 => c.blen = Size[u] - r.size)
  <2>1. /\ x \in States /\ ~x.misplaced /\ i \in ConnIds /\ q[1] \in Units /\ c.act = <<u>>
        /\ f < Size[u] /\ p \in 1..Lasts(u, f) /\ q[1] = At(u, f, p)
        /\ (p > 2 => c.blen = Size[u] - r.size)
        /\ r.size = f + (IF p > Header(f) THEN p - Header(f) - 1 ELSE 0)
    BY <1>1, <1>2, <1>3, ReadFacts
  <2>2. p > Header(f) /\ q[1].val = f + p - Header(f) - 1
    BY <2>1, AtIs
  <2>3. Header(f) \in {3, 4}
    BY DEF Header
  <2> QED BY <2>1, <2>2, <2>3
<1>5. Header(f) \in {3, 4} /\ Size[u] \in Nat /\ Lasts(u, f) = Header(f) + Size[u] - f
      /\ p = Lasts(u, f)
  BY <1>1, <1>3, Constants DEF Header, Lasts
<1>6. PICK y : y = BodyData(x, i, q[1])
  OBVIOUS
<1>7. PICK d \in Conns, z \in Requests :
         /\ Advances(x, y, i, d, u, z) /\ Later(c, d) /\ d.blen = c.blen - 1
         /\ z.size = r.size + 1 /\ z.first = r.first
  <2>1. q[1].val = x.req[u].size /\ x.conn[i].act = <<u>>
    BY <1>1, <1>2, <1>4
  <2> QED BY <1>1, <1>2, <1>4, <1>6, <2>1, BodyDataIs
<1>8. d.blen = 0
  <2>1. p > 2
    BY <1>4, <1>5
  <2>2. r.size = Size[u] - 1
    BY <1>4, <1>5
  <2>3. c.blen = 1
    <3>1. c.blen = Size[u] - r.size
      BY <1>4, <2>1
    <3> QED BY <1>5, <2>2, <3>1
  <2> QED BY <1>7, <2>3
<1>9. /\ y \in States /\ y.conn[i] = d /\ y.req[u] = z /\ y.srv = x.srv /\ y.cbs = x.cbs
      /\ y.proxy = x.proxy /\ y.abort = x.abort /\ y.lost = x.lost
      /\ y.misplaced = x.misplaced /\ y.b.pending = x.b.pending /\ y.b.state = x.b.state
      /\ (\A j \in ConnIds : j # i => y.conn[j] = x.conn[j])
      /\ (\A w \in Urls : w # u => y.req[w] = x.req[w])
  BY <1>7 DEF Advances, Moved, Quietly, Aloof
<1>10. HttpUnit(x, i, q[1]) = BodyDone(y, i)
  BY <1>6, <1>8, <1>9 DEF HttpUnit
<1>11. /\ d.st = c.st /\ d.host = c.host /\ d.sub = c.sub /\ d.act = c.act
       /\ d.out = c.out /\ d.mev = c.mev /\ d.readcb = c.readcb /\ d.todo = c.todo
       /\ d.inp = c.inp /\ d.writecb = c.writecb /\ d.closed = c.closed /\ d.wen = c.wen
  BY <1>7 DEF Later
<1>12. d.act = <<u>> /\ Head(d.act) = u /\ Tail(d.act) = <<>>
  BY <1>4, <1>11, InOne
<1>13. Head(y.conn[i].act) = u
  BY <1>9, <1>12
<1>14. /\ (c.mev = "CONNECTING" => ~x.proxy) /\ c.writecb # "socks"
       /\ (\A k \in In(c.sub) : Asks(x.req[k], k) /\ k # u)
       /\ Reading(c, x.req[u], u, p, q \o c.todo)
  BY <1>1 DEF Midway
<1>15. ~c.out
  BY <1>14 DEF Reading
<1>16. Tail(q) = <<>> /\ c.todo = <<>>
  <2>1. c.todo \in Seq(Units)
    BY ConnFields
  <2>2. /\ Len(q \o c.todo) = Len(q) + Len(c.todo) /\ Len(q) \in Nat \ {0}
        /\ Len(c.todo) \in Nat
    BY <2>1, ConcatIs
  <2>3. Len(q \o c.todo) <= Lasts(u, c.first) - p + 1
    BY <1>14 DEF Reading
  <2>4. Lasts(u, c.first) - p + 1 = 1
    BY <1>3, <1>5
  <2>5. Len(q) + Len(c.todo) <= 1
    BY <2>2, <2>3, <2>4
  <2>6. Len(q) = 1 /\ Len(c.todo) = 0
    <3>1. PICK m \in Nat \ {0} : m = Len(q)
      BY <2>2
    <3>2. PICK n \in Nat : n = Len(c.todo)
      BY <2>2
    <3>3. m + n <= 1
      BY <2>5, <3>1, <3>2
    <3>4. m = 1 /\ n = 0
      BY <3>3
    <3> QED BY <3>1, <3>2, <3>4
  <2>7. c.todo = <<>>
    BY <2>1, <2>6
  <2>8. PICK k \in Seq(Units) : k = Tail(q)
    BY InTail
  <2>9. Tail(q) = <<>>
    <3>1. Len(k) = Len(q) - 1
      BY <2>8, InTail
    <3>2. Len(k) = 0
      BY <2>6, <3>1
    <3> QED BY <2>8, <3>2
  <2> QED BY <2>7, <2>9
<1>17. i \in Lives(x) /\ c.inp = <<>> /\ c.readcb = "http" /\ Good(Filled(x, i, q), x.b.pending)
  BY <1>1 DEF Got
<1>18. PICK e : e = [d EXCEPT !.act = <<>>]
  OBVIOUS
<1>19. e \in Conns
  BY <1>18, EmptySeq, Zenon DEF Conns
<1>20. /\ e.act = <<>> /\ e.st = c.st /\ e.host = c.host /\ e.sub = c.sub
       /\ e.out = c.out /\ e.mev = c.mev /\ e.readcb = c.readcb /\ e.todo = c.todo
       /\ e.inp = c.inp /\ e.writecb = c.writecb /\ e.closed = c.closed /\ e.wen = c.wen
  BY <1>11, <1>18 DEF Conns
<1>21. PICK o : o = PutConn(y, i, e)
  OBVIOUS
<1>22. o = Ended(y, i)
  BY <1>9, <1>12, <1>18, <1>21, Zenon DEF PutConn, Ended
<1>23. ConnIs(y, o, i, e)
  BY <1>4, <1>9, <1>19, <1>21, ConnPut
<1>24. /\ o \in States /\ o.conn[i] = e /\ o.srv = y.srv /\ o.req = y.req /\ o.proxy = y.proxy
       /\ o.cbs = y.cbs /\ o.abort = y.abort /\ o.lost = y.lost /\ o.misplaced = y.misplaced
       /\ o.b = y.b /\ (\A j \in ConnIds : j # i => o.conn[j] = y.conn[j])
  BY <1>23 DEF ConnIs
<1>25. PICK g \in Conns : g = Fill(c, q)
  BY FillIs
<1>26. PICK v : v = Filled(x, i, q)
  OBVIOUS
<1>27. ConnIs(x, v, i, g)
  BY <1>1, <1>4, <1>25, <1>26, ConnPut DEF Filled
<1>28. /\ v \in States /\ v.conn[i] = g /\ v.srv = x.srv /\ v.req = x.req /\ v.proxy = x.proxy
       /\ v.cbs = x.cbs /\ v.abort = x.abort /\ v.lost = x.lost /\ v.misplaced = x.misplaced
       /\ (\A j \in ConnIds : j # i => v.conn[j] = x.conn[j])
  BY <1>27 DEF ConnIs
<1>29. /\ g.st = c.st /\ g.host = c.host /\ g.sub = c.sub /\ g.act = c.act
       /\ g.mev = c.mev /\ g.readcb = c.readcb
  BY <1>25, FillIs
<1>30. Moved(v, o, i, e, u, z)
  BY <1>9, <1>24, <1>28 DEF Moved
<1>31. Fits(v.conn[i], e, u)
  BY <1>4, <1>17, <1>20, <1>28, <1>29 DEF Fits
<1>32. Steady(e, o.req, o.proxy)
  <2>1. Unsent(e, o.req)
    BY <1>15, <1>20 DEF Unsent
  <2>2. e.inp \o e.todo = <<>>
    BY <1>16, <1>17, <1>20
  <2>3. Flow(e, o.req, e.inp \o e.todo)
    BY <2>1, <2>2 DEF Flow
  <2>4. ASSUME NEW k \in In(e.sub)
        PROVE  Asks(o.req[k], k)
    <3>1. k \in In(c.sub) /\ k \in Urls
      BY <1>20, <2>4, ConnFields, InEmpty
    <3>2. o.req[k] = x.req[k]
      BY <1>9, <1>14, <1>24, <3>1
    <3> QED BY <1>14, <3>1, <3>2
  <2>5. e.readcb = "http" /\ e.writecb # "socks" /\ (e.mev = "CONNECTING" => ~o.proxy)
    BY <1>9, <1>14, <1>17, <1>20, <1>24
  <2> QED BY <2>3, <2>4, <2>5 DEF Steady
<1>33. Lives(v) = Lives(x) /\ Lives(o) = Lives(x)
  BY <1>9, <1>24, <1>28 DEF Lives
<1>34. Good(o, x.b.pending \ {u})
  <2>1. Good(o, IF e.act = <<>> THEN x.b.pending \ {u} ELSE x.b.pending)
    BY <1>17, <1>19, <1>26, <1>28, <1>30, <1>31, <1>32, <1>33, Moves
  <2> QED BY <1>20, <2>1
<1>35. Fresh(o.conn[i])
  BY <1>16, <1>17, <1>20, <1>24 DEF Fresh
<1>36. Quietly(x, o) /\ Drained(x.conn[i], o.conn[i])
  <2>1. Quietly(x, y)
    BY <1>7 DEF Advances
  <2>2. Quietly(x, o)
    BY <1>23, <2>1 DEF ConnIs, Quietly, Aloof
  <2> QED BY <1>1, <1>20, <1>24, <2>2 DEF Drained
<1>37. Popped(x, o, i, u)
  BY <1>9, <1>24, <1>33, <1>34, <1>35, <1>36 DEF Popped
<1> QED BY <1>6, <1>10, <1>13, <1>16, <1>22, <1>37

\* The end of a body, g being the state in which the browser and the connection know.
Told(o, u, i, g) ==
    LET f == ResponseFinished(o, u)
    IN  /\ Settled(o, f) /\ Good(g, g.b.pending)
        /\ \E d \in Conns : ConnIs(f, g, i, d) /\ Seems(f.conn[i], d)

LEMMA DoneRead ==
    ASSUME NEW x \in States, Rested(x), NEW i \in Lives(x), NEW u \in Urls, NEW y,
           Head(y.conn[i].act) = u,
           Popped(x, Ended(y, i), i, u), ConnIds = Nat \ {0}
    PROVE  LET r == BodyDone(y, i)
           IN  /\ r \in States /\ Good(r, r.b.pending) /\ Rested(r) /\ Fresh(r.conn[i])
               /\ \A j \in Lives(x) : j \in Lives(r)
               /\ \E g : /\ Told(Ended(y, i), u, i, g)
                        /\ r = HttpWriteToOutbuf(RequestDone(g, i), i)
<1>1. PICK o : o = Ended(y, i)
  OBVIOUS
<1>2. /\ o \in States /\ Good(o, o.b.pending \ {u}) /\ o.b.state = x.b.state
      /\ o.b.pending = x.b.pending /\ Lives(o) = Lives(x) /\ Fresh(o.conn[i])
  BY <1>1 DEF Popped
<1>3. Rested(o)
  BY <1>2 DEF Rested
<1>4. PICK f : f = ResponseFinished(o, u)
  OBVIOUS
<1>5. Settled(o, f)
  BY <1>2, <1>3, <1>4, FinishedKeeps
<1>6. PICK P : P = f.b.pending
  OBVIOUS
<1>7. Good(f, P) /\ Keeps(o, f) /\ Rested(f) /\ f \in States
  BY <1>5, <1>6 DEF Settled, Good
<1>8. i \in Lives(f) /\ Fresh(f.conn[i])
  BY <1>2, <1>7 DEF Keeps
<1>9. PICK g : g = [f EXCEPT !.conn[i].blen = -1, !.conn[i].rsp = "STATUS_LINE"]
  OBVIOUS
<1>10. /\ Good(g, P) /\ Keeps(f, g) /\ g.b = f.b
       /\ \E d \in Conns : ConnIs(f, g, i, d) /\ Seems(f.conn[i], d)
  BY <1>7, <1>8, <1>9, ToldKeeps, Zenon
<1>11. i \in Lives(g) /\ g \in States
  BY <1>8, <1>10 DEF Keeps
<1>12. PICK h : h = RequestDone(g, i)
  OBVIOUS
<1>13. Good(h, P) /\ Keeps(g, h) /\ h.b = g.b
  BY <1>10, <1>11, <1>12, DoneKeeps
<1>14. i \in Lives(h) /\ h \in States
  BY <1>11, <1>13 DEF Keeps
<1>15. PICK r : r = HttpWriteToOutbuf(h, i)
  OBVIOUS
<1>16. Good(r, P) /\ Keeps(h, r) /\ \E d \in Conns : ConnIs(h, r, i, d) /\ Wrote(h.conn[i], d, h.req)
  BY <1>13, <1>14, <1>15, OutbufKeeps
<1>17. r.b = h.b
  BY <1>16 DEF ConnIs
<1>18. BodyDone(y, i) = r
  BY <1>1, <1>4, <1>9, <1>12, <1>15, Zenon DEF BodyDone, Ended
<1>19. Keeps(o, r)
  BY <1>7, <1>10, <1>13, <1>16, KeepsOn
<1>20. Good(r, r.b.pending) /\ r \in States
  BY <1>6, <1>10, <1>13, <1>16, <1>17 DEF Keeps
<1>21. Rested(r)
  BY <1>7, <1>10, <1>13, <1>17 DEF Rested
<1>22. Fresh(r.conn[i]) /\ \A j \in Lives(x) : j \in Lives(r)
  BY <1>2, <1>19 DEF Keeps
<1>23. Told(o, u, i, g)
  BY <1>4, <1>5, <1>6, <1>10 DEF Told
<1> QED BY <1>1, <1>12, <1>15, <1>18, <1>20, <1>21, <1>22, <1>23

\* With nothing to be read, connection i is what it looks like.
LEMMA FilledNot ==
    ASSUME NEW x \in States, NEW i \in ConnIds, x.conn[i].inp = <<>>
    PROVE  Filled(x, i, <<>>) = x
<1>1. PICK c \in Conns : c = x.conn[i]
  BY Fields
<1>2. Fill(c, c.inp) = c
  BY Zenon DEF Fill, Conns
<1>3. Filled(x, i, <<>>) = PutConn(x, i, x.conn[i])
  BY <1>1, <1>2, Zenon DEF Filled
<1> QED BY <1>1, <1>3, Zenon DEF PutConn, States

\* The last piece of the body.
LEMMA LastRead ==
    ASSUME NEW t \in States, NEW i \in Lives(t), NEW q \in Seq(Units), q # <<>>,
           NEW x \in Got(t, i, q), x.abort = "no", NEW u \in Urls, NEW p \in Nat,
           Midway(x, i, q, u, p), q[1].kind = "body", p = Lasts(u, x.conn[i].first),
           ConnIds = Nat \ {0}
    PROVE  HttpUnit(x, i, q[1]) \in Got(t, i, Tail(q))
<1>1. PICK y : y = BodyData(x, i, q[1])
  OBVIOUS
<1>2. /\ HttpUnit(x, i, q[1]) = BodyDone(y, i) /\ Head(y.conn[i].act) = u
      /\ Popped(x, Ended(y, i), i, u) /\ Tail(q) = <<>>
  BY <1>1, LastIs
<1>3. x \in States /\ Rested(x) /\ i \in Lives(x) /\ \A j \in Lives(t) : j \in Lives(x)
  BY DEF Got
<1>4. PICK r : r = BodyDone(y, i)
  OBVIOUS
<1>5. /\ r \in States /\ Good(r, r.b.pending) /\ Rested(r) /\ Fresh(r.conn[i])
      /\ \A j \in Lives(x) : j \in Lives(r)
  BY <1>2, <1>3, <1>4, DoneRead
<1>6. r.conn[i].inp = <<>> /\ r.conn[i].readcb = "http"
  BY <1>5 DEF Fresh
<1>7. Good(Filled(r, i, <<>>), r.b.pending)
  BY <1>3, <1>5, <1>6, FilledNot DEF Lives
<1>8. ~r.misplaced
  BY <1>5 DEF Good
<1>9. r \in Got(t, i, <<>>)
  BY <1>3, <1>5, <1>6, <1>7, <1>8 DEF Got
<1> QED BY <1>2, <1>4, <1>9

\* One unit.
LEMMA UnitRead ==
    ASSUME NEW t \in States, NEW i \in Lives(t), NEW q \in Seq(Units), q # <<>>,
           NEW x \in Got(t, i, q), ConnIds = Nat \ {0}
    PROVE  HttpUnit(x, i, q[1]) \in Got(t, i, Tail(q))
<1>1. CASE x.abort # "no"
  <2>1. HttpUnit(x, i, q[1]) = x
    BY <1>1 DEF HttpUnit
  <2> QED BY <1>1, <2>1 DEF Got
<1>2. CASE x.abort = "no"
  <2>1. PICK u \in Urls, p \in Nat : Midway(x, i, q, u, p)
    BY <1>2, MidwayIs
  <2>2. q[1].kind \in {"status", "length", "range", "blank", "body"}
    <3>1. /\ x.conn[i].first \in Nat /\ x.conn[i].first < Size[u]
          /\ p \in 1..Lasts(u, x.conn[i].first) /\ q[1] = At(u, x.conn[i].first, p)
      BY <1>2, <2>1, ReadFacts
    <3> QED BY <3>1, AtIs
  <2>3. CASE q[1].kind = "status"
    BY <1>2, <2>1, <2>3, StatusRead
  <2>4. CASE q[1].kind = "length"
    BY <1>2, <2>1, <2>4, LengthRead
  <2>5. CASE q[1].kind = "range"
    BY <1>2, <2>1, <2>5, RangeRead
  <2>6. CASE q[1].kind = "blank"
    BY <1>2, <2>1, <2>6, BlankRead
  <2>7. CASE q[1].kind = "body" /\ p # Lasts(u, x.conn[i].first)
    BY <1>2, <2>1, <2>7, PieceRead
  <2>8. CASE q[1].kind = "body" /\ p = Lasts(u, x.conn[i].first)
    BY <1>2, <2>1, <2>8, LastRead
  <2> QED BY <2>2, <2>3, <2>4, <2>5, <2>6, <2>7, <2>8
<1> QED BY <1>1, <1>2

\* What is left to be read after the first k units.
Left(q, k) == SubSeq(q, k + 1, Len(q))

LEMMA LeftIs ==
    ASSUME NEW q \in Seq(Units)
    PROVE  /\ Left(q, 0) = q /\ Left(q, Len(q)) = <<>>
           /\ \A k \in 1..Len(q) :
                 /\ Left(q, k - 1) \in Seq(Units) /\ Left(q, k - 1) # <<>>
                 /\ Left(q, k - 1)[1] = q[k] /\ Tail(Left(q, k - 1)) = Left(q, k)
<1>1. Len(q) \in Nat
  OBVIOUS
<1>2. Left(q, 0) = q
  <2>1. Left(q, 0) = SubSeq(q, 1, Len(q))
    BY DEF Left
  <2> QED BY <2>1, SubSeqFull
<1>3. Left(q, Len(q)) = <<>>
  <2>1. Len(q) + 1 \in Int /\ Len(q) < Len(q) + 1
    BY <1>1
  <2> QED BY <1>1, <2>1, SubSeqEmpty DEF Left
<1>4. ASSUME NEW k \in 1..Len(q)
      PROVE  /\ Left(q, k - 1) \in Seq(Units) /\ Left(q, k - 1) # <<>>
             /\ Left(q, k - 1)[1] = q[k] /\ Tail(Left(q, k - 1)) = Left(q, k)
  <2>1. PICK m \in 1..Len(q) : m = k
    BY <1>4
  <2>2. Left(q, k - 1) = SubSeq(q, m, Len(q)) /\ Left(q, k) = SubSeq(q, m + 1, Len(q))
    BY <1>1, <1>4, <2>1 DEF Left
  <2>3. Len(q) \in m..Len(q) /\ m \in Int /\ Len(q) \in Int
    BY <1>1, <2>1
  <2>4. \A j \in m..Len(q) : q[j] \in Units
    BY <1>1, <2>1
  <2>5. /\ SubSeq(q, m, Len(q)) \in Seq(Units)
        /\ Len(SubSeq(q, m, Len(q))) = IF m <= Len(q) THEN Len(q) - m + 1 ELSE 0
        /\ \A j \in 1..(Len(q) - m + 1) : SubSeq(q, m, Len(q))[j] = q[m + j - 1]
    BY <2>3, <2>4, SubSeqProperties
  <2>6. PICK r \in Seq(Units) : r = SubSeq(q, m, Len(q))
    BY <2>5
  <2>7. Len(r) = Len(q) - m + 1 /\ Len(r) # 0
    BY <1>1, <2>1, <2>5, <2>6
  <2>8. 1 \in 1..(Len(q) - m + 1)
    BY <1>1, <2>1
  <2>9. r[1] = q[m]
    <3>1. r[1] = q[m + 1 - 1]
      BY <2>5, <2>6, <2>8
    <3>2. m + 1 - 1 = m
      BY <2>1
    <3> QED BY <3>1, <3>2
  <2>10. r # <<>>
    BY <2>7
  <2>11. Tail(r) = SubSeq(q, m + 1, Len(q))
    BY <2>3, <2>6, HeadTailOfSubSeq
  <2> QED BY <2>1, <2>2, <2>6, <2>9, <2>10, <2>11
<1> QED BY <1>2, <1>3, <1>4

\* http_receive starts, and reads one unit after the other: the sets T[k] hold what it
\* has made of t after k of them.
Opened(t, i) == [t EXCEPT !.conn[i].inp = <<>>, !.conn[i].ranged = FALSE]
Shut(x, i) == [x EXCEPT !.conn[i].ranged = FALSE]

LEMMA ReceiveStarts ==
    ASSUME NEW t \in States, Good(t, t.b.pending), Rested(t), NEW i \in Lives(t),
           t.conn[i].readcb = "http"
    PROVE  LET x == Opened(t, i)
           IN  /\ x \in Got(t, i, t.conn[i].inp)
               /\ \E d \in Conns :
                     ConnIs(t, x, i, d) /\ Looks(t.conn[i], Fill(d, t.conn[i].inp))
<1>1. i \in ConnIds
  BY DEF Lives
<1>2. PICK c \in Conns : c = t.conn[i]
  BY <1>1, Fields
<1>3. PICK units \in Seq(Units) : units = c.inp
  BY ConnFields
<1>5. PICK d : d = [c EXCEPT !.inp = <<>>, !.ranged = FALSE]
  OBVIOUS
<1>6. d \in Conns
  BY <1>5, EmptySeq, Zenon DEF Conns
<1>7. PICK start : start = Opened(t, i)
  OBVIOUS
<1>8. start = PutConn(t, i, d)
  <2>1. PICK e : e = [c EXCEPT !.inp = <<>>]
    OBVIOUS
  <2>2. e \in Conns
    BY <2>1, EmptySeq, Zenon DEF Conns
  <2>3. PICK w : w = PutConn(t, i, e)
    OBVIOUS
  <2>4. w.conn[i] = e
    BY <1>1, <2>2, <2>3, ConnPut DEF ConnIs
  <2>5. w = [t EXCEPT !.conn[i].inp = <<>>]
    BY <1>2, <2>1, <2>3, Zenon DEF PutConn
  <2>6. [w EXCEPT !.conn[i].ranged = FALSE] = PutConn(w, i, d)
    BY <1>5, <2>1, <2>4, Zenon DEF PutConn
  <2>7. PutConn(w, i, d) = PutConn(t, i, d)
    BY <1>1, <1>6, <2>2, <2>3, PutAgain
  <2> QED BY <1>7, <2>5, <2>6, <2>7, Zenon DEF Opened
<1>9. ConnIs(t, start, i, d)
  BY <1>1, <1>6, <1>8, ConnPut
<1>10. start \in Got(t, i, units) /\ Looks(c, Fill(d, units))
  <2>1. /\ start \in States /\ start.conn[i] = d /\ start.b = t.b /\ start.srv = t.srv
        /\ start.misplaced = t.misplaced
    BY <1>9 DEF ConnIs
  <2>2. d.inp = <<>> /\ d.readcb = c.readcb
    BY <1>5 DEF Conns
  <2>3. PICK e \in Conns : e = Fill(d, units)
    BY <1>6, FillIs
  <2>5. Looks(t.conn[i], e)
    BY <1>2, <1>3, <1>5, <2>3 DEF Conns, Fill, Looks, Seems
  <2>6. PICK v : v = Filled(start, i, units)
    OBVIOUS
  <2>7. v = PutConn(t, i, e)
    <3>1. v = PutConn(PutConn(t, i, d), i, e)
      BY <1>8, <2>1, <2>3, <2>6 DEF Filled
    <3> QED BY <1>1, <1>6, <2>3, <3>1, PutAgain
  <2>8. ConnIs(t, v, i, e)
    BY <1>1, <2>3, <2>7, ConnPut
  <2>9. Good(v, t.b.pending)
    BY <2>5, <2>8, LooksKeep
  <2>10. ~start.misplaced /\ Rested(start) /\ \A j \in Lives(t) : j \in Lives(start)
    BY <2>1 DEF Good, Rested, Lives
  <2>11. start.conn[i].inp = <<>> /\ start.conn[i].readcb = "http"
    BY <1>2, <2>1, <2>2
  <2>12. Good(Filled(start, i, units), start.b.pending)
    BY <2>1, <2>6, <2>9
  <2>13. start \in Got(t, i, units)
    BY <2>1, <2>10, <2>11, <2>12 DEF Got
  <2> QED BY <1>2, <2>3, <2>5, <2>13
<1> QED BY <1>2, <1>3, <1>6, <1>7, <1>9, <1>10

LEMMA ReceiveIn ==
    ASSUME NEW t, NEW i, NEW units, units = t.conn[i].inp, NEW n \in Nat, n = Len(units),
           NEW T, Opened(t, i) \in T[0],
           \A k \in 1..n : \A x \in T[k - 1] : HttpUnit(x, i, units[k]) \in T[k]
    PROVE  \E x \in T[n] : HttpReceive(t, i) = Shut(x, i)
<1>1. PICK start : start = Opened(t, i)
  OBVIOUS
<1> DEFINE Step(k, x) == HttpUnit(x, i, units[k])
           F == [k \in 1..n |-> [x \in T[k - 1] |-> Step(k, x)]]
           Eq(f) == f = [k \in 0..n |-> IF k = 0 THEN start ELSE Step(k, f[k - 1])]
<1> HIDE DEF Step
<1>2. \A k \in 1..n : \A x \in T[k - 1] : Step(k, x) \in T[k]
  BY DEF Step
<1>3. \E f : Eq(f)
  <2>1. \A k \in 1..n : F[k] \in [T[k - 1] -> T[k]]
    BY <1>2
  <2>2. PICK f : /\ f = [k \in 0..n |-> IF k = 0 THEN start ELSE F[k][f[k - 1]]]
                 /\ \A k \in 0..n : f[k] \in T[k]
    <3> HIDE DEF F
    <3>1. Steps(n, T, F)
      BY <2>1 DEF Steps
    <3>2. PICK f : Folded(f, n, T, F, start)
      BY <1>1, <3>1, Folds
    <3> QED BY <3>2 DEF Folded
  <2>3. \A k \in 0..n : k # 0 => F[k][f[k - 1]] = Step(k, f[k - 1])
    <3> TAKE k \in 0..n
    <3> HAVE k # 0
    <3>1. k \in 1..n /\ k - 1 \in 0..n
      OBVIOUS
    <3> QED BY <2>2, <3>1
  <2> HIDE DEF F
  <2>4. [k \in 0..n |-> IF k = 0 THEN start ELSE F[k][f[k - 1]]]
        = [k \in 0..n |-> IF k = 0 THEN start ELSE Step(k, f[k - 1])]
    BY <2>3
  <2>5. Eq(f)
    BY <2>2, <2>4
  <2> QED BY <2>5
<1>4. PICK g : g = CHOOSE f : Eq(f)
  OBVIOUS
<1>5. Eq(g)
  BY <1>3, <1>4
<1>6. \A k \in 0..n : g[k] \in T[k]
  <2> DEFINE K == {k \in 0..n : g[k] \in T[k]}
  <2>1. 0 \in K
    BY <1>1, <1>5
  <2>2. \A k \in 1..n : k - 1 \in K => k \in K
    <3> TAKE k \in 1..n
    <3> HAVE k - 1 \in K
    <3>1. k \in 0..n /\ k # 0
      OBVIOUS
    <3>2. g[k] = Step(k, g[k - 1])
      BY <1>5, <3>1
    <3> QED BY <1>2, <3>1, <3>2
  <2>3. \A k \in 0..n : k \in K
    <3> HIDE DEF K
    <3> QED BY <2>1, <2>2, Climb
  <2> QED BY <2>3
<1>7. HttpReceive(t, i) = Shut(g[n], i)
  BY <1>1, <1>4 DEF HttpReceive, Step, Opened, Shut
<1>8. g[n] \in T[n]
  BY <1>6
<1> QED BY <1>7, <1>8

\* The end of http_receive.
LEMMA ReceivedAll ==
    ASSUME NEW x \in States, NEW P, Good(x, P), NEW i \in Lives(x)
    PROVE  LET r == Shut(x, i)
           IN  /\ Good(r, P) /\ Lives(r) = Lives(x)
               /\ \E e \in Conns : ConnIs(x, r, i, e) /\ Looks(x.conn[i], e)
<1>1. PICK c \in Conns : c = x.conn[i] /\ i \in ConnIds
  BY Fields DEF Lives
<1>2. PICK e : e = [c EXCEPT !.ranged = FALSE]
  OBVIOUS
<1>3. e \in Conns /\ Looks(c, e)
  <2>1. e \in Conns
    BY <1>2, Zenon DEF Conns
  <2> QED BY <1>2, <2>1 DEF Conns, Looks, Seems
<1>4. PICK r : r = PutConn(x, i, e)
  OBVIOUS
<1>5. ConnIs(x, r, i, e)
  BY <1>1, <1>3, <1>4, ConnPut
<1>6. r = Shut(x, i)
  BY <1>1, <1>2, <1>4, Zenon DEF PutConn, Shut
<1>7. Good(r, P) /\ Lives(r) = Lives(x)
  BY <1>1, <1>3, <1>5, LooksKeep
<1> QED BY <1>1, <1>3, <1>5, <1>6, <1>7

\* http_receive.
LEMMA ReceiveKeeps ==
    ASSUME NEW t \in States, Good(t, t.b.pending), Rested(t), NEW i \in Lives(t),
           t.conn[i].readcb = "http", ConnIds = Nat \ {0}
    PROVE  LET r == HttpReceive(t, i)
           IN  /\ r \in States /\ ~r.misplaced
               /\ r.abort = "no" => /\ Good(r, r.b.pending) /\ Rested(r)
                                    /\ \A j \in Lives(t) : j \in Lives(r)
<1>1. i \in ConnIds
  BY DEF Lives
<1>2. PICK units \in Seq(Units) : units = t.conn[i].inp
  BY <1>1, Fields, ConnFields
<1>3. PICK n \in Nat : n = Len(units)
  OBVIOUS
<1>4. PICK T : T = [k \in 0..n |-> Got(t, i, Left(units, k))]
  OBVIOUS
<1>5. T[0] = Got(t, i, units) /\ T[n] = Got(t, i, <<>>)
  BY <1>3, <1>4, LeftIs
<1>6. \A k \in 1..n : \A x \in T[k - 1] : HttpUnit(x, i, units[k]) \in T[k]
  <2> TAKE k \in 1..n
  <2> TAKE x \in T[k - 1]
  <2>1. k \in 0..n /\ k - 1 \in 0..n
    OBVIOUS
  <2>2. PICK q \in Seq(Units) : q = Left(units, k - 1)
    BY <1>3, LeftIs
  <2>3. q # <<>> /\ q[1] = units[k] /\ Tail(q) = Left(units, k)
    BY <1>3, <2>2, LeftIs
  <2>4. x \in Got(t, i, q)
    BY <1>4, <2>1, <2>2
  <2>5. HttpUnit(x, i, q[1]) \in Got(t, i, Tail(q))
    BY <2>3, <2>4, UnitRead
  <2> QED BY <1>4, <2>1, <2>3, <2>5
<1>7. PICK x \in T[n] : HttpReceive(t, i) = Shut(x, i)
  <2>1. Opened(t, i) \in T[0]
    BY <1>2, <1>5, ReceiveStarts
  <2> QED BY <1>2, <1>3, <1>6, <2>1, ReceiveIn
<1>8. PICK r : r = Shut(x, i)
  OBVIOUS
<1>9. x \in Got(t, i, <<>>) /\ x \in States
  BY <1>5 DEF Got
<1>10. r \in States /\ ~r.misplaced /\ r.abort = x.abort /\ r.b = x.b
  <2>1. PICK c \in Conns : c = x.conn[i]
    BY <1>1, <1>9, Fields
  <2>2. [c EXCEPT !.ranged = FALSE] \in Conns
    BY Zenon DEF Conns
  <2>3. r = PutConn(x, i, [c EXCEPT !.ranged = FALSE])
    BY <1>8, <2>1, Zenon DEF PutConn, Shut
  <2>4. ConnIs(x, r, i, [c EXCEPT !.ranged = FALSE])
    BY <1>1, <1>9, <2>2, <2>3, ConnPut
  <2> QED BY <1>9, <2>4 DEF ConnIs, Got
<1>11. ASSUME r.abort = "no"
       PROVE  Good(r, r.b.pending) /\ Rested(r) /\ \A j \in Lives(t) : j \in Lives(r)
  <2>1. /\ x.conn[i].inp = <<>> /\ Rested(x) /\ Good(Filled(x, i, <<>>), x.b.pending)
        /\ \A j \in Lives(t) : j \in Lives(x)
    BY <1>9, <1>10, <1>11 DEF Got
  <2>2. Good(x, x.b.pending)
    BY <1>1, <1>9, <2>1, FilledNot
  <2>3. Good(r, x.b.pending) /\ Lives(r) = Lives(x)
    BY <1>8, <1>9, <2>1, <2>2, ReceivedAll
  <2> QED BY <1>10, <2>1, <2>3 DEF Rested
<1> QED BY <1>7, <1>8, <1>10, <1>11

-----------------------------------------------------------------------------
(* The events of a connection.                                             *)

\* A connection that no server has changes.
LEMMA DeadKeeps ==
    ASSUME NEW t \in States, NEW P, Good(t, P), NEW i \in ConnIds, i \notin Lives(t),
           t.conn[i].st # "none", NEW d \in Conns, d.st # "none",
           NEW r, ConnIs(t, r, i, d)
    PROVE  Good(r, P) /\ Lives(r) = Lives(t)
<1>a. Sound(t) /\ Flows(t) /\ Counted(t, P) /\ ~t.misplaced
  BY DEF Good
<1>1. /\ r \in States /\ r.conn[i] = d /\ r.srv = t.srv /\ r.req = t.req /\ r.cbs = t.cbs
      /\ r.proxy = t.proxy /\ r.abort = t.abort /\ r.lost = t.lost
      /\ r.misplaced = t.misplaced /\ (\A j \in ConnIds : j # i => r.conn[j] = t.conn[j])
  BY DEF ConnIs
<1>2. Lives(r) = Lives(t) /\ Waits(r) = Waits(t)
  BY <1>1 DEF Lives, Waits
<1>3. \A j \in Lives(t) : r.conn[j] = t.conn[j]
  BY <1>1 DEF Lives
<1>4. Under(r) = Under(t)
  BY <1>2, <1>3 DEF Under, Rides
<1>5. Counted(r, P)
  BY <1>1, <1>4, <1>a DEF Counted
<1>6. Flows(r)
  BY <1>1, <1>2, <1>3, <1>a DEF Flows
<1>7. Listing(r)
  <2>1. ASSUME NEW h \in Hosts, NEW j \in In(r.srv[h].conns)
        PROVE  r.conn[j].st # "none" /\ r.conn[j].host = h
    <3>1. j \in Lives(t)
      BY <1>1, Fields, InEmpty DEF Lives
    <3> QED BY <1>1, <1>3, <1>a, <3>1 DEF Sound, Listing
  <2> QED BY <1>1, <1>a, <2>1 DEF Sound, Listing
<1>8. Doomed(r)
  <2>1. \A j \in ConnIds : r.conn[j].st # "none" <=> t.conn[j].st # "none"
    BY <1>1
  <2> QED BY <1>1, <1>2, <1>a, <2>1 DEF Sound, Doomed
<1>9. Blank(r) /\ Finite(r)
  BY <1>1, <1>a DEF Sound, Blank, Finite
<1>10. Queues(r)
  BY <1>1, <1>a DEF Sound, Queues
<1>11. Loads(r) /\ Apart(r)
  BY <1>1, <1>2, <1>3, <1>a DEF Sound, Loads, Apart
<1> QED BY <1>1, <1>2, <1>5, <1>6, <1>7, <1>8, <1>9, <1>10, <1>11, <1>a DEF Good, Sound

\* release_conn does not look at the connection but for its server.
LEMMA ReleaseOther ==
    ASSUME NEW t \in States, NEW i \in ConnIds, NEW d \in Conns, d.host = t.conn[i].host
    PROVE  ReleaseConn(PutConn(t, i, d), i) = PutConn(ReleaseConn(t, i), i, d)
<1>1. PICK v : v = PutConn(t, i, d)
  OBVIOUS
<1>2. v \in States /\ v.conn[i] = d /\ v.srv = t.srv /\ v.cbs = t.cbs /\ v.abort = t.abort
  BY <1>1, ConnPut DEF ConnIs
<1>3. PICK h : h = t.conn[i].host
  OBVIOUS
<1>4. PICK conns : conns = t.srv[h].conns
  OBVIOUS
<1>5. PICK kept : kept = RemoveFirst(conns, i)
  OBVIOUS
<1>6. PICK reqs : reqs = ToSet(t.srv[h].reqs)
  OBVIOUS
<1>7. PICK cbs : cbs = t.cbs \o [k \in 1..Len(<<i>>) |-> <<i>>[k]]
  OBVIOUS
<1>8. PICK m : m = [t EXCEPT !.cbs = cbs]
  OBVIOUS
<1>9. m = DeleteLater(t, <<i>>)
  BY <1>7, <1>8, Zenon DEF DeleteLater
<1>10. PICK n : n = [v EXCEPT !.cbs = cbs]
  OBVIOUS
<1>11. n = DeleteLater(v, <<i>>)
  BY <1>2, <1>7, <1>10, Zenon DEF DeleteLater
<1>12. PutConn(m, i, d) = n
  BY <1>1, <1>8, <1>10, Zenon DEF PutConn, States
<1>13. CASE ~Contains(conns, i)
  <2>1. ReleaseConn(t, i) = Abort(m, "not-listed")
    BY <1>3, <1>4, <1>9, <1>13, Zenon DEF ReleaseConn
  <2>2. ReleaseConn(v, i) = Abort(n, "not-listed")
    BY <1>2, <1>3, <1>4, <1>11, <1>13, Zenon DEF ReleaseConn
  <2>3. m.abort = t.abort /\ n.abort = t.abort
    BY <1>2, <1>8, <1>10 DEF States
  <2>4. PutConn(Abort(m, "not-listed"), i, d) = Abort(n, "not-listed")
    <3>1. CASE t.abort = "no"
      <4>1. Abort(m, "not-listed") = [m EXCEPT !.abort = "not-listed"]
        BY <2>3, <3>1 DEF Abort
      <4>2. Abort(n, "not-listed") = [n EXCEPT !.abort = "not-listed"]
        BY <2>3, <3>1 DEF Abort
      <4>3. PutConn([m EXCEPT !.abort = "not-listed"], i, d) = [n EXCEPT !.abort = "not-listed"]
        BY <1>1, <1>8, <1>10, Zenon DEF PutConn, States
      <4> QED BY <4>1, <4>2, <4>3
    <3>2. CASE t.abort # "no"
      BY <1>12, <2>3, <3>2 DEF Abort
    <3> QED BY <3>1, <3>2
  <2> QED BY <1>1, <2>1, <2>2, <2>4
<1>14. CASE Contains(conns, i) /\ kept # <<>>
  <2>1. ReleaseConn(t, i) = [m EXCEPT !.srv[h].conns = kept]
    BY <1>3, <1>4, <1>5, <1>9, <1>14, Zenon DEF ReleaseConn, EntryGoes
  <2>2. ReleaseConn(v, i) = [n EXCEPT !.srv[h].conns = kept]
    BY <1>2, <1>3, <1>4, <1>5, <1>11, <1>14, Zenon DEF ReleaseConn, EntryGoes
  <2>3. PutConn([m EXCEPT !.srv[h].conns = kept], i, d) = [n EXCEPT !.srv[h].conns = kept]
    BY <1>1, <1>8, <1>10, Zenon DEF PutConn, States
  <2> QED BY <1>1, <2>1, <2>2, <2>3
<1>15. CASE Contains(conns, i) /\ kept = <<>>
  <2>1. ReleaseConn(t, i) = [m EXCEPT !.srv[h] = NoServer, !.lost = @ \cup reqs]
    BY <1>3, <1>4, <1>5, <1>6, <1>9, <1>15, Zenon DEF ReleaseConn, EntryGoes
  <2>2. ReleaseConn(v, i) = [n EXCEPT !.srv[h] = NoServer, !.lost = @ \cup reqs]
    BY <1>2, <1>3, <1>4, <1>5, <1>6, <1>11, <1>15, Zenon DEF ReleaseConn, EntryGoes
  <2>3. PutConn([m EXCEPT !.srv[h] = NoServer, !.lost = @ \cup reqs], i, d)
          = [n EXCEPT !.srv[h] = NoServer, !.lost = @ \cup reqs]
    BY <1>1, <1>8, <1>10, Zenon DEF PutConn, States
  <2> QED BY <1>1, <2>1, <2>2, <2>3
<1> QED BY <1>13, <1>14, <1>15

\* A state that an event of connection i may lead to.
Survives(t, r, i) ==
    r \in States /\ ~r.misplaced /\ (r.abort = "no" => SettledBut(t, r, i))

LEMMA SettledSurvives ==
    ASSUME NEW t, NEW i, NEW r, SettledBut(t, r, i)
    PROVE  Survives(t, r, i)
BY DEF Survives, SettledBut, Good

LEMMA FailedSurvives ==
    ASSUME NEW t, NEW i, NEW x \in States, ~x.misplaced, NEW r, Fails(x, r)
    PROVE  Survives(t, r, i)
BY DEF Survives, Fails

\* One event after another.
LEMMA SurvivesOn ==
    ASSUME NEW t, NEW i, NEW x, NEW r, \A j \in Lives(t) : j # i => j \in Lives(x),
           Survives(x, r, i)
    PROVE  Survives(t, r, i)
BY DEF Survives, SettledBut

\* on_read with no request under way.
LEMMA IdleReadKeeps ==
    ASSUME NEW t \in States, Good(t, t.b.pending), Rested(t), NEW i \in Lives(t),
           t.conn[i].act = <<>>
    PROVE  Survives(t, Unusable([t EXCEPT !.conn[i].readcb = "NULL"], i), i)
<1>1. i \in ConnIds
  BY DEF Lives
<1>2. PICK c \in Conns : c = t.conn[i]
  BY <1>1, Fields
<1>3. PICK d : d = [c EXCEPT !.readcb = "NULL"]
  OBVIOUS
<1>4. d \in Conns
  BY <1>3, Zenon DEF Conns, CbNames
<1>5. d.sub = c.sub /\ d.act = c.act /\ d.st = c.st /\ d.host = c.host
  BY <1>3 DEF Conns
<1>6. PICK v : v = PutConn(t, i, d)
  OBVIOUS
<1>7. [t EXCEPT !.conn[i].readcb = "NULL"] = v
  BY <1>2, <1>3, <1>6, Zenon DEF PutConn
<1>8. PICK m : m = ReleaseConn(t, i)
  OBVIOUS
<1>9. PICK P : P = t.b.pending
  OBVIOUS
<1>10. Good(m, P \ On(c)) /\ Without(t, m, i)
  BY <1>2, <1>8, <1>9, ReleaseKeeps
<1>11. /\ m \in States /\ Lives(m) = Lives(t) \ {i} /\ m.b = t.b /\ m.abort = t.abort
       /\ m.conn = t.conn
  BY <1>10 DEF Without
<1>12. PICK n : n = ReleaseConn(v, i)
  OBVIOUS
<1>13. n = PutConn(m, i, d)
  BY <1>1, <1>2, <1>4, <1>5, <1>6, <1>8, <1>12, ReleaseOther
<1>14. ConnIs(m, n, i, d)
  BY <1>1, <1>4, <1>11, <1>13, ConnPut
<1>15. c.st # "none"
  BY <1>2, LiveConn DEF Good, Sound
<1>16. Good(n, P \ On(c)) /\ Lives(n) = Lives(m)
  <2>1. i \notin Lives(m) /\ m.conn[i].st # "none" /\ d.st # "none"
    BY <1>2, <1>5, <1>11, <1>15
  <2> QED BY <1>1, <1>4, <1>10, <1>11, <1>14, <2>1, DeadKeeps
<1>17. n \in States /\ ~n.misplaced /\ n.b = t.b
  BY <1>11, <1>14, <1>16 DEF ConnIs, Good
<1>18. v.conn[i] = d
  BY <1>1, <1>4, <1>6, ConnPut DEF ConnIs
<1>19. PICK r : r = Unusable(v, i)
  OBVIOUS
<1>20. r = IF c.sub # <<>> THEN Abort(n, "pending") ELSE RetryRequests(n, <<>>)
  BY <1>2, <1>5, <1>12, <1>18, <1>19, Zenon DEF Unusable
<1>21. CASE c.sub # <<>>
  <2>1. Fails(n, r)
    BY <1>17, <1>20, <1>21, AbortFails DEF Reasons
  <2> QED BY <1>7, <1>17, <1>19, <2>1, FailedSurvives
<1>22. CASE c.sub = <<>>
  <2>1. r = n
    BY <1>20, <1>22, RetriesAre
  <2>2. On(c) = {}
    BY <1>2, <1>22, InEmpty DEF On
  <2>3. Good(n, P)
    <3>1. P \ On(c) = P
      BY <2>2
    <3> QED BY <1>16, <3>1
  <2>4. SettledBut(t, r, i)
    BY <1>9, <1>11, <1>16, <1>17, <2>1, <2>3 DEF SettledBut, Rested
  <2> QED BY <1>7, <1>19, <2>4, SettledSurvives
<1> QED BY <1>21, <1>22

\* on_read.
LEMMA ReadKeeps ==
    ASSUME NEW t \in States, Good(t, t.b.pending), Rested(t), NEW i \in Lives(t),
           t.conn[i].readcb = "http", ConnIds = Nat \ {0}
    PROVE  Survives(t, OnRead(t, i), i)
<1>1. PICK r : r = HttpReceive(t, i)
  OBVIOUS
<1>2. /\ r \in States /\ ~r.misplaced
      /\ r.abort = "no" => /\ Good(r, r.b.pending) /\ Rested(r)
                           /\ \A j \in Lives(t) : j \in Lives(r)
  BY <1>1, ReceiveKeeps
<1>3. CASE t.conn[i].act = <<>>
  <2>1. OnRead(t, i) = Unusable([t EXCEPT !.conn[i].readcb = "NULL"], i)
    BY <1>3 DEF OnRead
  <2> QED BY <1>3, <2>1, IdleReadKeeps
<1>4. CASE t.conn[i].act # <<>> /\ r.abort = "no" /\ t.conn[i].closed
  <2>1. OnRead(t, i) = Unusable(r, i)
    BY <1>1, <1>4 DEF OnRead
  <2>2. SettledBut(r, Unusable(r, i), i)
    BY <1>2, <1>4, UnusableKeeps
  <2>3. Survives(r, Unusable(r, i), i)
    BY <2>2, SettledSurvives
  <2> QED BY <1>2, <1>4, <2>1, <2>3, SurvivesOn
<1>5. CASE t.conn[i].act # <<>> /\ ~(r.abort = "no" /\ t.conn[i].closed)
  <2>1. OnRead(t, i) = r
    BY <1>1, <1>5 DEF OnRead
  <2> QED BY <1>2, <2>1 DEF Survives, SettledBut
<1> QED BY <1>3, <1>4, <1>5

\* A connection that has the same to do.
SameLoad(c, d) == d.st # "none" /\ d.host = c.host /\ d.sub = c.sub /\ d.act = c.act

LEMMA SameLoadKeeps ==
    ASSUME NEW t \in States, NEW P, Good(t, P), NEW i \in Lives(t), NEW d \in Conns,
           SameLoad(t.conn[i], d), Steady(d, t.req, t.proxy), NEW r, ConnIs(t, r, i, d)
    PROVE  Good(r, P) /\ Lives(r) = Lives(t) /\ r.b = t.b /\ r.abort = t.abort
<1>1. Sound(t) /\ Counted(t, P)
  BY DEF Good
<1>2. PICK c \in Conns : c = t.conn[i]
  BY <1>1, LiveConn DEF Sound
<1>3. d.st # "none" /\ d.host = c.host /\ d.sub = c.sub /\ d.act = c.act
  BY <1>2 DEF SameLoad
<1>4. Tidy(c)
  BY <1>1, <1>2 DEF Sound, Loads
<1>5. Tidy(d)
  BY <1>3, <1>4 DEF Tidy
<1>6. On(d) = On(c)
  BY <1>3 DEF On
<1>7. Succeeds(t, P, i, d)
  BY <1>2, <1>3, <1>5, <1>6 DEF Succeeds
<1>8. Good(r, (P \ On(c)) \cup On(d)) /\ Lives(r) = Lives(t)
  BY <1>2, <1>7, ReplacedBy
<1>9. On(c) \subseteq P
  <2>1. On(c) \subseteq Rides(t)
    BY <1>1, <1>2, Exclusive
  <2> QED BY <1>1, <2>1 DEF Counted, Under
<1>10. (P \ On(c)) \cup On(d) = P
  BY <1>6, <1>9
<1> QED BY <1>8, <1>10 DEF ConnIs

\* A state that a write event may lead to.
Stays(t, r) ==
    r \in States /\ ~r.misplaced
    /\ (r.abort = "no" => Good(r, r.b.pending) /\ Rested(r) /\ Lives(r) = Lives(t))

LEMMA SameLoadStays ==
    ASSUME NEW t \in States, Good(t, t.b.pending), Rested(t), NEW i \in Lives(t),
           NEW d \in Conns, SameLoad(t.conn[i], d), Steady(d, t.req, t.proxy),
           NEW r, ConnIs(t, r, i, d)
    PROVE  Stays(t, r)
<1>1. Good(r, t.b.pending) /\ Lives(r) = Lives(t) /\ r.b = t.b
  BY SameLoadKeeps
<1> QED BY <1>1 DEF Stays, Good, Rested

LEMMA FailedStays ==
    ASSUME NEW t, NEW x \in States, ~x.misplaced, NEW r, Fails(x, r)
    PROVE  Stays(t, r)
BY DEF Stays, Fails

LEMMA StaysSurvives ==
    ASSUME NEW t, NEW i, NEW r, Stays(t, r)
    PROVE  Survives(t, r, i)
BY DEF Stays, Survives, SettledBut

\* A sequence of one unit.
LEMMA OneUnit ==
    ASSUME NEW kind \in Kinds
    PROVE  LET q == <<Unit(kind, 0)>>
           IN  q \in Seq(Units) /\ Len(q) = 1 /\ q # <<>> /\ q[1].kind = kind
<1>1. PICK x \in Units : x = Unit(kind, 0) /\ x.kind = kind
  BY UnitIs
<1> QED BY <1>1, InOne

\* What the handshake does to a connection: a message is sent, the greeting is
\* answered, the request is granted.
Shakes(c, d) ==
    Shaking(c) /\ d.sub = c.sub /\ d.act = c.act /\ d.out = c.out /\ d.closed = c.closed
Messaged(c, d) ==
    /\ Shakes(c, d) /\ d.st = c.st /\ d.inp = c.inp /\ d.wen = c.wen /\ d.mev # "CONNECTING"
    /\ d.readcb = "socks" /\ d.writecb = "NULL"
    /\ d.todo # <<>> /\ d.todo[1].kind \in {"greet", "grant"}
Answered(c, d) ==
    /\ Shakes(c, d) /\ d.st = c.st /\ d.inp = <<>> /\ d.wen = c.wen /\ d.mev # "CONNECTING"
    /\ d.readcb = "NULL" /\ d.writecb = "socks" /\ d.todo = <<>>
Granted(c, d) ==
    /\ Shakes(c, d) /\ d.st = "CONNECTED" /\ d.inp = <<>> /\ d.wen /\ d.mev # "CONNECTING"
    /\ d.readcb = "http" /\ d.writecb = "http" /\ d.todo = <<>>

\* The proxy is connected.
LEMMA SocksConnectedKeeps ==
    ASSUME NEW t \in States, Good(t, t.b.pending), Rested(t), NEW i \in Lives(t),
           t.conn[i].mev = "CONNECTING", t.proxy
    PROVE  LET r == OnSocksConnected([t EXCEPT !.conn[i].mev = "CONNECTED"], i)
           IN  /\ Stays(t, r)
               /\ \E d \in Conns : ConnIs(t, r, i, d) /\ Messaged(t.conn[i], d)
<1>1. i \in ConnIds
  BY DEF Lives
<1>2. PICK c \in Conns : c = t.conn[i]
  BY <1>1, Fields
<1>3. c.st # "none" /\ Steady(c, t.req, t.proxy)
  BY <1>2, LiveConn DEF Good, Sound, Flows
<1>4. Shaking(c) /\ Unsent(c, t.req) /\ \A u \in In(c.sub) : Asks(t.req[u], u)
  BY <1>2, <1>3 DEF Steady
<1>5. c.readcb = "NULL" /\ c.inp = <<>> /\ c.st = "CONNECTING"
  BY <1>2, <1>4 DEF Shaking
<1>6. PICK q \in Seq(Units) : q = <<Unit("greet", 0)>> /\ Len(q) = 1 /\ q[1].kind = "greet"
  BY OneUnit DEF Kinds
<1>7. PICK e : e = [c EXCEPT !.mev = "CONNECTED"]
  OBVIOUS
<1>8. e \in Conns
  BY <1>7, Zenon DEF Conns, Mevs
<1>9. PICK d : d = [e EXCEPT !.socks = "SOCKS5_GREETING", !.readcb = "socks",
                             !.writecb = "NULL", !.todo = q]
  OBVIOUS
<1>10. d \in Conns
  BY <1>8, <1>9, Zenon DEF Conns, SocksStates, CbNames
<1>11. /\ d.st = c.st /\ d.host = c.host /\ d.sub = c.sub /\ d.act = c.act
       /\ d.first = c.first /\ d.out = c.out /\ d.inp = c.inp /\ d.todo = q
       /\ d.readcb = "socks" /\ d.writecb = "NULL" /\ d.mev = "CONNECTED"
       /\ d.closed = c.closed /\ d.wen = c.wen
  BY <1>7, <1>9 DEF Conns
<1>12. PICK v : v = PutConn(t, i, e)
  OBVIOUS
<1>13. v = [t EXCEPT !.conn[i].mev = "CONNECTED"] /\ v.conn[i] = e
  <2>1. v = [t EXCEPT !.conn[i].mev = "CONNECTED"]
    BY <1>2, <1>7, <1>12, Zenon DEF PutConn
  <2>2. v.conn[i] = e
    BY <1>1, <1>8, <1>12, ConnPut DEF ConnIs
  <2> QED BY <2>1, <2>2
<1>14. OnSocksConnected(v, i) = PutConn(v, i, d)
  BY <1>6, <1>9, <1>13, Zenon DEF OnSocksConnected, PutConn
<1>15. PutConn(v, i, d) = PutConn(t, i, d)
  BY <1>1, <1>8, <1>10, <1>12, PutAgain
<1>16. PICK r : r = PutConn(t, i, d)
  OBVIOUS
<1>17. ConnIs(t, r, i, d)
  BY <1>1, <1>10, <1>16, ConnPut
<1>18. Shaking(d)
  <2>1. Len(d.inp) + Len(d.todo) <= 1
    BY <1>5, <1>6, <1>11
  <2>2. \A k \in 1..Len(d.inp) : d.inp[k].kind \in {"greet", "grant", "refuse"}
    BY <1>5, <1>11
  <2>3. \A k \in 1..Len(d.todo) : d.todo[k].kind \in {"greet", "grant", "refuse"}
    BY <1>6, <1>11
  <2> QED BY <1>5, <1>11, <2>1, <2>2, <2>3 DEF Shaking
<1>19. Unsent(d, t.req)
  BY <1>4, <1>11 DEF Unsent
<1>20. Steady(d, t.req, t.proxy)
  BY <1>4, <1>11, <1>18, <1>19 DEF Steady
<1>21. SameLoad(t.conn[i], d)
  BY <1>2, <1>3, <1>11 DEF SameLoad
<1>22. Stays(t, r)
  BY <1>10, <1>17, <1>20, <1>21, SameLoadStays
<1>23. Messaged(c, d)
  <2>1. d.todo # <<>> /\ d.todo[1].kind = "greet"
    BY <1>6, <1>11
  <2> QED BY <1>4, <1>11, <2>1 DEF Messaged, Shakes
<1> QED BY <1>2, <1>10, <1>13, <1>14, <1>15, <1>16, <1>17, <1>22, <1>23

\* on_socks5_proxy_writable.
LEMMA SocksWritableKeeps ==
    ASSUME NEW t \in States, Good(t, t.b.pending), Rested(t), NEW i \in Lives(t),
           t.conn[i].mev # "CONNECTING", t.conn[i].writecb = "socks"
    PROVE  LET r == OnSocksWritable(t, i)
           IN  /\ Stays(t, r)
               /\ r = t \/ \E d \in Conns : ConnIs(t, r, i, d) /\ Messaged(t.conn[i], d)
<1>1. i \in ConnIds
  BY DEF Lives
<1>2. PICK c \in Conns : c = t.conn[i]
  BY <1>1, Fields
<1>3. c.st # "none" /\ Steady(c, t.req, t.proxy)
  BY <1>2, LiveConn DEF Good, Sound, Flows
<1>4. /\ Shaking(c) /\ Unsent(c, t.req) /\ t.proxy
      /\ \A u \in In(c.sub) : Asks(t.req[u], u)
  BY <1>2, <1>3 DEF Steady
<1>5. c.readcb = "NULL" /\ c.inp = <<>> /\ c.st = "CONNECTING" /\ c.mev # "CONNECTING"
  BY <1>2, <1>4 DEF Shaking
<1>6. PICK q \in Seq(Units) : q = <<Unit("grant", 0)>> /\ Len(q) = 1 /\ q[1].kind = "grant"
  BY OneUnit DEF Kinds
<1>7. PICK d : d = [c EXCEPT !.socks = "SOCKS5_READ_RESP_NEXT", !.readcb = "socks",
                             !.writecb = "NULL", !.todo = q]
  OBVIOUS
<1>8. d \in Conns
  BY <1>7, Zenon DEF Conns, SocksStates, CbNames
<1>9. /\ d.st = c.st /\ d.host = c.host /\ d.sub = c.sub /\ d.act = c.act
      /\ d.first = c.first /\ d.out = c.out /\ d.inp = c.inp /\ d.todo = q
      /\ d.readcb = "socks" /\ d.writecb = "NULL" /\ d.mev = c.mev
      /\ d.closed = c.closed /\ d.wen = c.wen
  BY <1>7 DEF Conns
<1>10. PICK r : r = PutConn(t, i, d)
  OBVIOUS
<1>11. ConnIs(t, r, i, d)
  BY <1>1, <1>8, <1>10, ConnPut
<1>12. Shaking(d)
  <2>1. Len(d.inp) + Len(d.todo) <= 1
    BY <1>5, <1>6, <1>9
  <2>2. \A k \in 1..Len(d.inp) : d.inp[k].kind \in {"greet", "grant", "refuse"}
    BY <1>5, <1>9
  <2>3. \A k \in 1..Len(d.todo) : d.todo[k].kind \in {"greet", "grant", "refuse"}
    BY <1>6, <1>9
  <2> QED BY <1>5, <1>9, <2>1, <2>2, <2>3 DEF Shaking
<1>13. Unsent(d, t.req)
  BY <1>4, <1>9 DEF Unsent
<1>14. Steady(d, t.req, t.proxy)
  BY <1>4, <1>9, <1>12, <1>13 DEF Steady
<1>15. SameLoad(t.conn[i], d)
  BY <1>2, <1>3, <1>9 DEF SameLoad
<1>16. Stays(t, r)
  BY <1>8, <1>11, <1>14, <1>15, SameLoadStays
<1>17. CASE c.socks # "SOCKS5_WRITE_REQUEST_NEXT"
  <2>1. OnSocksWritable(t, i) = t
    BY <1>2, <1>17 DEF OnSocksWritable
  <2> QED BY <2>1 DEF Stays, Good
<1>18. CASE c.socks = "SOCKS5_WRITE_REQUEST_NEXT"
  <2>1. OnSocksWritable(t, i) = r
    BY <1>2, <1>6, <1>7, <1>10, <1>18, Zenon DEF OnSocksWritable, PutConn
  <2>2. d.todo # <<>> /\ d.todo[1].kind = "grant"
    BY <1>6, <1>9
  <2>3. Messaged(c, d)
    BY <1>4, <1>5, <1>9, <2>2 DEF Messaged, Shakes
  <2> QED BY <1>2, <1>8, <1>11, <1>16, <2>1, <2>3
<1> QED BY <1>17, <1>18

\* The proxy has answered: what it sent was all there is.
LEMMA AnswerIs ==
    ASSUME NEW c \in Conns, Shaking(c), c.inp # <<>>
    PROVE  Tail(c.inp) = <<>> /\ c.todo = <<>>
<1>1. c.inp \in Seq(Units) /\ c.todo \in Seq(Units)
  BY ConnFields
<1>2. PICK p \in Seq(Units) : p = c.inp
  BY <1>1
<1>3. PICK o \in Seq(Units) : o = c.todo
  BY <1>1
<1>4. Len(p) + Len(o) <= 1 /\ p # <<>>
  BY <1>2, <1>3 DEF Shaking
<1>5. Len(p) \in Nat /\ Len(o) \in Nat /\ Len(p) # 0
  BY <1>4
<1>6. Len(p) = 1 /\ Len(o) = 0
  <2>1. PICK m \in Nat, n \in Nat : m = Len(p) /\ n = Len(o)
    BY <1>5
  <2>2. m + n <= 1 /\ m # 0
    BY <1>4, <1>5, <2>1
  <2>3. m = 1 /\ n = 0
    BY <2>2
  <2> QED BY <2>1, <2>3
<1>7. PICK q \in Seq(Units) : q = Tail(p)
  BY <1>4, InTail
<1>8. Len(q) = Len(p) - 1
  BY <1>4, <1>7, InTail
<1>9. Len(q) = 0
  BY <1>6, <1>8
<1>10. q = <<>> /\ o = <<>>
  BY <1>6, <1>9
<1> QED BY <1>2, <1>3, <1>7, <1>10

\* The greeting is answered.
LEMMA SocksGreetedKeeps ==
    ASSUME NEW t \in States, Good(t, t.b.pending), Rested(t), NEW i \in Lives(t),
           t.conn[i].readcb = "socks", t.conn[i].inp # <<>>
    PROVE  LET r == OnSocksGreeted(t, i)
           IN  /\ Stays(t, r)
               /\ \E d \in Conns : ConnIs(t, r, i, d) /\ Answered(t.conn[i], d)
<1>1. i \in ConnIds
  BY DEF Lives
<1>2. PICK c \in Conns : c = t.conn[i]
  BY <1>1, Fields
<1>3. c.st # "none" /\ Steady(c, t.req, t.proxy)
  BY <1>2, LiveConn DEF Good, Sound, Flows
<1>4. /\ Shaking(c) /\ Unsent(c, t.req) /\ t.proxy
      /\ \A u \in In(c.sub) : Asks(t.req[u], u)
  BY <1>2, <1>3 DEF Steady
<1>5. Tail(c.inp) = <<>> /\ c.todo = <<>>
  BY <1>2, <1>4, AnswerIs
<1>6. c.st = "CONNECTING" /\ c.mev # "CONNECTING"
  BY <1>2, <1>4 DEF Shaking
<1>7. PICK d : d = [c EXCEPT !.socks = "SOCKS5_WRITE_REQUEST_NEXT", !.inp = Tail(c.inp),
                             !.writecb = "socks", !.readcb = "NULL"]
  OBVIOUS
<1>8. d \in Conns
  BY <1>5, <1>7, EmptySeq, Zenon DEF Conns, SocksStates, CbNames
<1>9. /\ d.st = c.st /\ d.host = c.host /\ d.sub = c.sub /\ d.act = c.act
      /\ d.first = c.first /\ d.out = c.out /\ d.inp = <<>> /\ d.todo = c.todo
      /\ d.readcb = "NULL" /\ d.writecb = "socks" /\ d.mev = c.mev
      /\ d.closed = c.closed /\ d.wen = c.wen
  BY <1>5, <1>7 DEF Conns
<1>10. PICK r : r = PutConn(t, i, d)
  OBVIOUS
<1>11. ConnIs(t, r, i, d)
  BY <1>1, <1>8, <1>10, ConnPut
<1>12. Shaking(d)
  BY <1>5, <1>6, <1>9 DEF Shaking
<1>13. Unsent(d, t.req)
  BY <1>4, <1>9 DEF Unsent
<1>14. Steady(d, t.req, t.proxy)
  BY <1>4, <1>9, <1>12, <1>13 DEF Steady
<1>15. SameLoad(t.conn[i], d)
  BY <1>2, <1>3, <1>9 DEF SameLoad
<1>16. Stays(t, r)
  BY <1>8, <1>11, <1>14, <1>15, SameLoadStays
<1>17. OnSocksGreeted(t, i) = r
  BY <1>2, <1>7, <1>10, Zenon DEF OnSocksGreeted, PutConn
<1>18. Answered(c, d)
  BY <1>4, <1>5, <1>6, <1>9 DEF Answered, Shakes
<1> QED BY <1>2, <1>8, <1>11, <1>16, <1>17, <1>18

\* The request is granted.
LEMMA SocksGrantedKeeps ==
    ASSUME NEW t \in States, Good(t, t.b.pending), Rested(t), NEW i \in Lives(t),
           t.conn[i].readcb = "socks", t.conn[i].inp # <<>>
    PROVE  LET r == OnSocksGranted(t, i)
           IN  /\ Stays(t, r)
               /\ ~t.conn[i].wen => \E d \in Conns : ConnIs(t, r, i, d) /\ Granted(t.conn[i], d)
<1>1. i \in ConnIds
  BY DEF Lives
<1>2. PICK c \in Conns : c = t.conn[i]
  BY <1>1, Fields
<1>3. c.st # "none" /\ Steady(c, t.req, t.proxy)
  BY <1>2, LiveConn DEF Good, Sound, Flows
<1>4. /\ Shaking(c) /\ Unsent(c, t.req) /\ t.proxy
      /\ \A u \in In(c.sub) : Asks(t.req[u], u)
  BY <1>2, <1>3 DEF Steady
<1>5. Tail(c.inp) = <<>> /\ c.todo = <<>>
  BY <1>2, <1>4, AnswerIs
<1>6. c.st = "CONNECTING" /\ c.mev # "CONNECTING"
  BY <1>2, <1>4 DEF Shaking
<1>7. CASE c.wen
  <2>1. OnSocksGranted(t, i) = Abort(t, "write-enabled")
    BY <1>2, <1>7 DEF OnSocksGranted
  <2>2. Fails(t, OnSocksGranted(t, i))
    BY <2>1, AbortFails DEF Reasons
  <2> QED BY <1>2, <1>7, <2>2, FailedStays DEF Good
<1>8. CASE ~c.wen
  <2>1. PICK e : e = [c EXCEPT !.st = "CONNECTED", !.socks = "SOCKS5_NONE", !.inp = Tail(c.inp),
                               !.readcb = "http", !.writecb = "NULL"]
    OBVIOUS
  <2>2. e \in Conns
    BY <1>5, <2>1, EmptySeq, Zenon DEF Conns, SocksStates, CbNames, Sts
  <2>3. /\ e.st = "CONNECTED" /\ e.host = c.host /\ e.sub = c.sub /\ e.act = c.act
        /\ e.first = c.first /\ e.out = c.out /\ e.inp = <<>> /\ e.todo = c.todo
        /\ e.readcb = "http" /\ e.writecb = "NULL" /\ e.mev = c.mev
        /\ e.closed = c.closed /\ ~e.wen
    BY <1>5, <1>8, <2>1 DEF Conns
  <2>4. PICK d : d = EnableWrite(e)
    OBVIOUS
  <2>5. /\ d \in Conns /\ d.st = e.st /\ d.host = e.host /\ d.readcb = e.readcb
        /\ d.mev = e.mev /\ d.inp = e.inp /\ d.todo = e.todo
        /\ d.sub = e.sub /\ d.act = e.act /\ d.out = e.out /\ d.first = e.first
        /\ (d.writecb = e.writecb \/ d.writecb = "http")
    BY <2>2, <2>4, EnableWriteIs
  <2>6. PICK r : r = PutConn(t, i, d)
    OBVIOUS
  <2>7. ConnIs(t, r, i, d)
    BY <1>1, <2>5, <2>6, ConnPut
  <2>8. Unsent(d, t.req) /\ d.inp \o d.todo = <<>>
    BY <1>4, <1>5, <2>3, <2>5 DEF Unsent
  <2>9. Steady(d, t.req, t.proxy)
    BY <1>4, <1>6, <2>3, <2>5, <2>8 DEF Steady, Flow
  <2>10. SameLoad(t.conn[i], d)
    BY <1>2, <2>3, <2>5 DEF SameLoad
  <2>11. Stays(t, r)
    BY <2>5, <2>7, <2>9, <2>10, SameLoadStays
  <2>12. OnSocksGranted(t, i) = r
    BY <1>2, <1>8, <2>1, <2>4, <2>6, Zenon DEF OnSocksGranted, PutConn
  <2>13. d.wen /\ d.writecb = "http" /\ d.closed = e.closed
    BY <2>2, <2>3, <2>4 DEF EnableWrite, Conns
  <2>14. Granted(c, d)
    BY <1>4, <1>5, <1>6, <2>3, <2>5, <2>13 DEF Granted, Shakes
  <2> QED BY <1>2, <2>5, <2>7, <2>11, <2>12, <2>14
<1> QED BY <1>7, <1>8

\* on_socks5_proxy_readable.
LEMMA SocksReadableKeeps ==
    ASSUME NEW t \in States, Good(t, t.b.pending), Rested(t), NEW i \in Lives(t),
           t.conn[i].readcb = "socks", ConnIds = Nat \ {0}
    PROVE  Survives(t, OnSocksReadable(t, i), i)
<1>1. i \in ConnIds
  BY DEF Lives
<1>2. PICK c \in Conns : c = t.conn[i]
  BY <1>1, Fields
<1>3. PICK q \in Seq(Units) : q = c.inp
  BY ConnFields
<1>4. CASE q = <<>>
  <2>1. OnSocksReadable(t, i) = Abort(t, "proxy-closed")
    BY <1>2, <1>3, <1>4 DEF OnSocksReadable
  <2>2. Fails(t, OnSocksReadable(t, i))
    BY <2>1, AbortFails DEF Reasons
  <2> QED BY <2>2, FailedSurvives DEF Good
<1>5. CASE q # <<>>
  <2>1. Head(q).kind \in {"greet", "grant", "refuse"}
    <3>1. Steady(c, t.req, t.proxy)
      BY <1>2 DEF Good, Flows
    <3>2. \A k \in 1..Len(q) : q[k].kind \in {"greet", "grant", "refuse"}
      BY <1>2, <1>3, <3>1 DEF Steady, Shaking
    <3>3. Head(q) = q[1] /\ 1 \in 1..Len(q)
      BY <1>5, InTail
    <3> QED BY <3>2, <3>3
  <2>2. CASE Head(q).kind = "greet"
    <3>1. OnSocksReadable(t, i) = OnSocksGreeted(t, i)
      BY <1>2, <1>3, <1>5, <2>2 DEF OnSocksReadable
    <3> QED BY <1>2, <1>3, <1>5, <3>1, SocksGreetedKeeps, StaysSurvives
  <2>3. CASE Head(q).kind = "grant"
    <3>1. OnSocksReadable(t, i) = OnSocksGranted(t, i)
      BY <1>2, <1>3, <1>5, <2>3 DEF OnSocksReadable
    <3> QED BY <1>2, <1>3, <1>5, <3>1, SocksGrantedKeeps, StaysSurvives
  <2>4. CASE Head(q).kind = "refuse"
    <3>1. OnSocksReadable(t, i) = Unusable(t, i)
      BY <1>2, <1>3, <1>5, <2>4 DEF OnSocksReadable
    <3> QED BY <3>1, UnusableKeeps, SettledSurvives
  <2> QED BY <2>1, <2>2, <2>3, <2>4
<1> QED BY <1>4, <1>5

\* EPOLLIN.
LEMMA InKeeps ==
    ASSUME NEW t \in States, Good(t, t.b.pending), Rested(t), NEW i \in Lives(t),
           ConnIds = Nat \ {0}
    PROVE  Survives(t, OnIn(t, i), i)
<1>1. CASE t.conn[i].readcb = "http"
  <2>1. OnIn(t, i) = OnRead(t, i)
    BY <1>1 DEF OnIn
  <2> QED BY <1>1, <2>1, ReadKeeps
<1>2. CASE t.conn[i].readcb = "socks"
  <2>1. OnIn(t, i) = OnSocksReadable(t, i)
    BY <1>2 DEF OnIn
  <2> QED BY <1>2, <2>1, SocksReadableKeeps
<1>3. CASE t.conn[i].readcb # "http" /\ t.conn[i].readcb # "socks"
  <2>1. OnIn(t, i) = t
    BY <1>3 DEF OnIn
  <2> QED BY <2>1 DEF Survives, SettledBut, Good
<1> QED BY <1>1, <1>2, <1>3

LEMMA DisableWriteIs ==
    ASSUME NEW c \in Conns
    PROVE  LET d == DisableWrite(c)
           IN  /\ d \in Conns /\ d.st = c.st /\ d.host = c.host /\ d.readcb = c.readcb
               /\ d.mev = c.mev /\ d.inp = c.inp /\ d.todo = c.todo
               /\ d.sub = c.sub /\ d.act = c.act /\ d.out = c.out /\ d.first = c.first
               /\ d.blen = c.blen /\ (d.writecb = c.writecb \/ d.writecb = "NULL")
<1>1. DisableWrite(c) \in Conns
  BY Zenon DEF DisableWrite, Conns, CbNames
<1> QED BY <1>1 DEF DisableWrite, Conns

\* Nothing after nothing.
LEMMA ConcatEmpty ==
    ASSUME NEW S, NEW p \in Seq(S), NEW q \in Seq(S), p \o q = <<>>
    PROVE  p = <<>> /\ q = <<>>
<1>1. Len(p) + Len(q) = 0
  BY ConcatIs
<1>2. PICK m \in Nat, n \in Nat : m = Len(p) /\ n = Len(q)
  OBVIOUS
<1>3. m = 0 /\ n = 0
  BY <1>1, <1>2
<1> QED BY <1>2, <1>3

\* A connection whose request has just been sent.
Sends(c, e) ==
    /\ e.st = c.st /\ e.host = c.host /\ e.sub = c.sub /\ e.act = c.act /\ e.first = c.first
    /\ e.mev = c.mev /\ e.writecb = c.writecb /\ e.inp = c.inp
    /\ e.wen = c.wen /\ e.closed = c.closed /\ ~e.out /\ e.readcb = "http"
    /\ e.todo = IF c.closed THEN <<>> ELSE c.todo \o Response(Head(c.act), c.first)

LEMMA SendsSteady ==
    ASSUME NEW c \in Conns, NEW e \in Conns, Sends(c, e), c.out, c.readcb = "http",
           NEW req, \A u \in Urls : req[u] \in Requests, NEW proxy, Steady(c, req, proxy)
    PROVE  Steady(e, req, proxy)
<1>1. /\ c.writecb # "socks" /\ (c.mev = "CONNECTING" => ~proxy)
      /\ Flow(c, req, c.inp \o c.todo) /\ \A u \in In(c.sub) : Asks(req[u], u)
  BY DEF Steady
<1>2. Unsent(c, req) /\ c.inp \o c.todo = <<>>
  BY <1>1 DEF Flow, Reading
<1>3. c.inp = <<>> /\ c.todo = <<>>
  BY <1>2, ConnFields, ConcatEmpty
<1>4. c.act # <<>>
  BY <1>2 DEF Unsent
<1>5. PICK u \in Urls : u = c.act[1] /\ u = Head(c.act)
  BY <1>4, ConnFields, InTail
<1>6. PICK f \in Nat : f = c.first
  BY ConnFields
<1>7. req[u].first = req[u].size /\ req[u].size < Size[u] /\ f = req[u].size
  BY <1>2, <1>4, <1>5, <1>6 DEF Unsent, Asks
<1>8. /\ Response(u, f) \in Seq(Units) /\ Len(Response(u, f)) = Lasts(u, f)
  BY <1>7, ResponseIs
<1>9. PICK q \in Seq(Units) : q = Response(u, f)
  BY <1>8
<1>10. c.todo \o q = q /\ <<>> \o q = q
  BY <1>3
<1>11. e.todo = <<>> \/ e.todo = q
  BY <1>5, <1>6, <1>9, <1>10 DEF Sends
<1>12. e.inp \o e.todo = <<>> \/ e.inp \o e.todo = q
  BY <1>3, <1>10, <1>11 DEF Sends
<1>13. PICK w : w = e.inp \o e.todo
  OBVIOUS
<1>14. Lasts(u, f) \in Nat /\ 1 <= Lasts(u, f) /\ Header(f) \in {3, 4}
  BY <1>7, Constants DEF Lasts, Header
<1>15. Reading(e, req[u], u, 1, w)
  <2>1. ~e.out /\ e.first = f /\ f < Size[u] /\ req[u].first = f
    BY <1>6, <1>7 DEF Sends
  <2>2. 1 \in 1..Lasts(u, f)
    BY <1>14
  <2>3. Len(w) <= Lasts(u, f) - 1 + 1
    <3>1. Len(w) = 0 \/ Len(w) = Lasts(u, f)
      BY <1>8, <1>9, <1>12, <1>13
    <3> QED BY <1>14, <3>1
  <2>4. ASSUME NEW j \in 1..Len(w)
        PROVE  w[j] = Response(u, f)[1 + j - 1]
    <3>1. w # <<>>
      BY <2>4
    <3>2. w = q
      BY <1>12, <1>13, <3>1
    <3>3. 1 + j - 1 = j
      BY <2>4
    <3> QED BY <1>9, <3>2, <3>3
  <2>5. req[u].size = f + (IF 1 > Header(f) THEN 1 - Header(f) - 1 ELSE 0)
    BY <1>7, <1>14
  <2> QED BY <2>1, <2>2, <2>3, <2>4, <2>5 DEF Reading
<1>16. e.act # <<>> /\ e.act[1] = u
  BY <1>4, <1>5 DEF Sends
<1>17. Flow(e, req, e.inp \o e.todo)
  BY <1>13, <1>15, <1>16 DEF Flow
<1>18. e.readcb = "http" /\ e.writecb # "socks" /\ (e.mev = "CONNECTING" => ~proxy)
       /\ \A v \in In(e.sub) : Asks(req[v], v)
  BY <1>1 DEF Sends
<1> QED BY <1>17, <1>18 DEF Steady

\* What send_ does to a connection.
Sent(c, e, req) ==
    \/ ~c.out /\ e = DisableWrite(c)
    \/ c.out /\ c.inp = <<>> /\ c.todo = <<>> /\ Unsent(c, req) /\ Sends(c, e)

\* send_.
LEMMA SendKeeps ==
    ASSUME NEW t \in States, Good(t, t.b.pending), Rested(t), NEW i \in Lives(t),
           t.conn[i].readcb = "http"
    PROVE  LET r == Send(t, i)
               x == HttpWriteToOutbuf(t, i)
           IN  /\ Stays(t, r)
               /\ \E e \in Conns : ConnIs(x, r, i, e) /\ Sent(x.conn[i], e, x.req)
<1>1. i \in ConnIds
  BY DEF Lives
<1>2. PICK x : x = HttpWriteToOutbuf(t, i)
  OBVIOUS
<1>3. Good(x, t.b.pending) /\ \E d \in Conns : ConnIs(t, x, i, d) /\ Wrote(t.conn[i], d, t.req)
  BY <1>2, OutbufKeeps
<1>4. PICK c \in Conns : ConnIs(t, x, i, c) /\ Wrote(t.conn[i], c, t.req)
  BY <1>3
<1>5. /\ x \in States /\ x.conn[i] = c /\ x.b = t.b /\ Lives(x) = Lives(t)
      /\ c.readcb = "http"
  BY <1>4 DEF ConnIs, Wrote, Lives
<1>6. Good(x, x.b.pending) /\ Rested(x) /\ i \in Lives(x)
  BY <1>3, <1>5 DEF Rested
<1>7. c.st # "none" /\ Steady(c, x.req, x.proxy)
  BY <1>5, <1>6, LiveConn DEF Good, Sound, Flows
<1>8. PICK r : r = Send(t, i)
  OBVIOUS
<1>9. CASE ~c.out
  <2>1. PICK e : e = DisableWrite(c)
    OBVIOUS
  <2>2. r = PutConn(x, i, e)
    BY <1>2, <1>5, <1>8, <1>9, <2>1, Zenon DEF Send, PutConn
  <2>3. /\ e \in Conns /\ e.st = c.st /\ e.host = c.host /\ e.readcb = c.readcb
        /\ e.mev = c.mev /\ e.inp = c.inp /\ e.todo = c.todo
        /\ e.sub = c.sub /\ e.act = c.act /\ e.out = c.out /\ e.first = c.first
        /\ e.blen = c.blen /\ (e.writecb = c.writecb \/ e.writecb = "NULL")
    BY <2>1, DisableWriteIs
  <2>4. ConnIs(x, r, i, e)
    BY <1>1, <1>5, <2>2, <2>3, ConnPut
  <2>5. Steady(e, x.req, x.proxy)
    <3>1. /\ c.writecb # "socks" /\ (c.mev = "CONNECTING" => ~x.proxy)
          /\ Flow(c, x.req, c.inp \o c.todo) /\ \A u \in In(c.sub) : Asks(x.req[u], u)
      BY <1>5, <1>7 DEF Steady
    <3>2. Flow(e, x.req, c.inp \o c.todo)
      BY <2>3, <3>1 DEF Flow, Unsent, Reading
    <3> QED BY <1>5, <2>3, <3>1, <3>2 DEF Steady
  <2>6. SameLoad(x.conn[i], e)
    BY <1>5, <1>7, <2>3 DEF SameLoad
  <2>7. Stays(x, r)
    BY <1>5, <1>6, <2>3, <2>4, <2>5, <2>6, SameLoadStays
  <2> QED BY <1>2, <1>5, <1>8, <1>9, <2>1, <2>3, <2>4, <2>7 DEF Stays, Sent
<1>10. CASE c.out
  <2>1. c.act # <<>> /\ Unsent(c, x.req) /\ c.inp \o c.todo = <<>>
    <3>1. Flow(c, x.req, c.inp \o c.todo)
      BY <1>5, <1>7 DEF Steady
    <3>2. Unsent(c, x.req) /\ c.inp \o c.todo = <<>>
      BY <1>10, <3>1 DEF Flow, Reading
    <3> QED BY <1>10, <3>2 DEF Unsent
  <2>2. PICK q \in Seq(Units) :
           q = IF c.closed THEN <<>> ELSE c.todo \o Response(Head(c.act), c.first)
    <3>1. CASE c.closed
      BY <3>1, EmptySeq
    <3>2. CASE ~c.closed
      <4>1. PICK u \in Urls : u = c.act[1] /\ u = Head(c.act)
        BY <2>1, ConnFields, InTail
      <4>2. c.first < Size[u]
        BY <2>1, <4>1 DEF Unsent, Asks
      <4>3. Response(u, c.first) \in Seq(Units)
        BY <4>2, ConnFields, ResponseIs
      <4>4. c.todo \o Response(u, c.first) \in Seq(Units)
        BY <4>3, ConnFields, ConcatIs
      <4> QED BY <3>2, <4>1, <4>4
    <3> QED BY <3>1, <3>2
  <2>3. PICK e : e = [c EXCEPT !.out = FALSE, !.readcb = "http", !.todo = q]
    OBVIOUS
  <2>4. e \in Conns
    BY <2>3, Zenon DEF Conns, CbNames
  <2>5. Sends(c, e)
    <3>1. /\ e.st = c.st /\ e.host = c.host /\ e.sub = c.sub /\ e.act = c.act
          /\ e.first = c.first /\ e.mev = c.mev /\ e.writecb = c.writecb /\ e.inp = c.inp
          /\ ~e.out /\ e.readcb = "http" /\ e.todo = q /\ e.closed = c.closed /\ e.wen = c.wen
      BY <2>3 DEF Conns
    <3> QED BY <2>2, <3>1 DEF Sends
  <2>6. r = PutConn(x, i, e)
    <3>1. PICK w : w = [c EXCEPT !.out = FALSE, !.readcb = "http"]
      OBVIOUS
    <3>2. w.todo = c.todo
      BY <3>1 DEF Conns
    <3>3. [c EXCEPT !.out = FALSE, !.readcb = "http",
                    !.todo = IF c.closed THEN <<>>
                             ELSE @ \o Response(Head(c.act), c.first)] = e
      BY <2>2, <2>3, <3>1, <3>2, Zenon
    <3> QED BY <1>2, <1>5, <1>8, <1>10, <3>3, Zenon DEF Send, PutConn
  <2>7. ConnIs(x, r, i, e)
    BY <1>1, <1>5, <2>4, <2>6, ConnPut
  <2>8. \A u \in Urls : x.req[u] \in Requests
    BY <1>5, Fields
  <2>9. Steady(e, x.req, x.proxy)
    BY <1>5, <1>7, <1>10, <2>4, <2>5, <2>8, SendsSteady
  <2>10. SameLoad(x.conn[i], e)
    BY <1>5, <1>7, <2>5 DEF SameLoad, Sends
  <2>11. Stays(x, r)
    BY <1>5, <1>6, <2>4, <2>7, <2>9, <2>10, SameLoadStays
  <2>12. c.inp = <<>> /\ c.todo = <<>>
    BY <2>1, ConnFields, ConcatEmpty
  <2>13. Stays(t, r)
    BY <1>5, <2>11 DEF Stays
  <2>14. Sent(c, e, x.req)
    BY <1>10, <2>1, <2>5, <2>12 DEF Sent
  <2> QED BY <1>2, <1>5, <1>8, <2>4, <2>7, <2>13, <2>14
<1>11. c.out \in BOOLEAN
  BY ConnFields
<1> QED BY <1>9, <1>10, <1>11

\* The server is connected.
Connected(c, d) ==
    /\ d.st = "CONNECTED" /\ d.mev = "CONNECTED" /\ d.sub = c.sub /\ d.act = c.act
    /\ d.out = c.out /\ d.inp = c.inp /\ d.todo = c.todo /\ d.closed = c.closed
    /\ d.readcb = c.readcb /\ d.writecb = c.writecb /\ d.wen = c.wen

LEMMA ConnectKeeps ==
    ASSUME NEW t \in States, Good(t, t.b.pending), Rested(t), NEW i \in Lives(t),
           t.conn[i].mev = "CONNECTING", ~t.proxy
    PROVE  LET r == OnConnect([t EXCEPT !.conn[i].mev = "CONNECTED"], i)
           IN  /\ Stays(t, r)
               /\ t.conn[i].st = "CONNECTING" => \E d \in Conns : \E w \in States :
                     /\ ConnIs(t, w, i, d) /\ Connected(t.conn[i], d) /\ r = Send(w, i)
                     /\ Good(w, w.b.pending) /\ Rested(w) /\ d.readcb = "http"
<1>1. i \in ConnIds
  BY DEF Lives
<1>2. PICK c \in Conns : c = t.conn[i]
  BY <1>1, Fields
<1>3. c.st # "none" /\ Steady(c, t.req, t.proxy)
  BY <1>2, LiveConn DEF Good, Sound, Flows
<1>4. PICK e : e = [c EXCEPT !.mev = "CONNECTED"]
  OBVIOUS
<1>5. e \in Conns /\ e.st = c.st
  <2>1. e \in Conns
    BY <1>4, Zenon DEF Conns, Mevs
  <2> QED BY <1>4, <2>1 DEF Conns
<1>6. PICK v : v = PutConn(t, i, e)
  OBVIOUS
<1>7. ConnIs(t, v, i, e)
  BY <1>1, <1>5, <1>6, ConnPut
<1>8. [t EXCEPT !.conn[i].mev = "CONNECTED"] = v
  BY <1>2, <1>4, <1>6, Zenon DEF PutConn
<1>9. v \in States /\ v.conn[i] = e /\ ~v.misplaced
  BY <1>7 DEF ConnIs, Good
<1>10. CASE e.st # "CONNECTING"
  <2>1. OnConnect(v, i) = Abort(v, "connect")
    BY <1>9, <1>10 DEF OnConnect
  <2>2. Fails(v, OnConnect(v, i))
    BY <1>9, <2>1, AbortFails DEF Reasons
  <2> QED BY <1>2, <1>5, <1>8, <1>9, <1>10, <2>2, FailedStays
<1>11. CASE e.st = "CONNECTING"
  <2>1. PICK d : d = [e EXCEPT !.st = "CONNECTED"]
    OBVIOUS
  <2>2. d \in Conns
    BY <1>5, <2>1, Zenon DEF Conns, Sts
  <2>3. /\ d.st = "CONNECTED" /\ d.host = c.host /\ d.sub = c.sub /\ d.act = c.act
        /\ d.first = c.first /\ d.out = c.out /\ d.inp = c.inp /\ d.todo = c.todo
        /\ d.readcb = c.readcb /\ d.writecb = c.writecb /\ d.mev = "CONNECTED"
        /\ d.blen = c.blen /\ d.closed = c.closed /\ d.wen = c.wen
    BY <1>4, <2>1 DEF Conns
  <2>4. PICK w : w = PutConn(t, i, d)
    OBVIOUS
  <2>5. [v EXCEPT !.conn[i].st = "CONNECTED"] = w
    <3>1. [v EXCEPT !.conn[i].st = "CONNECTED"] = PutConn(v, i, d)
      BY <1>9, <2>1, Zenon DEF PutConn
    <3>2. PutConn(v, i, d) = w
      BY <1>1, <1>5, <1>6, <2>2, <2>4, PutAgain
    <3> QED BY <3>1, <3>2
  <2>6. OnConnect(v, i) = Send(w, i)
    BY <1>9, <1>11, <2>5 DEF OnConnect
  <2>7. ConnIs(t, w, i, d)
    BY <1>1, <2>2, <2>4, ConnPut
  <2>8. Steady(d, t.req, t.proxy) /\ d.readcb = "http"
    <3>1. /\ c.readcb = "http" /\ c.writecb # "socks"
          /\ Flow(c, t.req, c.inp \o c.todo) /\ \A u \in In(c.sub) : Asks(t.req[u], u)
      BY <1>3 DEF Steady
    <3>2. Flow(d, t.req, c.inp \o c.todo)
      BY <2>3, <3>1 DEF Flow, Unsent, Reading
    <3> QED BY <2>3, <3>1, <3>2 DEF Steady
  <2>9. SameLoad(t.conn[i], d)
    BY <1>2, <2>3 DEF SameLoad
  <2>10. Good(w, t.b.pending) /\ Lives(w) = Lives(t) /\ w.b = t.b
    BY <2>2, <2>7, <2>8, <2>9, SameLoadKeeps
  <2>11. w \in States /\ w.conn[i] = d
    BY <2>7 DEF ConnIs
  <2>12. Good(w, w.b.pending) /\ Rested(w) /\ i \in Lives(w) /\ w.conn[i].readcb = "http"
    BY <2>8, <2>10, <2>11 DEF Rested
  <2>13. Stays(w, Send(w, i))
    BY <2>11, <2>12, SendKeeps
  <2>14. Stays(t, Send(w, i))
    BY <2>10, <2>13 DEF Stays
  <2>15. Connected(c, d)
    BY <2>3 DEF Connected
  <2> QED BY <1>2, <1>8, <2>2, <2>6, <2>7, <2>8, <2>11, <2>12, <2>14, <2>15
<1> QED BY <1>10, <1>11

\* EPOLLOUT.
LEMMA OutKeeps ==
    ASSUME NEW t \in States, Good(t, t.b.pending), Rested(t), NEW i \in Lives(t)
    PROVE  Stays(t, OnOut(t, i))
<1>1. PICK v : v = [t EXCEPT !.conn[i].mev = "CONNECTED"]
  OBVIOUS
<1>2. t.proxy \in BOOLEAN
  BY Fields
<1>3. CASE t.conn[i].mev = "CONNECTING" /\ t.proxy
  <2>1. OnOut(t, i) = OnSocksConnected(v, i)
    BY <1>1, <1>3 DEF OnOut
  <2> QED BY <1>1, <1>3, <2>1, SocksConnectedKeeps
<1>4. CASE t.conn[i].mev = "CONNECTING" /\ ~t.proxy
  <2>1. OnOut(t, i) = OnConnect(v, i)
    BY <1>1, <1>4 DEF OnOut
  <2> QED BY <1>1, <1>4, <2>1, ConnectKeeps
<1>5. CASE t.conn[i].mev # "CONNECTING" /\ t.conn[i].writecb = "http"
  <2>1. OnOut(t, i) = Send(t, i)
    BY <1>5 DEF OnOut
  <2>2. t.conn[i].readcb = "http"
    BY <1>5 DEF Good, Flows, Steady, Shaking
  <2> QED BY <2>1, <2>2, SendKeeps
<1>6. CASE t.conn[i].mev # "CONNECTING" /\ t.conn[i].writecb = "socks"
  <2>1. OnOut(t, i) = OnSocksWritable(t, i)
    BY <1>6 DEF OnOut
  <2> QED BY <1>6, <2>1, SocksWritableKeeps
<1>7. CASE t.conn[i].mev # "CONNECTING" /\ t.conn[i].writecb # "http"
           /\ t.conn[i].writecb # "socks"
  <2>1. OnOut(t, i) = t
    BY <1>7 DEF OnOut
  <2> QED BY <2>1 DEF Stays, Good
<1> QED BY <1>2, <1>3, <1>4, <1>5, <1>6, <1>7

\* One event of connection e.i: first it is written, then read.
LEMMA TriggeredKeeps ==
    ASSUME NEW t \in States, Good(t, t.b.pending), Rested(t),
           NEW e, e.i \in Lives(t), ConnIds = Nat \ {0}
    PROVE  Survives(t, Triggered(t, e), e.i)
<1>1. PICK i \in Lives(t) : i = e.i
  OBVIOUS
<1>2. PICK x : x = IF "OUT" \in e.what THEN OnOut(t, e.i) ELSE t
  OBVIOUS
<1>3. Stays(t, x)
  <2>1. CASE "OUT" \in e.what
    BY <1>1, <1>2, <2>1, OutKeeps
  <2>2. CASE "OUT" \notin e.what
    BY <1>2, <2>2 DEF Stays, Good
  <2> QED BY <2>1, <2>2
<1>4. CASE "IN" \in e.what /\ x.abort = "no"
  <2>1. Triggered(t, e) = OnIn(x, i)
    BY <1>1, <1>2, <1>4, Zenon DEF Triggered
  <2>2. x \in States /\ Good(x, x.b.pending) /\ Rested(x) /\ Lives(x) = Lives(t)
    BY <1>3, <1>4 DEF Stays
  <2>3. Survives(x, OnIn(x, i), i)
    BY <2>2, InKeeps
  <2> QED BY <1>1, <2>1, <2>2, <2>3, SurvivesOn
<1>5. CASE ~("IN" \in e.what /\ x.abort = "no")
  <2>1. Triggered(t, e) = x
    BY <1>2, <1>5, Zenon DEF Triggered
  <2> QED BY <1>3, <2>1, StaysSurvives
<1> QED BY <1>4, <1>5

-----------------------------------------------------------------------------
(* The browser's callbacks.                                                *)

\* The connections and the servers are what they were; the callbacks and the timers
\* are, too.
Same(t, r) ==
    r.conn = t.conn /\ r.srv = t.srv /\ r.abort = t.abort /\ r.persist = t.persist
Turns(t, r) ==
    Same(t, r) /\ r.cbs = t.cbs /\ r.nap = t.nap /\ r.timers = t.timers /\ r.timed = t.timed

PutTimers(t, q) == [t EXCEPT !.timers = q]
PutReport(t, x) == [t EXCEPT !.report = x]

LEMMA TimersPut ==
    ASSUME NEW t \in States, NEW q \in Seq(Nat)
    PROVE  Notes(t, PutTimers(t, q)) /\ PutTimers(t, q).b = t.b
           /\ PutTimers(t, q).abort = t.abort /\ PutTimers(t, q).req = t.req
<1>1. PICK r : r = PutTimers(t, q)
  OBVIOUS
<1>2. r \in States
  BY <1>1, Zenon DEF PutTimers, States
<1>3. r.b = t.b /\ r.cbs = t.cbs /\ r.conn = t.conn /\ r.srv = t.srv /\ r.req = t.req
      /\ r.proxy = t.proxy /\ r.lost = t.lost /\ r.misplaced = t.misplaced
      /\ r.abort = t.abort
  BY <1>1 DEF PutTimers, States
<1> QED BY <1>1, <1>2, <1>3 DEF Notes

LEMMA ReportPut ==
    ASSUME NEW t \in States, NEW x \in Reports
    PROVE  Notes(t, PutReport(t, x)) /\ PutReport(t, x).b = t.b
           /\ PutReport(t, x).abort = t.abort
<1>1. PICK r : r = PutReport(t, x)
  OBVIOUS
<1>2. r \in States
  BY <1>1, Zenon DEF PutReport, States
<1>3. r.b = t.b /\ r.cbs = t.cbs /\ r.conn = t.conn /\ r.srv = t.srv /\ r.req = t.req
      /\ r.proxy = t.proxy /\ r.lost = t.lost /\ r.misplaced = t.misplaced
      /\ r.abort = t.abort
  BY <1>1 DEF PutReport, States
<1> QED BY <1>1, <1>2, <1>3 DEF Notes

\* The state after a callback: what is counted are the requests the browser waits for.
Sits(r) ==
    \E Q : Good(r, Q) /\ (r.abort = "no" => Q = r.b.pending /\ Rested(r))

\* The state after a reset: nothing is under way.
Emptied(r) ==
    \E Q : Good(r, Q) /\ (r.abort = "no" => /\ Q = {} /\ r.b.pending = {}
                                            /\ r.b.state = "SB_INIT")

LEMMA EmptiedSits ==
    ASSUME NEW r, Emptied(r)
    PROVE  Sits(r)
BY DEF Emptied, Sits, Rested

LEMMA EmptiedOn ==
    ASSUME NEW t \in States, Emptied(t), NEW r, Notes(t, r), r.b.pending = t.b.pending,
           r.b.state = t.b.state
    PROVE  Emptied(r) /\ r \in States
<1>1. PICK Q : Good(t, Q) /\ (t.abort = "no" => /\ Q = {} /\ t.b.pending = {}
                                                /\ t.b.state = "SB_INIT")
  BY DEF Emptied
<1>2. Good(r, Q) /\ r \in States
  BY <1>1, NotesKeep DEF Notes
<1>3. r.abort = "no" => t.abort = "no"
  BY DEF Notes
<1> QED BY <1>1, <1>2, <1>3 DEF Emptied

\* The connections of all servers, and no others, are listed by reset.
LEMMA AllConnsAre ==
    ASSUME NEW t \in States, Sound(t)
    PROVE  AllConns(t) \in Seq(ConnIds) /\ In(AllConns(t)) = Lives(t) /\ Once(AllConns(t))
<1>1. PICK S : S = Lives(t)
  OBVIOUS
<1>2. S \subseteq ConnIds /\ S \subseteq Nat /\ 0 \notin S
  BY <1>1, Constants DEF Lives
<1>3. AllConns(t) = SetToSeq(S)
  <2>1. \A i, h : Contains(t.srv[h].conns, i) <=> i \in In(t.srv[h].conns)
    BY DEF Contains, In
  <2>2. S = {i \in ConnIds : \E h \in Hosts : Contains(t.srv[h].conns, i)}
    BY <1>1, <2>1 DEF Lives
  <2> QED BY <2>2, Zenon DEF AllConns
<1>4. IsFiniteSet(S)
  <2>1. PICK n \in Nat : \A i \in ConnIds : i > n => t.conn[i].st = "none"
    BY DEF Sound, Finite
  <2>2. \A i \in S : t.conn[i].st # "none"
    BY <1>1, LiveConn DEF Sound
  <2>3. S \subseteq 1..n
    BY <1>2, <2>1, <2>2
  <2>4. IsFiniteSet(1..n)
    BY <2>1, FS_Interval
  <2> QED BY <2>3, <2>4, FS_Subset
<1>5. SetToSeq(S) \in Seq(S) /\ In(SetToSeq(S)) = S /\ Once(SetToSeq(S))
  BY <1>2, <1>4, Listed
<1> QED BY <1>1, <1>2, <1>3, <1>5

\* What reset does when no request is waited for.
Resets(t, r) ==
    /\ \A h \in Hosts : r.srv[h] = NoServer
    /\ r.abort = t.abort /\ r.persist = t.persist /\ r.nap = t.nap /\ r.timers = t.timers
    /\ r.timed = t.timed /\ \E q \in Seq(ConnIds) : r.cbs = t.cbs \o q
    /\ r.b.state = "SB_INIT" /\ ~r.b.notified /\ r.b.loadnum = t.b.loadnum
    /\ r.b.pending = {} /\ r.b.embedded = {} /\ r.b.received = {}

\* reset: every connection is to be deleted, and every request is forgotten.
LEMMA ResetKeeps ==
    ASSUME NEW t \in States, NEW P, Good(t, P)
    PROVE  /\ Emptied(Reset(t)) /\ Reset(t) \in States
           /\ t.b.pending = {} => Resets(t, Reset(t))
<1>1. CASE t.b.pending # {}
  <2>1. Fails(t, Reset(t))
    BY <1>1, AbortFails DEF Reset, Reasons
  <2>2. P \subseteq Urls
    BY DEF Good, Counted
  <2>3. Good(Reset(t), P) /\ Reset(t) \in States
    BY <2>1, <2>2, FailsKeep DEF Fails
  <2> QED BY <1>1, <2>1, <2>3 DEF Emptied, Fails
<1>2. CASE t.b.pending = {}
  <2>1. PICK q \in Seq(ConnIds) : q = AllConns(t) /\ In(q) = Lives(t) /\ Once(q)
    BY AllConnsAre DEF Good
  <2>2. t.b \in Browsers /\ t.cbs \in Seq(Nat)
    BY Fields
  <2>3. q \in Seq(Nat)
    BY Constants
  <2>4. PICK z \in Seq(Nat) : z = t.cbs \o q
    BY <2>2, <2>3, InConcat
  <2>5. In(z) = In(t.cbs) \cup Lives(t) /\ Once(z)
    <3>1. Once(t.cbs) /\ In(t.cbs) \cap Lives(t) = {}
      BY DEF Good, Sound, Doomed, Lives
    <3> QED BY <2>1, <2>2, <2>3, <2>4, <3>1, InConcat
  <2>6. PICK v : v = [h \in Hosts |-> NoServer]
    OBVIOUS
  <2>7. v \in [Hosts -> Servers]
    BY <2>6 DEF NoServer, Servers
  <2>8. PICK w : w = [u \in Urls |-> NewRequest]
    OBVIOUS
  <2>9. w \in [Urls -> Requests]
    BY <2>8 DEF NewRequest, Requests
  <2>10. PICK x : x = [t.b EXCEPT !.state = "SB_INIT", !.notified = FALSE, !.html = FALSE,
                                  !.vr = "VR_NONE", !.embedded = {}, !.received = {}]
    OBVIOUS
  <2>11. x \in Browsers
    BY <2>2, <2>10 DEF Browsers, LoadStates, Results
  <2>12. /\ x.pending = {} /\ x.state = "SB_INIT" /\ ~x.notified /\ x.loadnum = t.b.loadnum
         /\ x.embedded = {} /\ x.received = {}
    BY <1>2, <2>2, <2>10 DEF Browsers
  <2>13. PICK r : r = Reset(t)
    OBVIOUS
  <2>14. r = [t EXCEPT !.cbs = z, !.srv = v, !.lost = {}, !.b = x, !.req = w]
    <3>1. [k \in 1..Len(q) |-> q[k]] = q
      BY <2>1
    <3>2. PICK d : d = DeleteLater(t, q)
      OBVIOUS
    <3>3. d = [t EXCEPT !.cbs = z]
      BY <2>4, <3>1, <3>2, Zenon DEF DeleteLater
    <3>4. ManagerReset(t) = [d EXCEPT !.srv = v, !.lost = {}]
      BY <2>1, <2>6, <3>2, Zenon DEF ManagerReset
    <3>5. PICK e : e = [d EXCEPT !.srv = v, !.lost = {}]
      OBVIOUS
    <3>6. e.b = t.b
      BY <3>3, <3>5 DEF States
    <3>7. r = [e EXCEPT !.b = x, !.req = w]
      BY <1>2, <2>8, <2>10, <2>13, <3>4, <3>5, <3>6, Zenon DEF Reset
    <3> QED BY <3>3, <3>5, <3>7, Zenon
  <2>15. r \in States
    <3>1. {} \in SUBSET Urls
      OBVIOUS
    <3> QED BY <2>4, <2>7, <2>9, <2>11, <2>14, <3>1, Zenon DEF States
  <2>16. r.conn = t.conn /\ r.proxy = t.proxy /\ r.lost = {} /\ r.misplaced = t.misplaced
         /\ r.srv = v /\ r.cbs = z /\ r.b = x /\ r.abort = t.abort
         /\ r.persist = t.persist /\ r.nap = t.nap /\ r.timers = t.timers /\ r.timed = t.timed
    BY <2>14 DEF States
  <2>17. \A h \in Hosts : r.srv[h] = NoServer
    BY <2>6, <2>16
  <2>18. Good(r, {})
    BY <2>5, <2>15, <2>16, <2>17, Cleared
  <2>19. Resets(t, r)
    BY <2>4, <2>12, <2>16, <2>17 DEF Resets
  <2> QED BY <2>12, <2>13, <2>15, <2>16, <2>18, <2>19 DEF Emptied
<1> QED BY <1>1, <1>2

LEMMA NextLoadIs ==
    ASSUME NEW t \in States
    PROVE  Noted(t, NextLoad(t), t.b.pending, t.b.state)
<1>1. t.b \in Browsers
  BY Fields
<1>2. PICK x : x = [t.b EXCEPT !.loadnum = t.b.loadnum + 1]
  OBVIOUS
<1>3. x \in Browsers /\ x.pending = t.b.pending /\ x.state = t.b.state
  BY <1>1, <1>2 DEF Browsers
<1>4. NextLoad(t) = PutB(t, x)
  BY <1>2, Zenon DEF NextLoad, PutB
<1> QED BY <1>3, <1>4, Zenon DEF Noted

LEMMA UnnotifiedIs ==
    ASSUME NEW t \in States
    PROVE  Noted(t, [t EXCEPT !.b.notified = FALSE], t.b.pending, t.b.state)
<1>1. t.b \in Browsers
  BY Fields
<1>2. PICK x : x = [t.b EXCEPT !.notified = FALSE]
  OBVIOUS
<1>3. x \in Browsers /\ x.pending = t.b.pending /\ x.state = t.b.state
  BY <1>1, <1>2 DEF Browsers
<1>4. [t EXCEPT !.b.notified = FALSE] = PutB(t, x)
  BY <1>2, Zenon DEF PutB
<1> QED BY <1>3, <1>4, Zenon DEF Noted

LEMMA ForgottenIs ==
    ASSUME NEW t \in States
    PROVE  Noted(t, [t EXCEPT !.b.pending = {}], {}, t.b.state)
<1>1. t.b \in Browsers
  BY Fields
<1>2. PICK x : x = [t.b EXCEPT !.pending = {}]
  OBVIOUS
<1>3. x \in Browsers /\ x.pending = {} /\ x.state = t.b.state
  BY <1>1, <1>2 DEF Browsers
<1>4. [t EXCEPT !.b.pending = {}] = PutB(t, x)
  BY <1>2, Zenon DEF PutB
<1> QED BY <1>3, <1>4, Zenon DEF Noted

\* After a reset, the load is over and its end is notified.
LEMMA OverKeeps ==
    ASSUME NEW t \in States, NEW P, Good(t, P), NEW when
    PROVE  Sits(Notify(NextLoad(Reset(t)), when))
<1>1. PICK x : x = Reset(t)
  OBVIOUS
<1>2. Emptied(x) /\ x \in States
  BY <1>1, ResetKeeps
<1>3. PICK Q : Good(x, Q) /\ (x.abort = "no" => /\ Q = {} /\ x.b.pending = {}
                                                /\ x.b.state = "SB_INIT")
  BY <1>2 DEF Emptied
<1>4. PICK y : y = NextLoad(x)
  OBVIOUS
<1>5. Noted(x, y, x.b.pending, x.b.state)
  BY <1>2, <1>4, NextLoadIs
<1>6. Good(y, Q) /\ Keeps(x, y) /\ y.b.pending = x.b.pending /\ y.b.state = x.b.state
      /\ y \in States
  BY <1>2, <1>3, <1>5, NotedKeep
<1>7. PICK r : r = Notify(y, when)
  OBVIOUS
<1>8. Good(r, Q) /\ Keeps(y, r) /\ r.b.state = y.b.state /\ r.b.pending = y.b.pending
  BY <1>6, <1>7, NotifyKeeps
<1>9. r.abort = "no" => x.abort = "no"
  BY <1>6, <1>8 DEF Keeps
<1>10. Emptied(r)
  BY <1>3, <1>6, <1>8, <1>9 DEF Emptied
<1> QED BY <1>1, <1>4, <1>7, <1>10, EmptiedSits

LEMMA PageDoneKeeps ==
    ASSUME NEW t \in States, NEW P, Good(t, P)
    PROVE  Sits(PageDone(t))
<1>1. PICK x \in Reports : x = IF t.b.vr = "VR_SUCCESS" /\ t.b.expected = {}
                               THEN "success" ELSE "FAILED"
  BY DEF Reports
<1>2. PICK v : v = PutReport(t, x)
  OBVIOUS
<1>3. Report(t) = v
  BY <1>1, <1>2, Zenon DEF Report, PutReport
<1>4. Notes(t, v)
  BY <1>2, ReportPut
<1>5. Good(v, P) /\ v \in States
  BY <1>4, NotesKeep DEF Notes
<1>6. Sits(Notify(NextLoad(Reset(v)), "nap"))
  BY <1>5, OverKeeps
<1> QED BY <1>3, <1>6, Zenon DEF PageDone

\* What load does: its timer is set, the document is asked for, the load begins.
Clocked(t, v) ==
    /\ Same(t, v) /\ v.cbs = t.cbs /\ v.nap = t.nap /\ v.timed = t.timed /\ v.b = t.b
    /\ v.timers = IF t.timed THEN Append(t.timers, t.b.loadnum) ELSE t.timers
Begun(w, r) ==
    /\ Turns(w, r) /\ r.b.state = "SB_FETCHING_DOCUMENT" /\ r.b.notified = w.b.notified
    /\ r.b.loadnum = w.b.loadnum /\ r.b.pending = {Doc} /\ r.b.embedded = w.b.embedded
    /\ r.b.received = w.b.received

\* load: the document is asked for when nothing else is.
LEMMA LoadKeeps ==
    ASSUME NEW t \in States, Good(t, {}), ConnIds = Nat \ {0}
    PROVE  /\ Sits(Load(t))
           /\ \E v \in States : /\ Good(v, {}) /\ Clocked(t, v)
                               /\ Begun(SubmitRequest(v, Doc), Load(t))
<1>1. PICK u \in Urls : u = Doc
  BY BrowserAssumption
<1>2. PICK x \in Requests : x = NewRequest
  BY DEF NewRequest, Requests
<1>3. PICK m : m = PutReq(t, u, x)
  OBVIOUS
<1>4. ReqIs(t, m, u, x)
  BY <1>3, ReqPut
<1>5. Good(m, {})
  <2>1. u \notin {}
    OBVIOUS
  <2> QED BY <1>4, <2>1, Rerequested
<1>6. m \in States /\ m.req[u] = x /\ m.b = t.b
  BY <1>4 DEF ReqIs
<1>7. PICK q \in Seq(Nat) : q = IF t.timed THEN Append(t.timers, t.b.loadnum) ELSE t.timers
  <2>1. t.timers \in Seq(Nat) /\ t.b.loadnum \in Nat
    BY DEF States, Browsers
  <2>2. Append(t.timers, t.b.loadnum) \in Seq(Nat)
    BY <2>1, OnceAppend
  <2> QED BY <2>1, <2>2
<1>8. PICK v : v = PutTimers(m, q)
  OBVIOUS
<1>9. Notes(m, v) /\ v.req = m.req /\ v.b = m.b
  BY <1>6, <1>8, TimersPut
<1>10. Good(v, {}) /\ v \in States
  BY <1>5, <1>6, <1>9, NotesKeep DEF Notes
<1>11. v = [t EXCEPT !.req[Doc] = NewRequest,
                     !.timers = IF t.timed THEN Append(@, t.b.loadnum) ELSE @]
  BY <1>1, <1>2, <1>3, <1>7, <1>8, Zenon DEF PutReq, PutTimers
<1>12. Asks(v.req[u], u)
  BY <1>2, <1>6, <1>9, Constants DEF NewRequest, Asks
<1>13. PICK w : w = SubmitRequest(v, u)
  OBVIOUS
<1>14. Good(w, {u}) /\ w \in States
  <2>1. u \notin {}
    OBVIOUS
  <2>2. Good(w, {} \cup {u}) /\ Keeps(v, w)
    BY <1>10, <1>12, <1>13, <2>1, SubmitKeeps
  <2> QED BY <2>2 DEF Keeps
<1>15. PICK y : y = [w.b EXCEPT !.state = "SB_FETCHING_DOCUMENT", !.vr = "VR_SUCCESS",
                                !.expected = Expected, !.pending = {u}]
  OBVIOUS
<1>16. /\ y \in Browsers /\ y.pending = {u} /\ y.state = "SB_FETCHING_DOCUMENT"
       /\ y.notified = w.b.notified /\ y.loadnum = w.b.loadnum
       /\ y.embedded = w.b.embedded /\ y.received = w.b.received
  <2>1. w.b \in Browsers
    BY <1>14, Fields
  <2> QED BY <1>15, <2>1, BrowserAssumption DEF Browsers, LoadStates, Results
<1>17. PICK r : r = Load(t)
  OBVIOUS
<1>18. r = PutB(w, y)
  <2>1. r = [w EXCEPT !.b.state = "SB_FETCHING_DOCUMENT", !.b.vr = "VR_SUCCESS",
                      !.b.expected = Expected, !.b.pending = {u}]
    BY <1>1, <1>11, <1>13, <1>17, Zenon DEF Load
  <2>2. PICK a : a = [w EXCEPT !.b.state = "SB_FETCHING_DOCUMENT"]
    OBVIOUS
  <2>3. PICK b : b = [a EXCEPT !.b.vr = "VR_SUCCESS"]
    OBVIOUS
  <2>4. PICK c : c = [b EXCEPT !.b.expected = Expected]
    OBVIOUS
  <2>5. r = [c EXCEPT !.b.pending = {u}]
    BY <2>1, <2>2, <2>3, <2>4, Zenon
  <2> QED BY <1>14, <1>15, <2>2, <2>3, <2>4, <2>5, Zenon DEF PutB, States
<1>19. Notes(w, r) /\ r.b = y
  BY <1>14, <1>16, <1>18, BrowserPut
<1>20. Good(r, {u})
  BY <1>14, <1>19, NotesKeep
<1>21. Begun(w, r)
  <2>1. Turns(w, r)
    BY <1>14, <1>18, Zenon DEF PutB, States, Turns, Same
  <2> QED BY <1>1, <1>16, <1>19, <2>1 DEF Begun
<1>22. Clocked(t, v)
  <2>1. Same(t, m) /\ m.cbs = t.cbs /\ m.nap = t.nap /\ m.timed = t.timed /\ m.b = t.b
    BY <1>3, <1>4 DEF PutReq, ReqIs, Same
  <2>2. Same(m, v) /\ v.cbs = m.cbs /\ v.nap = m.nap /\ v.timed = m.timed /\ v.timers = q
    BY <1>6, <1>8 DEF PutTimers, States, Same
  <2> QED BY <1>7, <1>9, <2>1, <2>2 DEF Clocked, Same
<1> QED BY <1>1, <1>10, <1>13, <1>16, <1>17, <1>19, <1>20, <1>21, <1>22 DEF Sits, Rested

\* What on_notified does once the document is there.
LEMMA DocumentDoneKeeps ==
    ASSUME NEW t \in States, Good(t, t.b.pending), t.b.state = "SB_DONE_DOCUMENT",
           ConnIds = Nat \ {0}
    PROVE  Sits(DocumentDone(t))
<1>1. PICK u \in Urls : u = Doc
  BY BrowserAssumption
<1>2. PICK x : x = IF t.b.html THEN RequestNamed(t, u) ELSE t
  OBVIOUS
<1>3. Good(x, x.b.pending) /\ x \in States /\ x.b.state = t.b.state
  <2>1. RequestNamed(t, u) \in Asking(t)
    BY RequestNamedKeeps
  <2> QED BY <1>2, <2>1 DEF Asking
<1>4. CASE IsPageDone(x)
  <2>1. PICK y : y = [x EXCEPT !.b.state = "SB_DONE"]
    OBVIOUS
  <2>2. Noted(x, y, x.b.pending, "SB_DONE")
    <3>1. "SB_DONE" \in LoadStates
      BY DEF LoadStates
    <3> QED BY <1>3, <2>1, <3>1, StateIs
  <2>3. Good(y, x.b.pending) /\ y \in States
    BY <1>3, <2>2, NotedKeep
  <2>4. DocumentDone(t) = PageDone(y)
    BY <1>1, <1>2, <1>4, <2>1, Zenon DEF DocumentDone
  <2> QED BY <2>3, <2>4, PageDoneKeeps
<1>5. CASE ~IsPageDone(x)
  <2>1. PICK y : y = [x EXCEPT !.b.state = "SB_FETCHING_EMBEDDED"]
    OBVIOUS
  <2>2. Noted(x, y, x.b.pending, "SB_FETCHING_EMBEDDED")
    <3>1. "SB_FETCHING_EMBEDDED" \in LoadStates
      BY DEF LoadStates
    <3> QED BY <1>3, <2>1, <3>1, StateIs
  <2>3. Good(y, x.b.pending) /\ y.b.pending = x.b.pending
        /\ y.b.state = "SB_FETCHING_EMBEDDED"
    BY <1>3, <2>2, NotedKeep
  <2>4. DocumentDone(t) = y
    BY <1>1, <1>2, <1>5, <2>1, Zenon DEF DocumentDone
  <2> QED BY <2>3, <2>4 DEF Sits, Rested
<1> QED BY <1>4, <1>5

\* on_notified.
LEMMA NotifiedKeeps ==
    ASSUME NEW t \in States, Good(t, t.b.pending), Rested(t), ConnIds = Nat \ {0}
    PROVE  Sits(OnNotified(t))
<1>1. PICK v : v = [t EXCEPT !.b.notified = FALSE]
  OBVIOUS
<1>2. Noted(t, v, t.b.pending, t.b.state)
  BY <1>1, UnnotifiedIs
<1>3. Good(v, t.b.pending) /\ v.b.pending = t.b.pending /\ v.b.state = t.b.state
      /\ v \in States
  BY <1>2, NotedKeep
<1>4. t.b.notified \in BOOLEAN
  BY Fields, BrowserFields
<1>5. CASE ~t.b.notified
  <2>1. OnNotified(t) = Abort(t, "not-notified")
    BY <1>5, Zenon DEF OnNotified
  <2>2. Fails(t, OnNotified(t))
    BY <2>1, AbortFails DEF Reasons
  <2>3. t.b.pending \subseteq Urls
    BY DEF Good, Counted
  <2>4. Good(OnNotified(t), t.b.pending)
    BY <2>2, <2>3, FailsKeep
  <2> QED BY <2>2, <2>4 DEF Sits, Fails
<1>6. CASE t.b.notified /\ t.b.state = "SB_INIT"
  <2>1. OnNotified(t) = Load(v)
    BY <1>1, <1>6 DEF OnNotified
  <2>2. Good(v, {})
    BY <1>3, <1>6 DEF Rested
  <2> QED BY <1>3, <2>1, <2>2, LoadKeeps
<1>7. CASE t.b.notified /\ t.b.state = "SB_DONE_DOCUMENT"
  <2>1. OnNotified(t) = DocumentDone(v)
    BY <1>1, <1>7 DEF OnNotified
  <2>2. Good(v, v.b.pending) /\ v.b.state = "SB_DONE_DOCUMENT"
    BY <1>3, <1>7
  <2> QED BY <1>3, <2>1, <2>2, DocumentDoneKeeps
<1>8. CASE t.b.notified /\ t.b.state = "SB_DONE"
  <2>1. OnNotified(t) = PageDone(v)
    BY <1>1, <1>8 DEF OnNotified
  <2> QED BY <1>3, <2>1, PageDoneKeeps
<1>9. CASE t.b.notified /\ t.b.state \notin {"SB_INIT", "SB_DONE_DOCUMENT", "SB_DONE"}
  <2>1. OnNotified(t) = v
    BY <1>1, <1>9 DEF OnNotified
  <2>2. Rested(v)
    BY <1>3 DEF Rested
  <2> QED BY <1>3, <2>1, <2>2 DEF Sits
<1> QED BY <1>4, <1>5, <1>6, <1>7, <1>8, <1>9

\* on_timeout_timer_fired.
LEMMA TimeoutKeeps ==
    ASSUME NEW t \in States, Good(t, t.b.pending), Rested(t), NEW n
    PROVE  Sits(OnTimeout(t, n))
<1>1. CASE ~OwnTimer(t, n)
  <2>1. OnTimeout(t, n) = t
    BY <1>1 DEF OnTimeout
  <2> QED BY <2>1 DEF Sits
<1>2. CASE OwnTimer(t, n)
  <2>1. PICK v : v = PutReport(t, "timedout")
    OBVIOUS
  <2>2. Notes(t, v)
    BY <2>1, ReportPut DEF Reports
  <2>3. Good(v, t.b.pending) /\ v \in States
    BY <2>2, NotesKeep DEF Notes
  <2>4. PICK w : w = [v EXCEPT !.b.pending = {}]
    OBVIOUS
  <2>5. Noted(v, w, {}, v.b.state)
    BY <2>3, <2>4, ForgottenIs
  <2>6. Good(w, t.b.pending) /\ w \in States
    BY <2>3, <2>5, NotedKeep
  <2>7. Sits(Notify(NextLoad(Reset(w)), "now"))
    BY <2>6, OverKeeps
  <2>8. OnTimeout(t, n) = Notify(NextLoad(Reset(w)), "now")
    BY <1>2, <2>1, <2>4, Zenon DEF OnTimeout, PutReport, StopLoad
  <2> QED BY <2>7, <2>8
<1> QED BY <1>1, <1>2

-----------------------------------------------------------------------------
(* What the network does to one connection.                                *)

\* Connection c, and the same connection when its socket has changed.
Carries(c, d) ==
    /\ d.st = c.st /\ d.host = c.host /\ d.sub = c.sub /\ d.act = c.act /\ d.first = c.first
    /\ d.out = c.out /\ d.blen = c.blen /\ d.mev = c.mev /\ d.readcb = c.readcb
    /\ d.writecb = c.writecb /\ d.wen = c.wen

FlowsOn(c, d, req) == Flow(c, req, c.inp \o c.todo) => Flow(c, req, d.inp \o d.todo)
ShakesOn(c, d) == c.readcb # "http" /\ Shaking(c) => Shaking(d)

LEMMA CarriesSteady ==
    ASSUME NEW c, NEW d, NEW req, NEW proxy, Carries(c, d), Steady(c, req, proxy),
           FlowsOn(c, d, req), ShakesOn(c, d)
    PROVE  Steady(d, req, proxy)
<1>1. Unsent(d, req) <=> Unsent(c, req)
  BY DEF Unsent, Carries
<1>2. \A r, v, p, w : Reading(d, r, v, p, w) <=> Reading(c, r, v, p, w)
  BY DEF Reading, Carries
<1>3. \A w : Flow(d, req, w) <=> Flow(c, req, w)
  BY <1>1, <1>2 DEF Flow, Carries
<1>4. \A u \in In(d.sub) : Asks(req[u], u)
  BY DEF Steady, Carries
<1>5. CASE c.readcb = "http"
  <2>1. /\ c.writecb # "socks" /\ (c.mev = "CONNECTING" => ~proxy)
        /\ Flow(c, req, c.inp \o c.todo)
    BY <1>5 DEF Steady
  <2>2. Flow(d, req, d.inp \o d.todo)
    BY <1>3, <2>1 DEF FlowsOn
  <2> QED BY <1>4, <1>5, <2>1, <2>2 DEF Steady, Carries
<1>6. CASE c.readcb # "http"
  <2>1. proxy /\ Shaking(c) /\ Unsent(c, req)
    BY <1>6 DEF Steady
  <2>2. Shaking(d)
    BY <1>6, <2>1 DEF ShakesOn
  <2> QED BY <1>1, <1>4, <1>6, <2>1, <2>2 DEF Steady, Carries
<1> QED BY <1>5, <1>6

LEMMA ConcatThrice ==
    ASSUME NEW S, NEW p \in Seq(S), NEW q \in Seq(S), NEW w \in Seq(S)
    PROVE  (p \o q) \o w = p \o (q \o w)
<1>1. PICK x \in Seq(S), y \in Seq(S) : x = p \o q /\ y = q \o w
  BY ConcatIs
<1>2. PICK a \in Seq(S), b \in Seq(S) : a = x \o w /\ b = p \o y
  BY ConcatIs
<1>3. PICK l \in Nat, m \in Nat, n \in Nat : l = Len(p) /\ m = Len(q) /\ n = Len(w)
  OBVIOUS
<1>4. /\ Len(x) = l + m
      /\ \A k \in 1..(l + m) : x[k] = IF k <= l THEN p[k] ELSE q[k - l]
  BY <1>1, <1>3, ConcatIs
<1>5. /\ Len(y) = m + n
      /\ \A k \in 1..(m + n) : y[k] = IF k <= m THEN q[k] ELSE w[k - m]
  BY <1>1, <1>3, ConcatIs
<1>6. /\ Len(a) = (l + m) + n
      /\ \A k \in 1..((l + m) + n) : a[k] = IF k <= l + m THEN x[k] ELSE w[k - (l + m)]
  BY <1>1, <1>2, <1>3, <1>4, ConcatIs
<1>7. /\ Len(b) = l + (m + n)
      /\ \A k \in 1..(l + (m + n)) : b[k] = IF k <= l THEN p[k] ELSE y[k - l]
  BY <1>1, <1>2, <1>3, <1>5, ConcatIs
<1>8. ASSUME NEW k \in 1..((l + m) + n) PROVE a[k] = b[k]
  <2>1. CASE k <= l
    <3>1. k \in 1..(l + m) /\ k \in 1..(l + (m + n)) /\ k <= l + m
      BY <1>3, <2>1
    <3> QED BY <1>4, <1>6, <1>7, <2>1, <3>1
  <2>2. CASE l < k /\ k <= l + m
    <3>1. k \in 1..(l + m) /\ k \in 1..(l + (m + n)) /\ ~(k <= l)
          /\ k - l \in 1..(m + n) /\ k - l <= m
      BY <1>3, <2>2
    <3> QED BY <1>4, <1>5, <1>6, <1>7, <2>2, <3>1
  <2>3. CASE l + m < k
    <3>1. k \in 1..(l + (m + n)) /\ ~(k <= l) /\ ~(k <= l + m)
          /\ k - l \in 1..(m + n) /\ ~(k - l <= m) /\ (k - l) - m = k - (l + m)
      BY <1>3, <2>3
    <3> QED BY <1>5, <1>6, <1>7, <2>3, <3>1
  <2> QED BY <1>3, <2>1, <2>2, <2>3
<1>9. (l + m) + n = l + (m + n)
  BY <1>3
<1>10. a = b
  BY <1>2, <1>6, <1>7, <1>8, <1>9, SeqEqual
<1> QED BY <1>1, <1>2, <1>10

\* What arrives is taken from what is on its way.
Delivered(c, d, k) ==
    /\ k \in 1..Len(c.todo) /\ d.closed = c.closed
    /\ d.inp = c.inp \o SubSeq(c.todo, 1, k)
    /\ d.todo = SubSeq(c.todo, k + 1, Len(c.todo))

LEMMA DeliveredIs ==
    ASSUME NEW c \in Conns, NEW k, NEW d, Delivered(c, d, k)
    PROVE  /\ d.inp \in Seq(Units) /\ d.todo \in Seq(Units)
           /\ d.inp \o d.todo = c.inp \o c.todo
           /\ Len(d.inp) + Len(d.todo) = Len(c.inp) + Len(c.todo)
           /\ In(d.inp) \subseteq In(c.inp) \cup In(c.todo)
           /\ In(d.todo) \subseteq In(c.todo)
<1>1. PICK p \in Seq(Units), q \in Seq(Units) : p = c.inp /\ q = c.todo
  BY ConnFields
<1>2. PICK n \in Nat : n = Len(q)
  BY <1>1
<1>3. k \in 1..n
  BY <1>1, <1>2 DEF Delivered
<1>4. \A j \in 1..n : q[j] \in Units
  BY <1>1, <1>2
<1>5. PICK a : a = SubSeq(q, 1, k)
  OBVIOUS
<1>6. a \in Seq(Units) /\ Len(a) = k /\ \A j \in 1..k : a[j] = q[j]
  <2>1. \A j \in 1..k : q[j] \in Units
    BY <1>3, <1>4
  <2>2. SubSeq(q, 1, k) \in Seq(Units) /\ Len(SubSeq(q, 1, k)) = (IF 1 <= k THEN k - 1 + 1 ELSE 0)
        /\ \A j \in 1..(k - 1 + 1) : SubSeq(q, 1, k)[j] = q[1 + j - 1]
    BY <1>3, <2>1, SubSeqProperties
  <2> QED BY <1>3, <1>5, <2>2
<1>7. PICK b : b = SubSeq(q, k + 1, n)
  OBVIOUS
<1>8. b \in Seq(Units) /\ Len(b) = n - k /\ \A j \in 1..(n - k) : b[j] = q[k + j]
  <2>1. \A j \in (k + 1)..n : q[j] \in Units
    BY <1>3, <1>4
  <2>2. k + 1 \in Int /\ n \in Int
    BY <1>3
  <2>3. SubSeq(q, k + 1, n) \in Seq(Units)
        /\ Len(SubSeq(q, k + 1, n)) = (IF k + 1 <= n THEN n - (k + 1) + 1 ELSE 0)
        /\ \A j \in 1..(n - (k + 1) + 1) : SubSeq(q, k + 1, n)[j] = q[k + 1 + j - 1]
    BY <2>1, <2>2, SubSeqProperties
  <2> QED BY <1>3, <1>7, <2>3
<1>9. a \o b = q
  <2>1. 1 \in 1..(Len(q) + 1) /\ k \in (1 - 1)..Len(q) /\ Len(q) \in k..Len(q)
    BY <1>2, <1>3
  <2>2. SubSeq(q, 1, k) \o SubSeq(q, k + 1, Len(q)) = SubSeq(q, 1, Len(q))
    BY <1>1, <2>1, ConcatAdjacentSubSeq
  <2>3. SubSeq(q, 1, Len(q)) = q
    BY <1>1, SubSeqFull
  <2> QED BY <1>2, <1>5, <1>7, <2>2, <2>3
<1>10. d.inp = p \o a /\ d.todo = b
  BY <1>1, <1>2, <1>5, <1>7 DEF Delivered
<1>11. (p \o a) \o b = p \o q
  <2>1. p \in Seq(Units) /\ a \in Seq(Units) /\ b \in Seq(Units)
    BY <1>6, <1>8
  <2>2. (p \o a) \o b = p \o (a \o b)
    BY <2>1, ConcatThrice
  <2> QED BY <1>9, <2>2, Zenon
<1>12. p \o a \in Seq(Units) /\ In(p \o a) = In(p) \cup In(a)
  BY <1>1, <1>6, InConcat
<1>13. In(a) \subseteq In(q) /\ In(b) \subseteq In(q)
  <2>1. \A j \in 1..k : j \in 1..n
    BY <1>3
  <2>2. \A j \in 1..(n - k) : k + j \in 1..n
    BY <1>3
  <2> QED BY <1>2, <1>6, <1>8, <2>1, <2>2 DEF In
<1>14. Len(p \o a) + Len(b) = Len(p) + Len(q)
  <2>1. PICK m \in Nat : m = Len(p)
    BY <1>1
  <2>2. Len(p \o a) = m + k
    BY <1>1, <1>6, <2>1, ConcatIs
  <2>3. (m + k) + (n - k) = m + n
    BY <1>2, <1>3, <2>1
  <2> QED BY <1>2, <1>8, <2>1, <2>2, <2>3
<1> QED BY <1>1, <1>8, <1>10, <1>11, <1>12, <1>13, <1>14

LEMMA DeliveredSteady ==
    ASSUME NEW c \in Conns, NEW d \in Conns, NEW k, Delivered(c, d, k), Carries(c, d),
           NEW req, NEW proxy, Steady(c, req, proxy)
    PROVE  Steady(d, req, proxy)
<1>1. FlowsOn(c, d, req)
  BY DeliveredIs DEF FlowsOn
<1>2. ASSUME c.readcb # "http", Shaking(c)
      PROVE  Shaking(d)
  <2>1. Len(d.inp) + Len(d.todo) <= 1
    BY <1>2, DeliveredIs DEF Shaking
  <2>2. c.todo # <<>>
    BY DEF Delivered
  <2>3. c.readcb # "NULL"
    BY <1>2, <2>2 DEF Shaking
  <2>4. \A x \in In(c.inp) \cup In(c.todo) : x.kind \in {"greet", "grant", "refuse"}
    BY <1>2 DEF Shaking, In
  <2>5. \A x \in In(d.inp) \cup In(d.todo) : x.kind \in {"greet", "grant", "refuse"}
    BY <2>4, DeliveredIs
  <2>6. /\ \A j \in 1..Len(d.inp) : d.inp[j] \in In(d.inp)
        /\ \A j \in 1..Len(d.todo) : d.todo[j] \in In(d.todo)
    BY DEF In
  <2>7. /\ d.writecb # "http" /\ d.st = "CONNECTING" /\ d.readcb # "NULL"
        /\ d.writecb # "socks" /\ d.mev # "CONNECTING"
    BY <1>2, <2>3 DEF Shaking, Carries
  <2> QED BY <2>1, <2>5, <2>6, <2>7 DEF Shaking
<1>3. ShakesOn(c, d)
  BY <1>2 DEF ShakesOn
<1> QED BY <1>1, <1>3, CarriesSteady

\* A connection that is closed: what was on its way is lost.
Closes(c, d) == d.inp = c.inp /\ d.todo = <<>> /\ d.closed

LEMMA ClosesSteady ==
    ASSUME NEW c \in Conns, NEW d \in Conns, Closes(c, d), Carries(c, d),
           c.st = "CONNECTED", NEW req, NEW proxy, Steady(c, req, proxy)
    PROVE  Steady(d, req, proxy)
<1>1. PICK p \in Seq(Units), q \in Seq(Units) : p = c.inp /\ q = c.todo
  BY ConnFields
<1>2. d.inp \o d.todo = p
  BY <1>1, ConcatEmptySeq DEF Closes
<1>3. PICK m \in Nat, n \in Nat : m = Len(p) /\ n = Len(q)
  BY <1>1
<1>4. PICK w \in Seq(Units) : w = p \o q
  BY <1>1, ConcatIs
<1>5. Len(w) = m + n /\ \A j \in 1..m : w[j] = p[j]
  <2>1. Len(p \o q) = Len(p) + Len(q)
        /\ \A j \in 1..(Len(p) + Len(q)) : (p \o q)[j] = IF j <= Len(p) THEN p[j] ELSE q[j - Len(p)]
    BY <1>1, ConcatIs
  <2> QED BY <1>3, <1>4, <2>1
<1>6. ASSUME Flow(c, req, w) PROVE Flow(c, req, p)
  <2>1. CASE Unsent(c, req) /\ w = <<>>
    <3>1. p = <<>>
      BY <1>1, <1>4, <2>1, ConcatEmpty
    <3> QED BY <2>1, <3>1 DEF Flow
  <2>2. CASE c.act # <<>> /\ \E e \in Nat : Reading(c, req[c.act[1]], c.act[1], e, w)
    <3>1. PICK u \in Urls : u = c.act[1]
      BY <2>2, ConnFields, InTail
    <3>2. PICK e \in Nat : Reading(c, req[u], u, e, w)
      BY <2>2, <3>1
    <3>3. PICK l : l = Lasts(u, c.first)
      OBVIOUS
    <3>4. l \in Int /\ e \in 1..l
      <4>1. c.first \in Nat /\ Size[u] \in Nat /\ Header(c.first) \in Nat
        BY ConnFields, Constants DEF Header
      <4> QED BY <3>2, <3>3, <4>1 DEF Reading, Lasts
    <3>5. m + n <= l - e + 1
      BY <1>5, <3>2, <3>3 DEF Reading
    <3>6. Len(p) <= l - e + 1
      BY <1>3, <3>4, <3>5
    <3>7. \A j \in 1..Len(p) : p[j] = Response(u, c.first)[e + j - 1]
      <4>1. \A j \in 1..(m + n) : w[j] = Response(u, c.first)[e + j - 1]
        BY <1>5, <3>2 DEF Reading
      <4>2. \A j \in 1..m : j \in 1..(m + n)
        BY <1>3
      <4> QED BY <1>3, <1>5, <4>1, <4>2
    <3>8. Reading(c, req[u], u, e, p)
      BY <3>2, <3>3, <3>6, <3>7 DEF Reading
    <3> QED BY <2>2, <3>1, <3>8 DEF Flow
  <2> QED BY <1>6, <2>1, <2>2 DEF Flow
<1>7. FlowsOn(c, d, req)
  BY <1>1, <1>2, <1>4, <1>6 DEF FlowsOn
<1>8. ShakesOn(c, d)
  BY DEF ShakesOn, Shaking
<1> QED BY <1>7, <1>8, CarriesSteady

\* The proxy cannot reach the server.
Refuses(c, d) ==
    /\ c.todo = <<Unit("grant", 0)>> /\ d.todo = <<Unit("refuse", 0)>>
    /\ d.inp = c.inp /\ d.closed = c.closed

LEMMA RefusesSteady ==
    ASSUME NEW c \in Conns, NEW d \in Conns, Refuses(c, d), Carries(c, d),
           NEW req, NEW proxy, Steady(c, req, proxy)
    PROVE  Steady(d, req, proxy)
<1>1. PICK p \in Seq(Units), q \in Seq(Units) : p = c.inp /\ q = c.todo
  BY ConnFields
<1>2. "grant" \in Kinds /\ "refuse" \in Kinds
  BY DEF Kinds
<1>3. Len(q) = 1 /\ q[1].kind = "grant"
  BY <1>1, <1>2, OneUnit DEF Refuses
<1>4. PICK o \in Seq(Units) : o = d.todo /\ Len(o) = 1 /\ o[1].kind = "refuse"
  BY <1>2, OneUnit DEF Refuses
<1>5. PICK w \in Seq(Units) : w = p \o q
  BY <1>1, ConcatIs
<1>6. PICK m \in Nat : m = Len(p)
  BY <1>1
<1>7. Len(w) = m + 1 /\ w[m + 1] = q[1]
  <2>1. Len(p \o q) = Len(p) + Len(q)
        /\ \A j \in 1..(Len(p) + Len(q)) : (p \o q)[j] = IF j <= Len(p) THEN p[j] ELSE q[j - Len(p)]
    BY <1>1, ConcatIs
  <2>2. m + 1 \in 1..(m + 1) /\ ~(m + 1 <= m) /\ (m + 1) - m = 1
    BY <1>6
  <2> QED BY <1>3, <1>5, <1>6, <2>1, <2>2
<1>8. ~Flow(c, req, w)
  <2>1. ASSUME Unsent(c, req) /\ w = <<>> PROVE FALSE
    <3>1. Len(w) = 0
      BY <2>1
    <3> QED BY <1>6, <1>7, <3>1
  <2>2. ASSUME c.act # <<>>, \E e \in Nat : Reading(c, req[c.act[1]], c.act[1], e, w)
        PROVE  FALSE
    <3>1. PICK u \in Urls : u = c.act[1]
      BY <2>2, ConnFields, InTail
    <3>2. PICK e \in Nat : Reading(c, req[u], u, e, w)
      BY <2>2, <3>1
    <3>3. PICK f \in Nat : f = c.first
      BY ConnFields
    <3>4. f < Size[u] /\ e \in 1..Lasts(u, f)
      BY <3>2, <3>3 DEF Reading
    <3>5. PICK l \in Int : l = Lasts(u, f)
      <4>1. Size[u] \in Nat /\ Header(f) \in Nat
        BY Constants DEF Header
      <4> QED BY <3>3, <4>1 DEF Lasts
    <3>6. m + 1 <= l - e + 1
      BY <1>7, <3>2, <3>3, <3>5 DEF Reading
    <3>7. w[m + 1] = Response(u, f)[e + (m + 1) - 1]
      <4>1. m + 1 \in 1..Len(w)
        BY <1>6, <1>7
      <4> QED BY <3>2, <3>3, <4>1 DEF Reading
    <3>8. PICK k \in Int : k = e + m
      BY <1>6, <3>2
    <3>9. e + (m + 1) - 1 = k /\ k \in 1..l
      BY <1>6, <3>2, <3>4, <3>5, <3>6, <3>8
    <3>10. w[m + 1] = At(u, f, k)
      BY <3>4, <3>5, <3>7, <3>9, ResponseIs
    <3>11. At(u, f, k).kind \in {"status", "length", "range", "blank", "body"}
      BY <3>4, <3>5, <3>9, AtIs
    <3> QED BY <1>3, <1>7, <3>10, <3>11
  <2> QED BY <2>1, <2>2 DEF Flow
<1>9. FlowsOn(c, d, req)
  BY <1>1, <1>5, <1>8 DEF FlowsOn
<1>10. ASSUME c.readcb # "http", Shaking(c)
       PROVE  Shaking(d)
  <2>1. Len(d.inp) + Len(d.todo) <= 1
    <3>1. Len(p) + Len(q) <= 1
      BY <1>1, <1>10 DEF Shaking
    <3> QED BY <1>1, <1>3, <1>4, <1>6, <3>1 DEF Refuses
  <2>2. c.todo # <<>>
    BY <1>1, <1>3
  <2>3. c.readcb # "NULL"
    BY <1>10, <2>2 DEF Shaking
  <2>4. \A j \in 1..Len(d.inp) : d.inp[j].kind \in {"greet", "grant", "refuse"}
    BY <1>10 DEF Shaking, Refuses
  <2>5. \A j \in 1..Len(d.todo) : d.todo[j].kind \in {"greet", "grant", "refuse"}
    <3>1. \A j \in 1..Len(d.todo) : j = 1
      BY <1>4
    <3> QED BY <1>4, <3>1
  <2>6. /\ d.writecb # "http" /\ d.st = "CONNECTING" /\ d.readcb # "NULL"
        /\ d.writecb # "socks" /\ d.mev # "CONNECTING"
    BY <1>10, <2>3 DEF Shaking, Carries
  <2> QED BY <2>1, <2>4, <2>5, <2>6 DEF Shaking
<1>11. ShakesOn(c, d)
  BY <1>10 DEF ShakesOn
<1> QED BY <1>9, <1>11, CarriesSteady

-----------------------------------------------------------------------------
(* The steps.                                                              *)

\* A callback or a timer: no event is under way.
LEMMA SitsInvariant ==
    ASSUME batch = {}, batch' = {}, Sits(s')
    PROVE  WebInv'
<1>1. PICK Q : Good(s', Q) /\ (s'.abort = "no" => Q = s'.b.pending /\ Rested(s'))
  BY DEF Sits
<1>2. s' \in States /\ ~s'.misplaced
  BY <1>1 DEF Good
<1>3. s'.abort = "no" => Good(s', s'.b.pending) /\ Rested(s')
  BY <1>1
<1> QED BY <1>2, <1>3 DEF WebInv

\* A step of the network changes one connection, which some server has.
LEMMA NetworkInvariant ==
    ASSUME WebInv, Quiet, batch' = batch, NEW i \in ConnIds, s.conn[i].st # "none",
           NEW d \in Conns, Carries(s.conn[i], d),
           Steady(s.conn[i], s.req, s.proxy) => Steady(d, s.req, s.proxy),
           ConnIs(s, s', i, d)
    PROVE  WebInv'
<1>1. Good(s, s.b.pending) /\ Rested(s) /\ s \in States /\ batch' = {}
  BY DEF WebInv, Quiet, Running
<1>2. i \in Lives(s)
  <2>1. s.cbs = <<>>
    BY DEF Quiet
  <2>2. In(s.cbs) = {}
    BY <2>1, InEmpty
  <2> QED BY <1>1, <2>2 DEF Good, Sound, Doomed
<1>3. Steady(s.conn[i], s.req, s.proxy)
  BY <1>1, <1>2 DEF Good, Flows
<1>4. SameLoad(s.conn[i], d)
  BY DEF SameLoad, Carries
<1>5. Steady(d, s.req, s.proxy)
  BY <1>3
<1>6. Stays(s, s')
  BY <1>1, <1>2, <1>4, <1>5, SameLoadStays
<1> QED BY <1>1, <1>6 DEF Stays, WebInv

\* The callback that was scheduled first has been taken.
LEMMA TakenIs ==
    ASSUME NEW t \in States, t.cbs # <<>>, NEW r, r = [t EXCEPT !.cbs = Tail(@)]
    PROVE  /\ r \in States /\ r.cbs = Tail(t.cbs) /\ r.b = t.b /\ r.conn = t.conn
           /\ r.srv = t.srv /\ r.req = t.req /\ r.proxy = t.proxy /\ r.lost = t.lost
           /\ r.misplaced = t.misplaced /\ r.abort = t.abort
           /\ Head(t.cbs) = 0 => Notes(t, r)
<1>1. PICK p \in Seq(Nat) : p = t.cbs
  BY Fields
<1>2. PICK q \in Seq(Nat) : q = Tail(p)
  BY <1>1, InTail
<1>3. r = [t EXCEPT !.cbs = q]
  BY <1>1, <1>2
<1>4. r \in States
  BY <1>2, <1>3, Zenon DEF States
<1>5. /\ r.cbs = q /\ r.b = t.b /\ r.conn = t.conn
      /\ r.srv = t.srv /\ r.req = t.req /\ r.proxy = t.proxy /\ r.lost = t.lost
      /\ r.misplaced = t.misplaced /\ r.abort = t.abort
  BY <1>3 DEF States
<1>6. ASSUME Head(t.cbs) = 0 PROVE Notes(t, r)
  <2>1. In(q) \cup {0} = In(p) \cup {0}
    <3>1. In(p) = {Head(p)} \cup In(q)
      BY <1>1, <1>2, InTail
    <3> QED BY <1>1, <1>6, <3>1
  <2>2. ASSUME Once(p) PROVE Once(q)
    <3>1. Len(q) = Len(p) - 1
      BY <1>1, <1>2, InTail
    <3>2. \A j \in 1..Len(q) : q[j] = p[j + 1]
      BY <1>1, <1>2, HeadTailProperties
    <3>3. \A j \in 1..Len(q) : j + 1 \in 1..Len(p)
      BY <3>1
    <3>4. ASSUME NEW j \in 1..Len(q), NEW k \in 1..Len(q), q[j] = q[k], q[j] # 0
          PROVE  j = k
      <4>1. p[j + 1] = p[k + 1] /\ p[j + 1] # 0 /\ j + 1 \in 1..Len(p) /\ k + 1 \in 1..Len(p)
        BY <3>2, <3>3, <3>4
      <4>2. j + 1 = k + 1
        BY <2>2, <4>1 DEF Once
      <4> QED BY <4>2
    <3> QED BY <3>4 DEF Once
  <2> QED BY <1>1, <1>4, <1>5, <2>1, <2>2 DEF Notes
<1> QED BY <1>1, <1>2, <1>4, <1>5, <1>6

LEMMA CallbackInvariant ==
    ASSUME WebInv, Callback, ConnIds = Nat \ {0}
    PROVE  WebInv'
<1>1. Good(s, s.b.pending) /\ Rested(s) /\ s \in States /\ s.cbs # <<>>
      /\ batch = {} /\ batch' = {} /\ s.abort = "no"
  BY DEF WebInv, Callback, Running
<1>2. PICK t : t = [s EXCEPT !.cbs = Tail(@)]
  OBVIOUS
<1>3. /\ t \in States /\ t.cbs = Tail(s.cbs) /\ t.b = s.b /\ t.conn = s.conn
      /\ t.srv = s.srv /\ t.req = s.req /\ t.proxy = s.proxy /\ t.lost = s.lost
      /\ t.misplaced = s.misplaced /\ t.abort = s.abort
  BY <1>1, <1>2, TakenIs
<1>4. CASE Head(s.cbs) = 0
  <2>1. Notes(s, t)
    BY <1>1, <1>2, <1>4, TakenIs
  <2>2. Good(t, t.b.pending)
    BY <1>1, <1>3, <2>1, NotesKeep
  <2>3. Rested(t)
    BY <1>1, <1>3 DEF Rested
  <2>4. Sits(OnNotified(t))
    BY <1>3, <2>2, <2>3, NotifiedKeeps
  <2>5. s' = OnNotified(t)
    BY <1>2, <1>4 DEF Callback
  <2> QED BY <1>1, <2>4, <2>5, SitsInvariant
<1>5. CASE Head(s.cbs) # 0
  <2>1. PICK k : k = Head(s.cbs)
    OBVIOUS
  <2>2. k \in In(s.cbs)
    BY <1>1, <2>1, Fields, InTail
  <2>3. k \in ConnIds
    BY <1>1, <1>5, <2>1, <2>2 DEF Good, Sound, Doomed
  <2>4. PICK r : r = PutConn(t, k, NoConn)
    OBVIOUS
  <2>5. ConnIs(t, r, k, NoConn)
    BY <1>3, <2>3, <2>4, NoConnIs, ConnPut
  <2>6. /\ r \in States /\ r.conn[k] = NoConn /\ \A j \in ConnIds : j # k => r.conn[j] = s.conn[j]
        /\ r.srv = s.srv /\ r.req = s.req /\ r.proxy = s.proxy /\ r.lost = s.lost
        /\ r.misplaced = s.misplaced /\ r.abort = s.abort /\ r.cbs = Tail(s.cbs) /\ r.b = s.b
    BY <1>3, <2>5 DEF ConnIs
  <2>7. Good(r, s.b.pending)
    BY <1>1, <2>1, <2>3, <2>6, Deleted
  <2>8. Good(r, r.b.pending) /\ Rested(r)
    BY <1>1, <2>6, <2>7 DEF Rested
  <2>9. s' = r
    BY <1>2, <1>5, <2>1, <2>4 DEF Callback, PutConn
  <2>10. Sits(s')
    BY <2>8, <2>9 DEF Sits
  <2> QED BY <1>1, <2>10, SitsInvariant
<1> QED BY <1>4, <1>5

LEMMA NapEndsInvariant ==
    ASSUME WebInv, NapEnds
    PROVE  WebInv'
<1>1. Good(s, s.b.pending) /\ Rested(s) /\ s \in States /\ s.cbs = <<>>
      /\ batch = {} /\ batch' = {} /\ s.abort = "no"
  BY DEF WebInv, NapEnds, Quiet, Running
<1>2. PICK q \in Seq(Nat) : q = <<0>> /\ In(q) = {0} /\ Len(q) = 1
  BY InOne
<1>3. s' = [s EXCEPT !.nap = FALSE, !.cbs = q]
  BY <1>2 DEF NapEnds
<1>4. s' \in States
  <2>1. FALSE \in BOOLEAN
    OBVIOUS
  <2> QED BY <1>1, <1>2, <1>3, <2>1, Zenon DEF States
<1>5. /\ s'.cbs = q /\ s'.b = s.b /\ s'.conn = s.conn /\ s'.srv = s.srv /\ s'.req = s.req
      /\ s'.proxy = s.proxy /\ s'.lost = s.lost /\ s'.misplaced = s.misplaced
      /\ s'.abort = s.abort
  BY <1>1, <1>3 DEF States
<1>6. Once(q)
  BY <1>2 DEF Once
<1>7. In(q) \cup {0} = In(s.cbs) \cup {0}
  BY <1>1, <1>2, InEmpty
<1>8. Notes(s, s')
  BY <1>1, <1>4, <1>5, <1>6, <1>7 DEF Notes
<1>9. Good(s', s'.b.pending)
  BY <1>1, <1>5, <1>8, NotesKeep
<1>10. Rested(s')
  BY <1>1, <1>5 DEF Rested
<1>11. Sits(s')
  BY <1>9, <1>10 DEF Sits
<1> QED BY <1>1, <1>11, SitsInvariant

LEMMA TimerFiresInvariant ==
    ASSUME WebInv, TimerFires
    PROVE  WebInv'
<1>1. Good(s, s.b.pending) /\ Rested(s) /\ s \in States /\ s.timers # <<>>
      /\ batch = {} /\ batch' = {} /\ s.abort = "no"
  BY DEF WebInv, TimerFires, Running
<1>2. PICK q \in Seq(Nat) : q = Tail(s.timers)
  BY <1>1, InTail DEF States
<1>3. PICK t : t = PutTimers(s, q)
  OBVIOUS
<1>4. Notes(s, t) /\ t.b = s.b
  BY <1>1, <1>3, TimersPut
<1>5. Good(t, t.b.pending) /\ t \in States
  BY <1>1, <1>4, NotesKeep DEF Notes
<1>6. Rested(t)
  BY <1>1, <1>4 DEF Rested
<1>7. s' = OnTimeout(t, Head(s.timers))
  BY <1>2, <1>3 DEF TimerFires, PutTimers
<1>8. Sits(s')
  BY <1>5, <1>6, <1>7, TimeoutKeeps
<1> QED BY <1>1, <1>8, SitsInvariant

LEMMA ActivateInvariant ==
    ASSUME WebInv, Activate
    PROVE  WebInv'
<1>1. Good(s, s.b.pending) /\ Rested(s) /\ s \in States /\ ~s.misplaced /\ s.cbs = <<>>
      /\ s' = s /\ s.abort = "no"
  BY DEF WebInv, Activate, Quiet, Running
<1>2. \A c : Ready(c) \in SUBSET {"IN", "OUT"}
  BY DEF Ready
<1>3. Ready(NoConn) = {}
  BY DEF Ready, NoConn
<1>4. PICK B : B = {[i |-> i, what |-> Ready(s.conn[i])] :
                       i \in {j \in ConnIds : Ready(s.conn[j]) # {}}}
  OBVIOUS
<1>5. batch' = B
  BY <1>4 DEF Activate
<1>6. B \in SUBSET [i : ConnIds, what : SUBSET {"IN", "OUT"}]
  BY <1>2, <1>4
<1>7. ASSUME NEW e \in B PROVE e.i \in Lives(s)
  <2>1. e.i \in ConnIds /\ Ready(s.conn[e.i]) # {}
    BY <1>4
  <2>2. s.conn[e.i].st # "none"
    BY <1>1, <1>3, <2>1 DEF Good, Sound, Blank
  <2>3. In(s.cbs) = {}
    BY <1>1, InEmpty
  <2> QED BY <1>1, <2>1, <2>2, <2>3 DEF Good, Sound, Doomed
<1>8. \A d, e \in B : d.i = e.i => d = e
  BY <1>4
<1> QED BY <1>1, <1>5, <1>6, <1>7, <1>8 DEF WebInv

LEMMA TriggerInvariant ==
    ASSUME WebInv, Trigger, ConnIds = Nat \ {0}
    PROVE  WebInv'
<1>1. Good(s, s.b.pending) /\ Rested(s) /\ s \in States /\ s.abort = "no"
  BY DEF WebInv, Trigger, Running
<1>2. PICK e \in batch : s' = Triggered(s, e) /\ batch' = batch \ {e}
  BY DEF Trigger
<1>3. /\ batch \in SUBSET [i : ConnIds, what : SUBSET {"IN", "OUT"}]
      /\ \A d \in batch : d.i \in Lives(s)
      /\ \A c, d \in batch : c.i = d.i => c = d
  BY <1>1 DEF WebInv
<1>4. Survives(s, s', e.i)
  BY <1>1, <1>2, <1>3, TriggeredKeeps
<1>5. s' \in States /\ ~s'.misplaced
  BY <1>4 DEF Survives
<1>6. ASSUME s'.abort = "no"
      PROVE  /\ Good(s', s'.b.pending) /\ Rested(s')
             /\ \A d \in batch' : d.i \in Lives(s')
             /\ \A c, d \in batch' : c.i = d.i => c = d
  <2>1. Good(s', s'.b.pending) /\ Rested(s')
        /\ \A j \in Lives(s) : j # e.i => j \in Lives(s')
    BY <1>4, <1>6 DEF Survives, SettledBut
  <2> QED BY <1>2, <1>3, <2>1
<1>7. batch' \in SUBSET [i : ConnIds, what : SUBSET {"IN", "OUT"}]
  BY <1>2, <1>3
<1> QED BY <1>5, <1>6, <1>7 DEF WebInv

LEMMA EstablishIs ==
    ASSUME WebInv, Establish
    PROVE  \E i \in ConnIds, d \in Conns :
              s.conn[i].st # "none" /\ Looks(s.conn[i], d) /\ ConnIs(s, s', i, d)
<1>1. s \in States /\ Quiet /\ batch' = batch
  BY DEF WebInv, Establish
<1>2. PICK i \in ConnIds : s.conn[i].st = "CONNECTING" /\ s' = [s EXCEPT !.conn[i].up = TRUE]
  BY DEF Establish
<1>3. PICK c \in Conns : c = s.conn[i]
  BY <1>1, <1>2, Fields
<1>4. PICK d : d = [c EXCEPT !.up = TRUE]
  OBVIOUS
<1>5. d \in Conns
  BY <1>3, <1>4 DEF Conns
<1>6. Looks(c, d)
  BY <1>3, <1>4 DEF Conns, Looks, Seems
<1>7. s' = PutConn(s, i, d)
  BY <1>2, <1>3, <1>4, Zenon DEF PutConn
<1>8. ConnIs(s, s', i, d)
  BY <1>1, <1>2, <1>5, <1>7, ConnPut
<1> QED BY <1>2, <1>3, <1>5, <1>6, <1>8

LEMMA EstablishInvariant ==
    ASSUME WebInv, Establish
    PROVE  WebInv'
<1>1. s \in States /\ Quiet /\ batch' = batch
  BY DEF WebInv, Establish
<1>2. PICK i \in ConnIds, d \in Conns :
              s.conn[i].st # "none" /\ Looks(s.conn[i], d) /\ ConnIs(s, s', i, d)
  BY EstablishIs
<1>3. Carries(s.conn[i], d)
  BY <1>2 DEF Looks, Seems, Carries
<1>4. Steady(s.conn[i], s.req, s.proxy) => Steady(d, s.req, s.proxy)
  BY <1>2, LooksSteady
<1> QED BY <1>1, <1>2, <1>3, <1>4, NetworkInvariant

\* A connection to which nothing was ever sent is none on which anything arrives.
LEMMA NothingAtNone ==
    ASSUME WebInv, Quiet, NEW i \in ConnIds, s.conn[i].todo # <<>>
    PROVE  s.conn[i].st # "none"
<1>1. Blank(s)
  BY DEF WebInv, Quiet, Running, Good, Sound
<1>2. NoConn.todo = <<>>
  BY DEF NoConn
<1> QED BY <1>1, <1>2 DEF Blank

\* A step that goes as the code expects is the last of a behavior that does.
LEMMA TakesEven ==
    ASSUME NEW n, NEW f, NEW so, Takes(n, f, so), odd' = {}
    PROVE  odd = {} /\ ~so
BY DEF Takes

\* What arrives, at one connection.
Arrives(i, k, d) ==
    /\ k \in 1..Len(s.conn[i].todo) /\ Delivered(s.conn[i], d, k)
    /\ odd' = {} => ~Splits(s.conn[i].todo, k)
    /\ Carries(s.conn[i], d) /\ ConnIs(s, s', i, d) /\ s.conn[i].st # "none"

LEMMA ArriveIs ==
    ASSUME WebInv, Arrive
    PROVE  \E i \in ConnIds, d \in Conns : \E k : Arrives(i, k, d)
<1>1. s \in States /\ Quiet /\ batch' = batch
  BY DEF WebInv, Arrive
<1>2. PICK i \in ConnIds : \E k \in 1..Len(s.conn[i].todo) :
          /\ s' = [s EXCEPT !.conn[i].todo = SubSeq(@, k + 1, Len(@)),
                            !.conn[i].inp = @ \o SubSeq(s.conn[i].todo, 1, k)]
          /\ Takes(0, "split", Splits(s.conn[i].todo, k))
  BY Zenon DEF Arrive
<1>3. PICK k \in 1..Len(s.conn[i].todo) :
          /\ s' = [s EXCEPT !.conn[i].todo = SubSeq(@, k + 1, Len(@)),
                            !.conn[i].inp = @ \o SubSeq(s.conn[i].todo, 1, k)]
          /\ Takes(0, "split", Splits(s.conn[i].todo, k))
  BY <1>2, Zenon
<1>4. PICK c \in Conns : c = s.conn[i]
  BY <1>1, <1>2, Fields
<1>5. k \in 1..Len(c.todo)
  BY <1>3, <1>4
<1>6. PICK p : p = c.inp \o SubSeq(c.todo, 1, k)
  OBVIOUS
<1>7. PICK q : q = SubSeq(c.todo, k + 1, Len(c.todo))
  OBVIOUS
<1>8. PICK e : e = [c EXCEPT !.todo = q]
  OBVIOUS
<1>9. PICK d : d = [e EXCEPT !.inp = p]
  OBVIOUS
<1>10. d.inp = p /\ d.todo = q /\ d.closed = c.closed
  BY <1>4, <1>8, <1>9 DEF Conns
<1>11. Delivered(c, d, k)
  BY <1>5, <1>6, <1>7, <1>10 DEF Delivered
<1>12. p \in Seq(Units) /\ q \in Seq(Units)
  BY <1>10, <1>11, DeliveredIs
<1>13. e \in Conns /\ d \in Conns
  <2>1. e \in Conns
    BY <1>8, <1>12, Zenon DEF Conns
  <2> QED BY <1>9, <1>12, <2>1, Zenon DEF Conns
<1>14. Carries(c, d)
  BY <1>4, <1>8, <1>9 DEF Conns, Carries
<1>15. PICK w : w = PutConn(s, i, e)
  OBVIOUS
<1>16. ConnIs(s, w, i, e)
  BY <1>1, <1>2, <1>13, <1>15, ConnPut
<1>17. s' = PutConn(w, i, d)
  <2>1. w = [s EXCEPT !.conn[i].todo = q]
    BY <1>4, <1>7, <1>8, <1>15, Zenon DEF PutConn
  <2>2. s' = [w EXCEPT !.conn[i].inp = @ \o SubSeq(s.conn[i].todo, 1, k)]
    BY <1>3, <1>4, <1>7, <2>1, Zenon
  <2>3. w.conn[i] = e /\ e.inp = c.inp
    BY <1>4, <1>8, <1>16 DEF ConnIs, Conns
  <2>4. s' = [w EXCEPT !.conn[i].inp = p]
    BY <1>4, <1>6, <2>2, <2>3, Zenon
  <2> QED BY <1>9, <2>3, <2>4, Zenon DEF PutConn
<1>18. ConnIs(s, s', i, d)
  <2>1. s' = PutConn(s, i, d)
    BY <1>1, <1>2, <1>13, <1>15, <1>17, PutAgain
  <2> QED BY <1>1, <1>2, <1>13, <2>1, ConnPut
<1>19. s.conn[i].st # "none"
  <2>1. s.conn[i].todo # <<>>
    BY <1>4, <1>5
  <2> QED BY <1>1, <1>2, <2>1, NothingAtNone
<1>20. odd' = {} => ~Splits(s.conn[i].todo, k)
  BY <1>3, TakesEven
<1> QED BY <1>2, <1>3, <1>4, <1>11, <1>13, <1>14, <1>18, <1>19, <1>20 DEF Arrives

LEMMA ArriveInvariant ==
    ASSUME WebInv, Arrive
    PROVE  WebInv'
<1>1. s \in States /\ Quiet /\ batch' = batch
  BY DEF WebInv, Arrive
<1>2. PICK i \in ConnIds, d \in Conns : \E k : Arrives(i, k, d)
  BY ArriveIs
<1>3. PICK k : Arrives(i, k, d)
  BY <1>2
<1>4. s.conn[i] \in Conns
  BY <1>1, Fields
<1>5. Steady(s.conn[i], s.req, s.proxy) => Steady(d, s.req, s.proxy)
  BY <1>3, <1>4, DeliveredSteady DEF Arrives
<1> QED BY <1>1, <1>3, <1>5, NetworkInvariant DEF Arrives

\* The connection that is closed.
Shuts(i, d) ==
    /\ s.conn[i].st = "CONNECTED" /\ (odd' = {} => ~MayQueue(s.conn[i]))
    /\ Carries(s.conn[i], d) /\ Closes(s.conn[i], d) /\ ConnIs(s, s', i, d)

LEMMA CloseIs ==
    ASSUME WebInv, Close
    PROVE  \E i \in ConnIds, d \in Conns : Shuts(i, d)
<1>1. s \in States /\ Quiet /\ batch' = batch
  BY DEF WebInv, Close
<1>2. PICK i \in ConnIds :
          /\ s.conn[i].st = "CONNECTED" /\ Takes(1, "pending", MayQueue(s.conn[i]))
          /\ s' = [s EXCEPT !.conn[i].todo = <<>>, !.conn[i].closed = TRUE]
  BY Zenon DEF Close
<1>3. PICK c \in Conns : c = s.conn[i]
  BY <1>1, <1>2, Fields
<1>4. PICK e : e = [c EXCEPT !.todo = <<>>]
  OBVIOUS
<1>5. PICK d : d = [e EXCEPT !.closed = TRUE]
  OBVIOUS
<1>6. e \in Conns /\ d \in Conns
  <2>1. <<>> \in Seq(Units) /\ TRUE \in BOOLEAN
    BY EmptySeq
  <2>2. e \in Conns
    BY <1>4, <2>1, Zenon DEF Conns
  <2> QED BY <1>5, <2>1, <2>2, Zenon DEF Conns
<1>7. Carries(c, d) /\ Closes(c, d)
  BY <1>3, <1>4, <1>5 DEF Conns, Carries, Closes
<1>8. PICK w : w = PutConn(s, i, e)
  OBVIOUS
<1>9. w.conn[i] = e
  BY <1>1, <1>2, <1>6, <1>8, ConnPut DEF ConnIs
<1>10. s' = PutConn(w, i, d)
  <2>1. w = [s EXCEPT !.conn[i].todo = <<>>]
    BY <1>3, <1>4, <1>8, Zenon DEF PutConn
  <2>2. s' = [w EXCEPT !.conn[i].closed = TRUE]
    BY <1>2, <2>1, Zenon
  <2> QED BY <1>5, <1>9, <2>2, Zenon DEF PutConn
<1>11. ConnIs(s, s', i, d)
  <2>1. s' = PutConn(s, i, d)
    BY <1>1, <1>2, <1>6, <1>8, <1>10, PutAgain
  <2> QED BY <1>1, <1>2, <1>6, <2>1, ConnPut
<1>12. odd' = {} => ~MayQueue(s.conn[i])
  BY <1>2, TakesEven
<1> QED BY <1>2, <1>3, <1>6, <1>7, <1>11, <1>12 DEF Shuts

LEMMA CloseInvariant ==
    ASSUME WebInv, Close
    PROVE  WebInv'
<1>1. s \in States /\ Quiet /\ batch' = batch
  BY DEF WebInv, Close
<1>2. PICK i \in ConnIds, d \in Conns : Shuts(i, d)
  BY CloseIs
<1>3. s.conn[i] \in Conns
  BY <1>1, Fields
<1>4. Steady(s.conn[i], s.req, s.proxy) => Steady(d, s.req, s.proxy)
  BY <1>2, <1>3, ClosesSteady DEF Shuts
<1> QED BY <1>1, <1>2, <1>4, NetworkInvariant DEF Shuts

LEMMA RefuseIs ==
    ASSUME WebInv, Refuse
    PROVE  \E i \in ConnIds, d \in Conns :
              /\ Carries(s.conn[i], d) /\ Refuses(s.conn[i], d)
              /\ ConnIs(s, s', i, d) /\ s.conn[i].st # "none"
<1>1. s \in States /\ Quiet /\ batch' = batch
  BY DEF WebInv, Refuse
<1>2. PICK i \in ConnIds :
          /\ s.conn[i].todo = <<Unit("grant", 0)>>
          /\ s' = [s EXCEPT !.conn[i].todo = <<Unit("refuse", 0)>>]
  BY DEF Refuse
<1>3. PICK c \in Conns : c = s.conn[i]
  BY <1>1, <1>2, Fields
<1>4. "refuse" \in Kinds /\ "grant" \in Kinds
  BY DEF Kinds
<1>5. PICK q \in Seq(Units) : q = <<Unit("refuse", 0)>>
  BY <1>4, OneUnit
<1>6. PICK d : d = [c EXCEPT !.todo = q]
  OBVIOUS
<1>7. d \in Conns
  BY <1>5, <1>6, Zenon DEF Conns
<1>8. Carries(c, d)
  BY <1>3, <1>6 DEF Conns, Carries
<1>9. Refuses(c, d)
  <2>1. d.todo = q /\ d.inp = c.inp /\ d.closed = c.closed
    BY <1>3, <1>6 DEF Conns
  <2> QED BY <1>2, <1>3, <1>5, <2>1, Zenon DEF Refuses
<1>10. s' = PutConn(s, i, d)
  BY <1>2, <1>3, <1>5, <1>6, Zenon DEF PutConn
<1>11. ConnIs(s, s', i, d)
  BY <1>1, <1>2, <1>7, <1>10, ConnPut
<1>12. s.conn[i].st # "none"
  <2>1. s.conn[i].todo # <<>>
    BY <1>2, <1>4, OneUnit
  <2> QED BY <1>1, <1>2, <2>1, NothingAtNone
<1> QED BY <1>2, <1>3, <1>7, <1>8, <1>9, <1>11, <1>12

LEMMA RefuseInvariant ==
    ASSUME WebInv, Refuse
    PROVE  WebInv'
<1>1. s \in States /\ Quiet /\ batch' = batch
  BY DEF WebInv, Refuse
<1>2. PICK i \in ConnIds, d \in Conns :
              /\ Carries(s.conn[i], d) /\ Refuses(s.conn[i], d)
              /\ ConnIs(s, s', i, d) /\ s.conn[i].st # "none"
  BY RefuseIs
<1>3. s.conn[i] \in Conns
  BY <1>1, Fields
<1>4. Steady(s.conn[i], s.req, s.proxy) => Steady(d, s.req, s.proxy)
  BY <1>2, <1>3, RefusesSteady
<1> QED BY <1>1, <1>2, <1>4, NetworkInvariant

\* The process before its first load.
LEMMA StartIs ==
    ASSUME NEW g \in Settings, NEW t,
           t = [Start0 EXCEPT !.timed = g.timed, !.proxy = g.proxy, !.persist = g.persist]
    PROVE  t \in States /\ Good(t, {})
<1>1. g.timed \in BOOLEAN /\ g.proxy \in BOOLEAN /\ g.persist \in Nat
  BY ClientAssumption
<1>2. Start0 \in States
  <2>1. [i \in ConnIds |-> NoConn] \in [ConnIds -> Conns]
    BY NoConnIs
  <2>2. [h \in Hosts |-> NoServer] \in [Hosts -> Servers]
    BY DEF NoServer, Servers
  <2>3. [u \in Urls |-> NewRequest] \in [Urls -> Requests]
    BY DEF NewRequest, Requests
  <2>4. Browser \in Browsers
    BY DEF Browser, Browsers, LoadStates, Results
  <2>5. /\ <<>> \in Seq(Nat) /\ FALSE \in BOOLEAN /\ 1 \in Nat /\ "no" \in Reasons
        /\ {} \in SUBSET Urls /\ "none" \in Reports
    BY EmptySeq DEF Reasons, Reports
  <2> QED BY <2>1, <2>2, <2>3, <2>4, <2>5, Zenon DEF Start0, States
<1>3. t \in States
  BY <1>1, <1>2, Zenon DEF States
<1>4. /\ t.conn = [i \in ConnIds |-> NoConn] /\ t.srv = [h \in Hosts |-> NoServer]
      /\ t.cbs = <<>> /\ t.lost = {} /\ ~t.misplaced
  BY DEF Start0
<1>5. \A i \in ConnIds : t.conn[i] = NoConn /\ t.conn[i].st = "none"
  <2>1. NoConn.st = "none"
    BY DEF NoConn
  <2>2. \A i \in ConnIds : t.conn[i] = NoConn
    BY <1>4
  <2> QED BY <2>1, <2>2
<1>6. \A h \in Hosts : t.srv[h].reqs = <<>> /\ t.srv[h].conns = <<>>
  BY <1>4 DEF NoServer
<1>7. In(<<>>) = {} /\ Distinct(<<>>) /\ Once(<<>>)
  <2>1. Once(<<>>)
    BY DEF Once
  <2> QED BY <2>1, InEmpty
<1>8. Lives(t) = {}
  BY <1>6, <1>7 DEF Lives
<1>9. Under(t) = {}
  <2>1. Waits(t) = {}
    BY <1>6, <1>7, Constants DEF Waits
  <2>2. Rides(t) = {}
    BY <1>8 DEF Rides
  <2> QED BY <2>1, <2>2 DEF Under
<1>10. Listing(t) /\ Queues(t)
  BY <1>6, <1>7 DEF Listing, Queues
<1>11. Doomed(t)
  BY <1>4, <1>5, <1>7 DEF Doomed
<1>12. Blank(t) /\ Loads(t) /\ Apart(t)
  BY <1>5, <1>8 DEF Blank, Loads, Apart
<1>13. Finite(t)
  BY <1>5 DEF Finite
<1>14. Flows(t)
  BY <1>6, <1>7, <1>8 DEF Flows
<1>15. Counted(t, {})
  BY <1>4, <1>9 DEF Counted
<1> QED BY <1>3, <1>4, <1>10, <1>11, <1>12, <1>13, <1>14, <1>15 DEF Good, Sound

LEMMA WebInitInv ==
    ASSUME WebInit, ConnIds = Nat \ {0}
    PROVE  WebInv
<1>1. batch = {}
  BY DEF WebInit
<1>2. PICK g \in Settings :
          s = Load([Start0 EXCEPT !.timed = g.timed, !.proxy = g.proxy, !.persist = g.persist])
  BY Zenon DEF WebInit
<1>3. PICK t : t = [Start0 EXCEPT !.timed = g.timed, !.proxy = g.proxy, !.persist = g.persist]
  OBVIOUS
<1>4. t \in States /\ Good(t, {})
  BY <1>3, StartIs, Zenon
<1>5. Sits(s)
  <2>1. s = Load(t)
    BY <1>2, <1>3
  <2> QED BY <1>4, <2>1, LoadKeeps
<1>6. PICK Q : Good(s, Q) /\ (s.abort = "no" => Q = s.b.pending /\ Rested(s))
  BY <1>5 DEF Sits
<1>7. s \in States /\ ~s.misplaced
  BY <1>6 DEF Good
<1>8. s.abort = "no" => Good(s, s.b.pending) /\ Rested(s)
  BY <1>6
<1> QED BY <1>1, <1>7, <1>8 DEF WebInv

LEMMA WebInvNext ==
    ASSUME WebInv, [WebNext]_webVars, ConnIds = Nat \ {0}
    PROVE  WebInv'
<1>1. CASE Callback
  BY <1>1, CallbackInvariant
<1>2. CASE NapEnds
  BY <1>2, NapEndsInvariant
<1>3. CASE TimerFires
  BY <1>3, TimerFiresInvariant
<1>4. CASE Activate
  BY <1>4, ActivateInvariant
<1>5. CASE Trigger
  BY <1>5, TriggerInvariant
<1>6. CASE Establish
  BY <1>6, EstablishInvariant
<1>7. CASE Arrive
  BY <1>7, ArriveInvariant
<1>8. CASE Close
  BY <1>8, CloseInvariant
<1>9. CASE Refuse
  BY <1>9, RefuseInvariant
<1>10. CASE UNCHANGED webVars
  BY <1>10 DEF webVars, WebInv
<1> QED BY <1>1, <1>2, <1>3, <1>4, <1>5, <1>6, <1>7, <1>8, <1>9, <1>10
        DEF WebNext, Plugin, Network

-----------------------------------------------------------------------------
(* The theorems.                                                           *)

\* The invariant holds in every state of the web client, when there is no bound on
\* the Connection objects.
THEOREM WebInvariant ==
    ASSUME ConnIds = Nat \ {0}
    PROVE  WebSpec => []WebInv
<1>1. WebInit => WebInv
  BY WebInitInv
<1>2. WebInv /\ [WebNext]_webVars => WebInv'
  BY WebInvNext
<1> QED BY <1>1, <1>2, PTL DEF WebSpec

\* Every body is put together in order, without a gap and without a piece twice,
\* whatever arrives in pieces, is closed, refused, retried or timed out
\* (first_byte_pos and http_receive in connection.cc, retry_requests in
\* connection_manager.cc).
THEOREM BodiesAreWhole ==
    ASSUME ConnIds = Nat \ {0}
    PROVE  WebSpec => []BodiesWhole
<1>1. WebInv => BodiesWhole
  BY DEF WebInv, BodiesWhole
<1> QED BY <1>1, WebInvariant, PTL

\* A request is at most once in a queue.
LEMMA HeldIs ==
    ASSUME NEW q \in Seq(Urls), Distinct(q), NEW u
    PROVE  Held(q, u) = IF u \in In(q) THEN 1 ELSE 0
<1>1. CASE u \in In(q)
  <2>1. PICK k \in 1..Len(q) : q[k] = u
    BY <1>1 DEF In
  <2>2. {j \in 1..Len(q) : q[j] = u} = {k}
    BY <2>1 DEF Distinct
  <2> QED BY <1>1, <2>2, FS_Singleton DEF Held
<1>2. CASE u \notin In(q)
  <2>1. {j \in 1..Len(q) : q[j] = u} = {}
    BY <1>2 DEF In
  <2> QED BY <1>2, <2>1, FS_EmptySet DEF Held
<1> QED BY <1>1, <1>2

\* At most one connection has a request.
LEMMA HoldersAre ==
    ASSUME Good(s, s.b.pending), NEW u \in Urls
    PROVE  Cardinality(Holders(u)) = IF u \in Rides(s) THEN 1 ELSE 0
<1>1. \A i, h : Contains(s.srv[h].conns, i) <=> i \in In(s.srv[h].conns)
  BY DEF Contains, In
<1>2. ASSUME NEW i \in Lives(s)
      PROVE  Contains(s.conn[i].sub \o s.conn[i].act, u) <=> u \in On(s.conn[i])
  <2>1. PICK p \in Seq(Urls), q \in Seq(Urls) : p = s.conn[i].sub /\ q = s.conn[i].act
    BY Fields, ConnFields DEF Good, Lives
  <2>2. In(p \o q) = In(p) \cup In(q)
    BY <2>1, InConcat
  <2>3. Contains(p \o q, u) <=> u \in In(p \o q)
    BY DEF Contains, In
  <2> QED BY <2>1, <2>2, <2>3 DEF On
<1>3. Holders(u) = {i \in Lives(s) : u \in On(s.conn[i])}
  BY <1>1, <1>2 DEF Holders, Live, Lives
<1>4. CASE u \in Rides(s)
  <2>1. PICK i \in Lives(s) : u \in On(s.conn[i])
    BY <1>4 DEF Rides
  <2>2. Holders(u) = {i}
    BY <1>3, <2>1 DEF Good, Sound, Apart
  <2> QED BY <1>4, <2>2, FS_Singleton
<1>5. CASE u \notin Rides(s)
  <2>1. Holders(u) = {}
    BY <1>3, <1>5 DEF Rides
  <2> QED BY <1>5, <2>1, FS_EmptySet
<1> QED BY <1>4, <1>5

LEMMA Conserved ==
    ASSUME WebInv, s.abort = "no"
    PROVE  RequestsConserved
<1>1. Good(s, s.b.pending) /\ s \in States
  BY DEF WebInv
<1>2. Sound(s) /\ Counted(s, s.b.pending)
  BY <1>1 DEF Good
<1> SUFFICES ASSUME NEW u \in Urls
             PROVE  Held(s.srv[Host[u]].reqs, u) + Cardinality(Holders(u))
                      + (IF u \in s.lost THEN 1 ELSE 0) = IF u \in s.b.pending THEN 1 ELSE 0
  BY DEF RequestsConserved
<1>3. Held(s.srv[Host[u]].reqs, u) = IF u \in Waits(s) THEN 1 ELSE 0
  <2>1. s.srv[Host[u]].reqs \in Seq(Urls) /\ Distinct(s.srv[Host[u]].reqs)
    BY <1>1, <1>2, Fields, Constants DEF Sound, Queues
  <2>2. u \in Waits(s) <=> u \in In(s.srv[Host[u]].reqs)
    BY DEF Waits
  <2> QED BY <2>1, <2>2, HeldIs
<1>4. Cardinality(Holders(u)) = IF u \in Rides(s) THEN 1 ELSE 0
  BY <1>1, HoldersAre
<1>5. ~(u \in Waits(s) /\ u \in Rides(s))
  BY <1>1, <1>2, Exclusive DEF Rides
<1>6. u \in s.b.pending <=> u \in Waits(s) \/ u \in Rides(s) \/ u \in s.lost
  BY <1>2 DEF Counted, Under
<1>7. u \in s.lost => u \notin Waits(s) /\ u \notin Rides(s)
  BY <1>2 DEF Counted, Under
<1> QED BY <1>3, <1>4, <1>5, <1>6, <1>7

\* As long as the process runs, every request the browser waits for is in one place:
\* once in its server's queue, or with one connection, or it was lost with the entry of
\* its server (submit_request, cnx_request_done_cb and release_conn in
\* connection_manager.cc, pending_ in browser.cc).
THEOREM RequestsAreConserved ==
    ASSUME ConnIds = Nat \ {0}
    PROVE  WebSpec => []RequestsConserved
<1>1. WebInv => RequestsConserved
  <2>1. WebInv /\ Running => RequestsConserved
    BY Conserved DEF Running
  <2>2. ~Running => RequestsConserved
    BY DEF RequestsConserved
  <2> QED BY <2>1, <2>2
<1> QED BY <1>1, WebInvariant, PTL

=============================================================================
