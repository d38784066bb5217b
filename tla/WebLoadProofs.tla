--------------------------- MODULE WebLoadProofs ---------------------------
(***************************************************************************)
(* Machine-checked proofs about the loads of the web client, for any page  *)
(* that names no object twice, any settings and any number of connections  *)
(* and of loads: no assertion fails, and no load waits for nothing, before *)
(* something happens that the code is not written for (odd).               *)
(***************************************************************************)
EXTENDS WebClientProofs

-----------------------------------------------------------------------------
(* What has to be added to WebInv.                                         *)

\* The objects that V names.
Named(V) == UNION {{Links[v][k].url : k \in 1..Len(Links[v])} : v \in V}

\* A response begins with its header or, when that was read, with its body; it comes
\* to its last unit.
Begins(q) == q # <<>> => q[1].kind \notin {"length", "range", "blank"}
Ends(q, u) == q # <<>> /\ q[Len(q)] = Unit("body", Size[u] - 1)

\* A connection has the events enabled that it waits for, and a closed one has no
\* request behind the one under way.
Neat(c) ==
    /\ c.wen <=> c.writecb = "http"
    /\ c.st = "CONNECTING" => c.out /\ c.sub = <<>> /\ ~c.closed
    /\ c.mev = "CONNECTING" => c.st = "CONNECTING"
    /\ c.st = "CONNECTING" /\ c.readcb = "http" => c.mev = "CONNECTING"
    /\ c.out /\ c.readcb = "http" => c.writecb = "http"
    /\ c.closed => c.sub = <<>> /\ c.todo = <<>> /\ (c.inp # <<>> => In(c.act) \cap Scripts = {})
    /\ Begins(c.todo)
    /\ c.readcb = "NULL" => c.writecb = "socks"
    /\ c.readcb = "socks" => c.inp # <<>> \/ c.todo # <<>>
    /\ c.act # <<>> /\ ~c.out /\ ~c.closed => Ends(c.inp \o c.todo, c.act[1])
Flushed(c) == c.act = <<>> => c.sub = <<>>

\* Connection i may be in the middle of a response, or between two.
Neats(t, i) ==
    \A j \in Lives(t) :
        Neat(t.conn[j]) /\ (j # i => Flushed(t.conn[j]) /\ Begins(t.conn[j].inp))
Busy(t, i) ==
    \A h \in Hosts : t.srv[h].reqs # <<>> =>
        /\ t.srv[h].conns # <<>>
        /\ \A j \in In(t.srv[h].conns) : j = i \/ t.conn[j].act # <<>>
Mild(t, i) == t.abort = "no" /\ t.persist # 0 /\ Neats(t, i) /\ Busy(t, i)

\* What one connection does leaves the others what they have to read.
Like(c, d) == d.st = c.st /\ d.readcb = c.readcb /\ d.inp = c.inp /\ d.closed = c.closed
Likes(t, r) == \A j \in Lives(t) : j \in Lives(r) /\ Like(t.conn[j], r.conn[j])

\* What the manager leaves alone.
Aside(t, r) ==
    /\ r.b = t.b /\ r.cbs = t.cbs /\ r.nap = t.nap /\ r.timers = t.timers
    /\ r.timed = t.timed /\ r.persist = t.persist /\ r.abort = t.abort

LEMMA AsidePut ==
    ASSUME NEW t \in States
    PROVE  /\ \A i \in ConnIds : \A d : Aside(t, PutConn(t, i, d))
           /\ \A h \in Hosts : \A q : Aside(t, PutReqs(t, h, q)) /\ Aside(t, PutConns(t, h, q))
           /\ \A u \in Urls : \A x : Aside(t, PutReq(t, u, x))
BY DEF States, Aside, PutConn, PutReqs, PutConns, PutReq

LEMMA LikesOn ==
    ASSUME NEW t, NEW r, NEW v, Likes(t, r), Likes(r, v)
    PROVE  Likes(t, v)
BY DEF Likes, Like

\* The write event of a connection that has a request to write.
LEMMA WrittenWrites ==
    ASSUME NEW c \in Conns, NEW req, \A u \in Urls : req[u] \in Requests,
           c.wen <=> c.writecb = "http"
    PROVE  LET d == Written(c, req)
           IN  /\ d.wen <=> d.writecb = "http"
               /\ c.sub # <<>> /\ c.act = <<>> /\ c.st = "CONNECTED" => d.writecb = "http"
               /\ c.st # "CONNECTED" => d.writecb = c.writecb
<1>1. CASE c.sub = <<>> \/ c.act # <<>>
  BY <1>1 DEF Written
<1>2. CASE c.sub # <<>> /\ c.act = <<>>
  <2>1. PICK d : d = [c EXCEPT !.sub = Tail(@), !.act = Append(@, Head(c.sub)),
                               !.first = FirstByte(c, req[Head(c.sub)]), !.out = TRUE]
    OBVIOUS
  <2>2. Written(c, req) = IF c.st = "CONNECTED" THEN EnableWrite(d) ELSE d
    BY <1>2, <2>1, Zenon DEF Written
  <2>3. d.wen = c.wen /\ d.writecb = c.writecb
    BY <2>1 DEF Conns
  <2>4. EnableWrite(d).wen /\ EnableWrite(d).writecb = "http"
    <3>1. CASE d.wen
      BY <2>3, <3>1 DEF EnableWrite
    <3>2. CASE ~d.wen
      BY <2>1, <3>2 DEF EnableWrite, Conns
    <3> QED BY <3>1, <3>2
  <2> QED BY <2>2, <2>3, <2>4
<1> QED BY <1>1, <1>2

\* A connection that is connected, and a request that is submitted to it.
Accepts(c) ==
    /\ c.st = "CONNECTED" /\ c.readcb = "http"
    /\ (c.act = <<>> /\ c.inp = <<>> /\ c.todo = <<>>) \/ (c.act # <<>> /\ ~c.closed)

LEMMA TakenOn ==
    ASSUME NEW c \in Conns, Neat(c), Accepts(c), NEW u \in Urls, NEW d \in Conns,
           Burdens(c, d, u), NEW req, \A v \in Urls : req[v] \in Requests,
           NEW e, e = Written(d, req), Wrote(d, e, req)
    PROVE  Neat(e) /\ Flushed(e) /\ Like(c, e) /\ e.act # <<>>
<1>1. c.sub \in Seq(Urls)
  BY ConnFields
<1>2. /\ d.sub = Append(c.sub, u) /\ d.act = c.act /\ d.st = c.st /\ d.readcb = c.readcb
      /\ d.mev = c.mev /\ d.inp = c.inp /\ d.todo = c.todo /\ d.out = c.out
      /\ d.closed = c.closed /\ d.wen = c.wen /\ d.writecb = c.writecb
  BY DEF Conns, Burdens
<1>3. d.sub # <<>>
  BY <1>1, <1>2, InAppend
<1>4. e.wen <=> e.writecb = "http"
  BY <1>2, WrittenWrites DEF Neat
<1>5. Like(c, e) /\ e.todo = c.todo /\ e.mev = c.mev
  BY <1>2 DEF Wrote, Like
<1>6. CASE c.act = <<>>
  <2>1. c.inp = <<>> /\ c.todo = <<>> /\ e.act = <<Head(d.sub)>> /\ e.out /\ e.sub = Tail(d.sub)
    BY <1>2, <1>3, <1>6 DEF Accepts, Wrote
  <2>2. e.act # <<>>
    BY <2>1
  <2>3. e.writecb = "http"
    BY <1>2, <1>3, <1>6, WrittenWrites DEF Neat, Accepts
  <2>4. e.closed => e.sub = <<>> /\ e.todo = <<>>
    <3> SUFFICES ASSUME e.closed PROVE e.sub = <<>>
      BY <1>5, <2>1
    <3>1. c.sub = <<>>
      BY <1>5 DEF Like, Neat
    <3> QED BY <1>2, <2>1, <3>1
  <2>5. e.st = "CONNECTED" /\ e.inp = <<>> /\ e.todo = <<>> /\ e.readcb = c.readcb
    BY <1>5, <2>1 DEF Like, Accepts
  <2>6. e.readcb # "NULL" /\ e.readcb # "socks"
    BY <2>5 DEF Accepts
  <2>7. e.mev # "CONNECTING"
    BY <1>5 DEF Neat, Accepts
  <2>8. Neat(e)
    BY <1>4, <2>1, <2>3, <2>4, <2>5, <2>6, <2>7 DEF Neat, Begins
  <2> QED BY <1>5, <2>2, <2>8 DEF Flushed
<1>7. CASE c.act # <<>>
  <2>1. e = d /\ ~c.closed
    BY <1>2, <1>7 DEF Accepts, Wrote
  <2>2. Neat(e)
    BY <1>2, <1>4, <2>1 DEF Neat, Accepts
  <2> QED BY <1>2, <1>5, <1>7, <2>1, <2>2 DEF Flushed
<1> QED BY <1>6, <1>7

\* What the request at the front of a server's queue does to one of its connections.
Fronts(t, r, i, e) ==
    /\ r \in States /\ r.conn[i] = e /\ \A j \in ConnIds : j # i => r.conn[j] = t.conn[j]
    /\ r.srv[t.conn[i].host].reqs = Tail(t.srv[t.conn[i].host].reqs)
    /\ r.srv[t.conn[i].host].conns = t.srv[t.conn[i].host].conns
    /\ \A h \in Hosts : h # t.conn[i].host => r.srv[h] = t.srv[h]
    /\ Aside(t, r)

LEMMA FrontIs ==
    ASSUME NEW t \in States, NEW i \in ConnIds, t.conn[i].st # "none",
           t.conn[i].host \in Hosts, t.srv[t.conn[i].host].reqs # <<>>
    PROVE  \E u \in Urls, d, e \in Conns :
              /\ Burdens(t.conn[i], d, u)
              /\ e = Written(d, t.req) /\ Wrote(d, e, t.req)
              /\ Fronts(t, SubmitFront(t, i), i, e)
<1>1. PICK h \in Hosts : h = t.conn[i].host
  OBVIOUS
<1>2. t.conn[i] \in Conns
  BY Fields
<1>3. PICK q \in Seq(Urls) : q = t.srv[h].reqs
  BY Fields
<1>4. PICK u \in Urls : u = Head(q)
  BY <1>1, <1>3, InTail
<1>5. PICK w \in Seq(Urls) : w = Tail(q)
  BY <1>1, <1>3, InTail
<1>6. PICK m : m = PutReqs(t, h, w)
  OBVIOUS
<1>7. ReqsIs(t, m, h, w) /\ Aside(t, m)
  BY <1>6, ReqsPut, AsidePut
<1>8. PICK d, e \in Conns :
          /\ Burdens(t.conn[i], d, u)
          /\ e = Written(d, t.req) /\ Wrote(d, e, t.req)
          /\ ConnSubmit(t, i, u) = PutConn(t, i, e)
  BY <1>2, SubmittedIs
<1>9. PICK r : r = SubmitFront(t, i)
  OBVIOUS
<1>10. r = PutConn(m, i, e)
  <2>1. PICK v : v = PutConn(t, i, e)
    OBVIOUS
  <2>2. v.srv = t.srv
    <3>1. ConnIs(t, v, i, e)
      BY <1>2, <1>8, <2>1, ConnPut, Zenon
    <3> QED BY <3>1 DEF ConnIs
  <2>3. r = [v EXCEPT !.srv[h].reqs = Tail(@)]
    BY <1>1, <1>3, <1>4, <1>8, <1>9, <2>1, Zenon DEF SubmitFront
  <2>4. r = PutReqs(v, h, w)
    BY <1>3, <1>5, <2>2, <2>3, Zenon DEF PutReqs
  <2>5. PutReqs(v, h, w) = PutConn(m, i, e)
    BY <1>2, <1>6, <1>8, <2>1, PutTwice
  <2> QED BY <2>4, <2>5
<1>11. m \in States
  BY <1>7 DEF ReqsIs
<1>12. ConnIs(m, r, i, e) /\ Aside(m, r)
  BY <1>8, <1>10, <1>11, ConnPut, AsidePut
<1>13. Fronts(t, r, i, e)
  BY <1>1, <1>3, <1>5, <1>7, <1>12 DEF ConnIs, ReqsIs, Aside, Fronts
<1> QED BY <1>8, <1>9, <1>13

\* What submit_request does with request u of host h, m being the state in which u waits.
Submits(t, h, m, r) ==
    \/ \E j \in In(t.srv[h].conns) :
          t.conn[j].sub = <<>> /\ t.conn[j].act = <<>> /\ r = SubmitFront(m, j)
    \/ /\ \A j \in In(t.srv[h].conns) : ~(t.conn[j].sub = <<>> /\ t.conn[j].act = <<>>)
       /\ \/ Len(t.srv[h].conns) >= t.persist /\ r = m
          \/ LET new == FreeId(t)
                 x == PutConn(m, new, NewConnection(h, t.proxy))
             IN  r = SubmitFront(PutConns(x, h, Append(t.srv[h].conns, new)), new)

LEMMA SubmitIs ==
    ASSUME NEW t \in States, Sound(t), NEW u \in Urls, NEW h, h = Host[u]
    PROVE  Submits(t, h, PutReqs(t, h, Append(t.srv[h].reqs, u)), SubmitRequest(t, u))
<1>1. h \in Hosts
  BY Constants
<1>2. PICK m : m = PutReqs(t, h, Append(t.srv[h].reqs, u))
  OBVIOUS
<1>3. [t EXCEPT !.srv[h].reqs = Append(@, u)] = m
  BY <1>2, Zenon DEF PutReqs
<1>4. PICK conns \in Seq(ConnIds) : conns = t.srv[h].conns
  BY <1>1, Fields
<1>5. m.srv[h].conns = conns
  <2>1. ReqsIs(t, m, h, Append(t.srv[h].reqs, u))
    <3>1. Append(t.srv[h].reqs, u) \in Seq(Urls)
      BY <1>1, Fields, InAppend
    <3> QED BY <1>1, <1>2, <3>1, ReqsPut
  <2> QED BY <1>4, <2>1 DEF ReqsIs
<1>6. PICK idle : idle = {k \in DOMAIN conns : QueueSize(t.conn[conns[k]]) = 0}
  OBVIOUS
<1>7. PICK new : new = FreeId(t)
  OBVIOUS
<1>8. PICK joined : joined = [m EXCEPT !.conn[new] = NewConnection(h, t.proxy),
                                       !.srv[h].conns = Append(@, new)]
  OBVIOUS
<1>9. joined = PutConns(PutConn(m, new, NewConnection(h, t.proxy)), h, Append(conns, new))
  <2>1. joined = [m EXCEPT !.conn[new] = NewConnection(h, t.proxy),
                           !.srv[h].conns = Append(conns, new)]
    BY <1>5, <1>8, Zenon
  <2> QED BY <2>1, Zenon DEF PutConn, PutConns
<1>10. PICK r : r = SubmitRequest(t, u)
  OBVIOUS
<1>11. r = IF idle # {} THEN SubmitFront(m, conns[Min(idle)])
           ELSE IF Len(conns) >= t.persist THEN m
           ELSE SubmitFront(joined, new)
  <2> DEFINE h2 == Host[u]
             m2 == [t EXCEPT !.srv[h2].reqs = Append(@, u)]
             conns2 == t.srv[h2].conns
             idle2 == {k \in DOMAIN conns2 : QueueSize(t.conn[conns2[k]]) = 0}
             new2 == FreeId(t)
             joined2 == [m2 EXCEPT !.conn[new2] = NewConnection(h2, t.proxy),
                                   !.srv[h2].conns = Append(@, new2)]
  <2>1. r = IF idle2 # {} THEN SubmitFront(m2, conns2[Min(idle2)])
            ELSE IF Len(conns2) >= t.persist THEN m2
            ELSE SubmitFront(joined2, new2)
    BY <1>10, Zenon DEF SubmitRequest
  <2>2. h2 = h /\ new2 = new
    BY <1>7
  <2>3. m2 = m
    BY <1>3
  <2>4. conns2 = conns
    BY <1>4
  <2> HIDE DEF h2, m2, conns2, new2
  <2>5. idle2 = idle
    BY <1>6, <2>4
  <2>6. joined2 = joined
    BY <1>8, <2>2, <2>3
  <2> HIDE DEF idle2, joined2
  <2> QED BY <2>1, <2>2, <2>3, <2>4, <2>5, <2>6
<1>12. \A j \in In(conns) : QueueSize(t.conn[j]) = 0
                              <=> t.conn[j].sub = <<>> /\ t.conn[j].act = <<>>
  <2> TAKE j \in In(conns)
  <2>1. j \in ConnIds
    BY InEmpty
  <2>2. t.conn[j].sub \in Seq(Urls) /\ t.conn[j].act \in Seq(Urls)
    BY <2>1, Fields, ConnFields
  <2>3. PICK p \in Seq(Urls), q \in Seq(Urls) : p = t.conn[j].sub /\ q = t.conn[j].act
    BY <2>2
  <2>4. Len(p) + Len(q) = 0 <=> p = <<>> /\ q = <<>>
    OBVIOUS
  <2> QED BY <2>3, <2>4 DEF QueueSize
<1>13. DOMAIN conns = 1..Len(conns)
  OBVIOUS
<1>14. CASE idle # {}
  <2>1. Min(idle) \in idle
    <3>1. idle \subseteq Nat
      BY <1>6, <1>13
    <3> QED BY <1>14, <3>1, MinIn
  <2>2. PICK j : j = conns[Min(idle)]
    OBVIOUS
  <2>3. j \in In(conns) /\ QueueSize(t.conn[j]) = 0
    BY <1>6, <1>13, <2>1, <2>2 DEF In
  <2> QED BY <1>2, <1>4, <1>10, <1>11, <1>12, <1>14, <2>2, <2>3 DEF Submits
<1>15. CASE idle = {}
  <2>1. \A j \in In(conns) : ~(QueueSize(t.conn[j]) = 0)
    BY <1>6, <1>13, <1>15 DEF In
  <2> QED BY <1>2, <1>4, <1>7, <1>9, <1>10, <1>11, <1>12, <1>15, <2>1, Zenon DEF Submits
<1> QED BY <1>14, <1>15

\* All other connections stay what they are.
LEMMA FrontEases ==
    ASSUME NEW t \in States, NEW r, NEW i, NEW j \in Lives(t), NEW e, Fronts(t, r, j, e),
           Neat(e), Flushed(e), Begins(e.inp), Like(t.conn[j], e),
           \A k \in Lives(t) : k # j =>
               Neat(t.conn[k]) /\ (k # i => Flushed(t.conn[k]) /\ Begins(t.conn[k].inp))
    PROVE  Neats(r, i) /\ Likes(t, r) /\ Lives(r) = Lives(t)
<1>1. Lives(r) = Lives(t)
  <2>1. \A h \in Hosts : r.srv[h].conns = t.srv[h].conns
    BY DEF Fronts
  <2> QED BY <2>1 DEF Lives
<1>2. \A k \in Lives(t) : k \in ConnIds
  BY DEF Lives
<1>3. r.conn[j] = e /\ \A k \in Lives(t) : k # j => r.conn[k] = t.conn[k]
  BY <1>2 DEF Fronts
<1>4. Neats(r, i)
  BY <1>1, <1>3 DEF Neats
<1>5. Likes(t, r)
  BY <1>1, <1>3 DEF Likes, Like
<1> QED BY <1>1, <1>4, <1>5

\* The facts about a connection that is connected and has nothing to do.
LEMMA IdleAccepts ==
    ASSUME NEW t \in States, NEW P, Good(t, P), NEW i \in Lives(t), Neat(t.conn[i]),
           t.conn[i].act = <<>>
    PROVE  Accepts(t.conn[i])
<1>1. Steady(t.conn[i], t.req, t.proxy) /\ t.conn[i] \in Conns /\ t.conn[i].st # "none"
  BY LiveConn DEF Good, Flows, Sound
<1>2. ~t.conn[i].out
  BY <1>1 DEF Steady, Flow, Unsent
<1>3. t.conn[i].st = "CONNECTED"
  BY <1>1, <1>2 DEF Neat, Conns, Sts
<1>4. t.conn[i].readcb = "http" /\ t.conn[i].inp \o t.conn[i].todo = <<>>
  BY <1>1, <1>3 DEF Steady, Shaking, Flow
<1>5. t.conn[i].inp = <<>> /\ t.conn[i].todo = <<>>
  BY <1>1, <1>4, ConnFields, ConcatEmpty
<1> QED BY <1>3, <1>4, <1>5 DEF Accepts

\* A request that goes to a connection of its server.
LEMMA FrontMild ==
    ASSUME NEW t \in States, NEW i, NEW j \in Lives(t), Listing(t), Neats(t, i),
           Accepts(t.conn[j]), Begins(t.conn[j].inp), t.srv[t.conn[j].host].reqs # <<>>
    PROVE  LET r == SubmitFront(t, j)
           IN  /\ Neats(r, i) /\ Likes(t, r) /\ Lives(r) = Lives(t)
               /\ \E e : Fronts(t, r, j, e) /\ e.act # <<>> /\ Flushed(e)
<1>1. /\ j \in ConnIds /\ t.conn[j] \in Conns /\ t.conn[j].st # "none"
      /\ t.conn[j].host \in Hosts
  BY LiveConn
<1>2. PICK r : r = SubmitFront(t, j)
  OBVIOUS
<1>3. PICK u \in Urls, d, e \in Conns :
              /\ Burdens(t.conn[j], d, u)
              /\ e = Written(d, t.req) /\ Wrote(d, e, t.req)
              /\ Fronts(t, r, j, e)
  BY <1>1, <1>2, FrontIs
<1>4. Neat(t.conn[j])
  BY DEF Neats
<1>5. \A v \in Urls : t.req[v] \in Requests
  BY Fields
<1>6. Neat(e) /\ Flushed(e) /\ Like(t.conn[j], e) /\ e.act # <<>>
  BY <1>1, <1>3, <1>4, <1>5, TakenOn
<1>7. Begins(e.inp)
  BY <1>6 DEF Like
<1>8. Neats(r, i) /\ Likes(t, r) /\ Lives(r) = Lives(t)
  <2>1. \A k \in Lives(t) : k # j =>
             Neat(t.conn[k]) /\ (k # i => Flushed(t.conn[k]) /\ Begins(t.conn[k].inp))
    BY DEF Neats
  <2> QED BY <1>3, <1>6, <1>7, <2>1, FrontEases
<1> QED BY <1>2, <1>3, <1>6, <1>8

\* A new connection takes its first request.
LEMMA FirstTaken ==
    ASSUME NEW h \in Hosts, NEW proxy \in BOOLEAN, NEW u \in Urls, NEW c \in Conns,
           c = NewConnection(h, proxy), NEW d \in Conns, Burdens(c, d, u),
           NEW req, \A v \in Urls : req[v] \in Requests,
           NEW e, e = Written(d, req), Wrote(d, e, req)
    PROVE  Neat(e) /\ Flushed(e) /\ e.act # <<>> /\ e.inp = <<>>
<1>1. PICK b : b = [NoConn EXCEPT !.st = "CONNECTING", !.host = h, !.mev = "CONNECTING"]
  OBVIOUS
<1>2. /\ c.st = "CONNECTING" /\ c.sub = <<>> /\ c.act = <<>> /\ c.inp = <<>> /\ c.todo = <<>>
      /\ ~c.closed /\ c.mev = "CONNECTING" /\ (c.wen <=> c.writecb = "http")
      /\ c.readcb = "NULL" => c.writecb = "socks"
      /\ c.readcb # "socks" /\ (c.readcb = "http" => c.writecb = "http")
  <2>1. CASE proxy
    <3>1. c = [b EXCEPT !.writecb = "socks"]
      BY <1>1, <2>1, Zenon DEF NewConnection
    <3> QED BY <1>1, <3>1 DEF NoConn
  <2>2. CASE ~proxy
    <3>1. c = EnableWrite([b EXCEPT !.readcb = "http"])
      BY <1>1, <2>2, Zenon DEF NewConnection
    <3> QED BY <1>1, <3>1 DEF NoConn, EnableWrite
  <2> QED BY <2>1, <2>2
<1>3. /\ d.sub = <<u>> /\ d.act = <<>> /\ d.st = c.st /\ d.readcb = c.readcb
      /\ d.mev = c.mev /\ d.inp = c.inp /\ d.todo = c.todo
      /\ d.closed = c.closed /\ d.wen = c.wen /\ d.writecb = c.writecb
  <2>1. Append(<<>>, u) = <<u>>
    OBVIOUS
  <2> QED BY <1>2, <2>1 DEF Conns, Burdens
<1>4. d.sub # <<>> /\ Head(d.sub) = u /\ Tail(d.sub) = <<>>
  BY <1>3, InOne
<1>5. e.act = <<u>> /\ e.sub = <<>> /\ e.out
  BY <1>3, <1>4 DEF Wrote
<1>6. /\ e.st = "CONNECTING" /\ e.readcb = c.readcb /\ e.inp = <<>> /\ e.todo = <<>>
      /\ e.closed = c.closed /\ e.mev = c.mev
  BY <1>2, <1>3 DEF Wrote
<1>7. (e.wen <=> e.writecb = "http") /\ e.writecb = c.writecb
  BY <1>2, <1>3, WrittenWrites
<1>8. e.act # <<>>
  BY <1>5
<1>9. Neat(e)
  BY <1>2, <1>5, <1>6, <1>7 DEF Neat, Begins
<1> QED BY <1>6, <1>8, <1>9 DEF Flushed

\* A server at which a request waits has no connection that could take it.
Full(t, i, h) ==
    /\ t.srv[h].conns # <<>>
    /\ \A j \in In(t.srv[h].conns) : j = i \/ t.conn[j].act # <<>>

LEMMA BusyOn ==
    ASSUME NEW t \in States, NEW i, Busy(t, i), NEW h \in Hosts, NEW r \in States,
           \A g \in Hosts : g # h => r.srv[g] = t.srv[g],
           \A g \in Hosts : \A j \in In(t.srv[g].conns) :
               t.conn[j].act # <<>> => r.conn[j].act # <<>>,
           r.srv[h].reqs # <<>> => Full(r, i, h)
    PROVE  Busy(r, i)
<1> SUFFICES ASSUME NEW g \in Hosts, r.srv[g].reqs # <<>> PROVE Full(r, i, g)
  BY DEF Busy, Full
<1>1. CASE g = h
  BY <1>1
<1>2. CASE g # h
  BY <1>2 DEF Busy, Full
<1> QED BY <1>1, <1>2

\* A connection joins the list of a server.
LEMMA ListedIs ==
    ASSUME NEW q \in Seq(ConnIds), NEW i \in ConnIds
    PROVE  /\ Append(q, i) \in Seq(ConnIds) /\ Append(q, i) # <<>>
           /\ In(Append(q, i)) = In(q) \cup {i}
BY InAppend

\* submit_request fails nothing, whether the request is taken or waits.
LEMMA SubmitMild ==
    ASSUME NEW t \in States, NEW P, Good(t, P), NEW i, Mild(t, i), NEW u \in Urls,
           ConnIds = Nat \ {0}
    PROVE  LET r == SubmitRequest(t, u)
           IN  Mild(r, i) /\ Likes(t, r) /\ Aside(t, r)
<1>1. Sound(t) /\ Listing(t) /\ Neats(t, i) /\ Busy(t, i) /\ t.abort = "no" /\ t.persist # 0
  BY DEF Good, Sound, Mild
<1>2. PICK h \in Hosts : h = Host[u]
  BY Constants
<1>3. PICK conns \in Seq(ConnIds) : conns = t.srv[h].conns
  BY Fields
<1>4. PICK p \in Seq(Urls) : p = t.srv[h].reqs
  BY Fields
<1>5. PICK q \in Seq(Urls) : q = Append(p, u)
  BY InAppend
<1>6. q # <<>> /\ (p = <<>> => Tail(q) = <<>>)
  <2>1. q # <<>>
    BY <1>5, InAppend
  <2>2. p = <<>> => q = <<u>>
    BY <1>5
  <2> QED BY <2>1, <2>2, InOne
<1>7. PICK m : m = PutReqs(t, h, q)
  OBVIOUS
<1>8. ReqsIs(t, m, h, q) /\ Aside(t, m)
  BY <1>7, ReqsPut, AsidePut
<1>9. PICK r : r = SubmitRequest(t, u)
  OBVIOUS
<1>10. Submits(t, h, m, r)
  BY <1>1, <1>2, <1>4, <1>5, <1>7, <1>9, SubmitIs
<1>11. /\ m \in States /\ m.conn = t.conn /\ m.srv[h].reqs = q
       /\ \A g \in Hosts : m.srv[g].conns = t.srv[g].conns /\ (g # h => m.srv[g] = t.srv[g])
  BY <1>8 DEF ReqsIs
<1>12. Lives(m) = Lives(t)
  BY <1>11 DEF Lives
<1>13. Neats(m, i) /\ Likes(t, m) /\ Listing(m)
  <2>1. Neats(m, i) /\ Likes(t, m)
    BY <1>1, <1>11, <1>12 DEF Neats, Likes, Like
  <2>2. Listing(m)
    BY <1>1, <1>11 DEF Listing
  <2> QED BY <2>1, <2>2
<1>14. \A j \in In(conns) : j \in Lives(t) /\ t.conn[j].host = h /\ j \in ConnIds
  BY <1>1, <1>3, InEmpty DEF Lives, Listing
<1>15. p # <<>> => Full(t, i, h)
  BY <1>1, <1>4 DEF Busy, Full
<1>16. CASE \E j \in In(conns) :
               t.conn[j].sub = <<>> /\ t.conn[j].act = <<>> /\ r = SubmitFront(m, j)
  <2>1. PICK j \in In(conns) :
               t.conn[j].sub = <<>> /\ t.conn[j].act = <<>> /\ r = SubmitFront(m, j)
    BY <1>16
  <2>2. j \in Lives(t) /\ t.conn[j].host = h /\ Neat(t.conn[j]) /\ j \in ConnIds
    BY <1>1, <1>14, <2>1 DEF Neats
  <2>3. Accepts(t.conn[j])
    BY <2>1, <2>2, IdleAccepts
  <2>4. Begins(t.conn[j].inp)
    BY <2>1, <2>3 DEF Accepts, Begins
  <2>5. /\ Neats(r, i) /\ Likes(m, r) /\ Lives(r) = Lives(m)
        /\ \E e : Fronts(m, r, j, e) /\ e.act # <<>> /\ Flushed(e)
    <3>1. j \in Lives(m) /\ Accepts(m.conn[j]) /\ Begins(m.conn[j].inp)
          /\ m.srv[m.conn[j].host].reqs # <<>>
      BY <1>6, <1>11, <1>12, <2>2, <2>3, <2>4
    <3> QED BY <1>11, <1>13, <2>1, <3>1, FrontMild
  <2>6. PICK e : Fronts(m, r, j, e) /\ e.act # <<>>
    BY <2>5
  <2>7. /\ r \in States /\ r.srv[h].reqs = Tail(q)
        /\ \A g \in Hosts : r.srv[g].conns = t.srv[g].conns /\ (g # h => r.srv[g] = t.srv[g])
        /\ r.conn[j].act # <<>> /\ \A k \in ConnIds : k # j => r.conn[k] = t.conn[k]
        /\ Aside(m, r)
    BY <1>11, <2>2, <2>6 DEF Fronts
  <2>8. \A g \in Hosts : \A k \in In(t.srv[g].conns) :
            t.conn[k].act # <<>> => r.conn[k].act # <<>>
    <3> SUFFICES ASSUME NEW g \in Hosts, NEW k \in In(t.srv[g].conns), t.conn[k].act # <<>>
                 PROVE  r.conn[k].act # <<>>
      OBVIOUS
    <3>1. k \in ConnIds
      BY Fields, InEmpty
    <3> QED BY <2>7, <3>1
  <2>9. r.srv[h].reqs # <<>> => Full(r, i, h)
    BY <1>6, <1>15, <2>7, <2>8 DEF Full
  <2>10. Busy(r, i)
    BY <1>1, <2>7, <2>8, <2>9, BusyOn
  <2>11. Aside(t, r)
    BY <1>8, <2>7 DEF Aside
  <2>12. Likes(t, r)
    BY <1>13, <2>5, LikesOn
  <2> QED BY <1>1, <1>9, <2>5, <2>10, <2>11, <2>12 DEF Mild, Aside
<1>17. CASE \A j \in In(conns) : ~(t.conn[j].sub = <<>> /\ t.conn[j].act = <<>>)
  <2>1. \A j \in In(conns) : j = i \/ t.conn[j].act # <<>>
    BY <1>1, <1>14, <1>17 DEF Neats, Flushed
  <2>2. CASE Len(conns) >= t.persist /\ r = m
    <3>1. conns # <<>>
      <4>1. t.persist \in Nat
        BY Fields
      <4> QED BY <1>1, <2>2, <4>1
    <3>2. Full(r, i, h)
      BY <1>3, <1>11, <2>1, <2>2, <3>1 DEF Full
    <3>3. Busy(r, i)
      BY <1>1, <1>11, <2>2, <3>2, BusyOn
    <3> QED BY <1>1, <1>8, <1>9, <1>13, <2>2, <3>3 DEF Mild, Aside
  <2>3. CASE LET new == FreeId(t)
                 x == PutConn(m, new, NewConnection(h, t.proxy))
             IN  r = SubmitFront(PutConns(x, h, Append(conns, new)), new)
    <3>1. PICK new \in ConnIds : new = FreeId(t) /\ t.conn[new].st = "none"
      BY <1>1, FreeIdIs
    <3>2. PICK c \in Conns : c = NewConnection(h, t.proxy)
      BY Fields, NewConnectionIs
    <3>3. c.st # "none" /\ c.host = h
      BY <3>2, Fields, NewConnectionIs DEF Unused
    <3>4. PICK x : x = PutConn(m, new, c)
      OBVIOUS
    <3>5. ConnIs(m, x, new, c) /\ Aside(m, x)
      BY <1>11, <3>4, ConnPut, AsidePut
    <3>6. PICK w \in Seq(ConnIds) : w = Append(conns, new) /\ w # <<>>
                                    /\ In(w) = In(conns) \cup {new}
      BY ListedIs
    <3>7. PICK y : y = PutConns(x, h, w)
      OBVIOUS
    <3>8. ConnsIs(x, y, h, w) /\ Aside(x, y)
      <4>1. x \in States
        BY <3>5 DEF ConnIs
      <4> QED BY <3>7, <4>1, ConnsPut, AsidePut
    <3>9. r = SubmitFront(y, new)
      BY <2>3, <3>1, <3>2, <3>4, <3>6, <3>7
    <3>10. /\ y \in States /\ y.conn[new] = c
           /\ \A k \in ConnIds : k # new => y.conn[k] = t.conn[k]
           /\ y.srv[h].reqs = q /\ y.srv[h].conns = w
           /\ \A g \in Hosts : g # h => y.srv[g] = t.srv[g]
           /\ y.proxy = t.proxy
      BY <1>8, <1>11, <3>5, <3>8 DEF ConnIs, ConnsIs, ReqsIs
    <3>11. PICK v \in Urls, d, e \in Conns :
              /\ Burdens(c, d, v) /\ e = Written(d, y.req) /\ Wrote(d, e, y.req)
              /\ Fronts(y, r, new, e)
      BY <1>6, <3>3, <3>9, <3>10, FrontIs
    <3>12. Neat(e) /\ Flushed(e) /\ e.act # <<>> /\ e.inp = <<>>
      <4>1. \A z \in Urls : y.req[z] \in Requests
        BY <3>10, Fields
      <4>2. PICK proxy \in BOOLEAN : proxy = t.proxy
        BY Fields
      <4>3. PICK req : req = y.req
        OBVIOUS
      <4>4. c = NewConnection(h, proxy) /\ \A z \in Urls : req[z] \in Requests
        BY <3>2, <4>1, <4>2, <4>3
      <4>5. Burdens(c, d, v) /\ e = Written(d, req) /\ Wrote(d, e, req)
        BY <3>11, <4>3
      <4> QED BY <4>4, <4>5, FirstTaken
    <3>13. new \notin Lives(t)
      BY <1>1, <3>1, LiveConn
    <3>14. Lives(y) = Lives(t) \cup {new}
      BY <1>3, <3>6, <3>10 DEF Lives
    <3>15. /\ r \in States /\ r.conn[new] = e
           /\ \A k \in ConnIds : k # new => r.conn[k] = t.conn[k]
           /\ r.srv[h].conns = w
           /\ \A g \in Hosts : g # h => r.srv[g] = t.srv[g]
           /\ \A g \in Hosts : r.srv[g].conns = y.srv[g].conns
           /\ Aside(y, r)
      BY <3>3, <3>10, <3>11 DEF Fronts
    <3>16. Lives(r) = Lives(t) \cup {new}
      BY <3>14, <3>15 DEF Lives
    <3>17. \A k \in Lives(t) : k # new /\ r.conn[k] = t.conn[k]
      BY <3>13, <3>15 DEF Lives
    <3>18. Neats(r, i) /\ Likes(t, r)
      <4>1. Begins(e.inp)
        BY <3>12 DEF Begins
      <4>2. Neats(r, i)
        BY <1>1, <3>12, <3>15, <3>16, <3>17, <4>1 DEF Neats
      <4> QED BY <3>16, <3>17, <4>2 DEF Likes, Like
    <3>19. \A g \in Hosts : \A k \in In(t.srv[g].conns) :
               t.conn[k].act # <<>> => r.conn[k].act # <<>>
      <4> SUFFICES ASSUME NEW g \in Hosts, NEW k \in In(t.srv[g].conns), t.conn[k].act # <<>>
                   PROVE  r.conn[k].act # <<>>
        OBVIOUS
      <4>1. k \in Lives(t)
        BY Fields, InEmpty DEF Lives
      <4> QED BY <3>17, <4>1
    <3>20. Full(r, i, h)
      <4>1. \A k \in In(w) : k = i \/ r.conn[k].act # <<>>
        BY <1>3, <2>1, <3>6, <3>12, <3>15, <3>19
      <4> QED BY <3>6, <3>15, <4>1 DEF Full
    <3>21. Busy(r, i)
      BY <1>1, <3>15, <3>19, <3>20, BusyOn
    <3>22. Aside(t, r)
      BY <1>8, <3>5, <3>8, <3>15 DEF Aside
    <3> QED BY <1>1, <1>9, <3>18, <3>21, <3>22 DEF Mild, Aside
  <2> QED BY <1>3, <1>10, <1>17, <2>2, <2>3 DEF Submits
<1> QED BY <1>3, <1>10, <1>16, <1>17 DEF Submits

\* The sets T[k] hold what RequestNamed has made of t after k of the names.
NameStep(t, u, k, x) ==
    IF Links[u][k].at <= t.req[u].size THEN RequestOneUrl(x, Links[u][k].url) ELSE x

LEMMA NamedIn ==
    ASSUME NEW t, NEW u \in Urls, NEW n \in Nat, n = Len(Links[u]), NEW T, t \in T[0],
           \A k \in 1..n : \A x \in T[k - 1] : NameStep(t, u, k, x) \in T[k]
    PROVE  RequestNamed(t, u) \in T[n]
<1> DEFINE F == [k \in 1..n |-> [x \in T[k - 1] |-> NameStep(t, u, k, x)]]
           Eq(f) == f = [k \in 0..n |-> IF k = 0 THEN t ELSE NameStep(t, u, k, f[k - 1])]
<1>1. \E f : Eq(f)
  <2>1. \A k \in 1..n : F[k] \in [T[k - 1] -> T[k]]
    OBVIOUS
  <2>2. PICK f : /\ f = [k \in 0..n |-> IF k = 0 THEN t ELSE F[k][f[k - 1]]]
                 /\ \A k \in 0..n : f[k] \in T[k]
    <3> HIDE DEF F
    <3>1. Steps(n, T, F)
      BY <2>1 DEF Steps
    <3>2. PICK f : Folded(f, n, T, F, t)
      BY <3>1, Folds
    <3> QED BY <3>2 DEF Folded
  <2>3. \A k \in 0..n : k # 0 => F[k][f[k - 1]] = NameStep(t, u, k, f[k - 1])
    <3> TAKE k \in 0..n
    <3> HAVE k # 0
    <3>1. k \in 1..n /\ k - 1 \in 0..n
      OBVIOUS
    <3> QED BY <2>2, <3>1
  <2> HIDE DEF F
  <2>4. [k \in 0..n |-> IF k = 0 THEN t ELSE F[k][f[k - 1]]]
        = [k \in 0..n |-> IF k = 0 THEN t ELSE NameStep(t, u, k, f[k - 1])]
    BY <2>3
  <2>5. Eq(f)
    BY <2>2, <2>4
  <2> QED BY <2>5
<1>2. PICK g : g = CHOOSE f : Eq(f)
  OBVIOUS
<1>3. Eq(g)
  BY <1>1, <1>2
<1>4. \A k \in 0..n : g[k] \in T[k]
  <2> DEFINE K == {k \in 0..n : g[k] \in T[k]}
  <2>1. 0 \in K
    BY <1>3
  <2>2. \A k \in 1..n : k - 1 \in K => k \in K
    <3> TAKE k \in 1..n
    <3> HAVE k - 1 \in K
    <3>1. k \in 0..n /\ k # 0
      OBVIOUS
    <3>2. g[k] = NameStep(t, u, k, g[k - 1])
      BY <1>3, <3>1
    <3> QED BY <3>1, <3>2
  <2>3. \A k \in 0..n : k \in K
    <3> HIDE DEF K
    <3> QED BY <2>1, <2>2, Climb
  <2> QED BY <2>3
<1>5. RequestNamed(t, u) = g[n]
  BY <1>2 DEF RequestNamed, NameStep
<1> QED BY <1>4, <1>5

LEMMA AloofOn ==
    ASSUME NEW t, NEW r, NEW v, Aloof(t, r), Aloof(r, v)
    PROVE  Aloof(t, v)
BY DEF Aloof

LEMMA SameMild ==
    ASSUME NEW t, NEW r, Same(t, r)
    PROVE  /\ Lives(r) = Lives(t) /\ Likes(t, r)
           /\ \A i : Mild(t, i) => Mild(r, i)
<1>1. Lives(r) = Lives(t)
  BY DEF Same, Lives
<1> QED BY <1>1 DEF Same, Likes, Like, Mild, Neats, Busy

\* An object that is not asked for yet is.
LEMMA RequestOneMild ==
    ASSUME NEW t \in States, Good(t, t.b.pending), NEW i, Mild(t, i), NEW u \in Urls,
           u \notin t.b.pending, ConnIds = Nat \ {0}
    PROVE  LET r == RequestOneUrl(t, u)
           IN  /\ Mild(r, i) /\ Likes(t, r) /\ Aloof(t, r)
               /\ r.b.embedded = t.b.embedded \cup {u} /\ r.b.pending = t.b.pending \cup {u}
<1>1. PICK x \in Requests : x = NewRequest
  BY DEF NewRequest, Requests
<1>2. PICK m : m = PutReq(t, u, x)
  OBVIOUS
<1>3. ReqIs(t, m, u, x) /\ Aside(t, m)
  BY <1>2, ReqPut, AsidePut
<1>4. Good(m, t.b.pending)
  BY <1>3, Rerequested
<1>5. m \in States /\ Same(t, m)
  BY <1>3 DEF ReqIs, Same
<1>6. Mild(m, i) /\ Likes(t, m)
  BY <1>5, SameMild
<1>7. PICK v : v = SubmitRequest(m, u)
  OBVIOUS
<1>8. Mild(v, i) /\ Likes(m, v) /\ Aside(m, v)
  BY <1>4, <1>5, <1>6, <1>7, SubmitMild
<1>9. v \in States
  <2>1. Asks(m.req[u], u)
    BY <1>1, <1>3, Constants DEF NewRequest, Asks, ReqIs
  <2> QED BY <1>4, <1>5, <1>7, <2>1, SubmitKeeps DEF Keeps
<1>10. PICK r : r = RequestOneUrl(t, u)
  OBVIOUS
<1>11. r = [v EXCEPT !.b.embedded = @ \cup {u}, !.b.pending = @ \cup {u}]
  BY <1>1, <1>2, <1>7, <1>10, Zenon DEF RequestOneUrl, PutReq
<1>12. /\ Same(v, r)
       /\ r.b.state = v.b.state /\ r.b.notified = v.b.notified /\ r.b.loadnum = v.b.loadnum
       /\ r.b.received = v.b.received
       /\ r.b.embedded = v.b.embedded \cup {u} /\ r.b.pending = v.b.pending \cup {u}
       /\ r.cbs = v.cbs /\ r.nap = v.nap /\ r.timers = v.timers /\ r.timed = v.timed
  <2>1. v.b \in Browsers
    BY <1>9, Fields
  <2>2. PICK e : e = v.b.embedded \cup {u}
    OBVIOUS
  <2>3. PICK p : p = v.b.pending \cup {u}
    OBVIOUS
  <2>4. PICK w : w = [v EXCEPT !.b.embedded = e]
    OBVIOUS
  <2>5. r = [w EXCEPT !.b.pending = p]
    <3>1. w.b.pending = v.b.pending
      BY <1>9, <2>1, <2>4 DEF States, Browsers
    <3> QED BY <1>11, <2>2, <2>3, <2>4, <3>1, Zenon
  <2> QED BY <1>9, <2>1, <2>2, <2>3, <2>4, <2>5 DEF States, Browsers, Same
<1>13. Mild(r, i) /\ Likes(v, r)
  BY <1>8, <1>12, SameMild
<1>14. Likes(t, r)
  BY <1>6, <1>8, <1>13, LikesOn
<1>15. Aloof(t, r) /\ r.b.embedded = t.b.embedded \cup {u} /\ r.b.pending = t.b.pending \cup {u}
  BY <1>3, <1>8, <1>12 DEF Aside, Aloof
<1> QED BY <1>10, <1>13, <1>14, <1>15

\* The objects asked for so far, V being what they were named by: those that were
\* received, and those the browser waits for.
Wants(b, V) ==
    /\ IsFiniteSet(b.embedded) /\ b.embedded = b.received \cup b.pending
    /\ b.received \cap b.pending = {} /\ Doc \notin b.embedded
    /\ b.embedded \subseteq Named(V)
Wanted(b) == Wants(b, {Doc} \cup (b.received \cap Scripts))

\* What u names is asked for by nothing else, and only once.
LEMMA NamedIs ==
    ASSUME NEW u \in Urls
    PROVE  \A k \in 1..Len(Links[u]) : Links[u][k].url \in Urls /\ Links[u][k].url \in Named({u})
<1> TAKE k \in 1..Len(Links[u])
<1>1. PICK L : L = [at : Nat, url : Urls]
  OBVIOUS
<1>2. PICK q \in Seq(L) : q = Links[u]
  BY <1>1, BrowserAssumption
<1>3. k \in 1..Len(q)
  BY <1>2
<1>4. q[k] \in L
  BY <1>3
<1>5. Links[u][k] \in [at : Nat, url : Urls]
  BY <1>1, <1>2, <1>4
<1> QED BY <1>5 DEF Named

\* The process after k of the names of u, X being those that were asked for.
Called(t, x, i, u, k, X) ==
    /\ X \subseteq {Links[u][j].url : j \in 1..k}
    /\ IsFiniteSet(x.b.embedded)
    /\ x.b.embedded = t.b.embedded \cup X /\ x.b.pending = t.b.pending \cup X
CalledIn(t, i, u, k) ==
    {x \in States :
        /\ Good(x, x.b.pending) /\ Keeps(t, x) /\ Mild(x, i) /\ Likes(t, x) /\ Aloof(t, x)
        /\ \E X : Called(t, x, i, u, k, X)}

LEMMA CalledOn ==
    ASSUME NEW t \in States, NEW i, NEW u \in {Doc} \cup Scripts, NEW V,
           V \subseteq {Doc} \cup Scripts, u \notin V, Wants(t.b, V), NamedOnce,
           NEW n \in Nat, n = Len(Links[u]), NEW k \in 1..n,
           NEW x \in CalledIn(t, i, u, k - 1), ConnIds = Nat \ {0}
    PROVE  NameStep(t, u, k, x) \in CalledIn(t, i, u, k)
<1>1. /\ x \in States /\ Good(x, x.b.pending) /\ Keeps(t, x) /\ Mild(x, i) /\ Likes(t, x)
      /\ Aloof(t, x)
  BY DEF CalledIn
<1>2. PICK X : Called(t, x, i, u, k - 1, X)
  BY DEF CalledIn
<1>3. X \subseteq {Links[u][j].url : j \in 1..k}
  BY <1>2 DEF Called
<1>4. CASE Links[u][k].at <= t.req[u].size
  <2>1. u \in Urls
    BY BrowserAssumption
  <2>2. PICK w \in Urls : w = Links[u][k].url
    BY <2>1, NamedIs
  <2>3. w \notin t.b.embedded
    <3> SUFFICES ASSUME w \in Named(V) PROVE FALSE
      BY DEF Wants
    <3>1. PICK v \in V : \E j \in 1..Len(Links[v]) : w = Links[v][j].url
      BY DEF Named
    <3> QED BY <2>2, <3>1 DEF NamedOnce
  <2>4. w \notin X
    <3> SUFFICES ASSUME NEW j \in 1..(k - 1), w = Links[u][j].url PROVE FALSE
      BY <1>2 DEF Called
    <3>1. j \in 1..Len(Links[u]) /\ k \in 1..Len(Links[u]) /\ j # k
      OBVIOUS
    <3>2. Links[u][j].url = Links[u][k].url
      BY <2>2
    <3> QED BY <3>1, <3>2, Zenon DEF NamedOnce
  <2>5. w \notin x.b.pending
    BY <1>2, <2>3, <2>4 DEF Called, Wants
  <2>6. PICK r : r = RequestOneUrl(x, w)
    OBVIOUS
  <2>7. /\ Mild(r, i) /\ Likes(x, r) /\ Aloof(x, r)
        /\ r.b.embedded = x.b.embedded \cup {w} /\ r.b.pending = x.b.pending \cup {w}
    BY <1>1, <2>5, <2>6, RequestOneMild
  <2>8. Good(r, r.b.pending) /\ Keeps(x, r)
    BY <1>1, <2>6, RequestOneKeeps
  <2>9. IsFiniteSet(r.b.embedded)
    <3>1. IsFiniteSet(x.b.embedded)
      BY <1>2 DEF Called
    <3> QED BY <2>7, <3>1, FS_AddElement
  <2>10. Called(t, r, i, u, k, X \cup {w})
    BY <1>2, <1>3, <2>2, <2>7, <2>9 DEF Called
  <2>11. Keeps(t, r) /\ Likes(t, r) /\ Aloof(t, r) /\ r \in States
    BY <1>1, <2>7, <2>8, KeepsOn, LikesOn, AloofOn DEF Keeps
  <2>12. r \in CalledIn(t, i, u, k)
    BY <2>7, <2>8, <2>10, <2>11 DEF CalledIn
  <2> QED BY <1>4, <2>2, <2>6, <2>12 DEF NameStep
<1>5. CASE ~(Links[u][k].at <= t.req[u].size)
  <2>1. Called(t, x, i, u, k, X)
    BY <1>2, <1>3 DEF Called
  <2> QED BY <1>1, <1>5, <2>1 DEF NameStep, CalledIn
<1> QED BY <1>4, <1>5

\* Nothing that the document or a script names was asked for before.
LEMMA RequestNamedMild ==
    ASSUME NEW t \in States, Good(t, t.b.pending), NEW i, Mild(t, i),
           NEW u \in {Doc} \cup Scripts, NEW V, V \subseteq {Doc} \cup Scripts, u \notin V,
           Wants(t.b, V), NamedOnce, ConnIds = Nat \ {0}
    PROVE  LET r == RequestNamed(t, u)
           IN  /\ Good(r, r.b.pending) /\ Keeps(t, r) /\ Mild(r, i) /\ Likes(t, r)
               /\ Aloof(t, r) /\ Wants(r.b, V \cup {u})
<1>1. u \in Urls
  BY BrowserAssumption
<1>2. PICK n \in Nat : n = Len(Links[u])
  <2>1. PICK L : L = [at : Nat, url : Urls]
    OBVIOUS
  <2>2. PICK q \in Seq(L) : q = Links[u]
    BY <1>1, <2>1, BrowserAssumption
  <2> QED BY <2>2
<1>3. PICK T : T = [k \in 0..n |-> CalledIn(t, i, u, k)]
  OBVIOUS
<1>4. \A k \in 0..n : T[k] = CalledIn(t, i, u, k)
  BY <1>3
<1>5. t \in T[0]
  <2>1. Called(t, t, i, u, 0, {})
    BY DEF Called, Wants
  <2>2. Keeps(t, t) /\ Likes(t, t) /\ Aloof(t, t)
    BY DEF Keeps, Likes, Like, Aloof
  <2>3. t \in CalledIn(t, i, u, 0)
    BY <2>1, <2>2 DEF CalledIn
  <2> QED BY <1>4, <2>3
<1>6. \A k \in 1..n : \A x \in T[k - 1] : NameStep(t, u, k, x) \in T[k]
  <2> TAKE k \in 1..n
  <2> TAKE x \in T[k - 1]
  <2>1. k \in 0..n /\ k - 1 \in 0..n
    OBVIOUS
  <2>2. x \in CalledIn(t, i, u, k - 1)
    BY <1>4, <2>1
  <2>3. NameStep(t, u, k, x) \in CalledIn(t, i, u, k)
    BY <1>2, <2>2, CalledOn
  <2> QED BY <1>4, <2>1, <2>3
<1>7. PICK r : r = RequestNamed(t, u)
  OBVIOUS
<1>8. r \in CalledIn(t, i, u, n)
  <2>1. r \in T[n]
    BY <1>1, <1>2, <1>5, <1>6, <1>7, NamedIn
  <2> QED BY <1>4, <2>1
<1>9. /\ Good(r, r.b.pending) /\ Keeps(t, r) /\ Mild(r, i) /\ Likes(t, r) /\ Aloof(t, r)
  BY <1>8 DEF CalledIn
<1>10. PICK X : Called(t, r, i, u, n, X)
  BY <1>8 DEF CalledIn
<1>11. X \subseteq Named({u}) /\ Doc \notin X
  <2> SUFFICES ASSUME NEW k \in 1..n
               PROVE  Links[u][k].url \in Named({u}) /\ Links[u][k].url # Doc
    BY <1>10 DEF Called
  <2> QED BY <1>1, <1>2, NamedIs DEF NamedOnce
<1>12. Named(V) \cap Named({u}) = {}
  <2> SUFFICES ASSUME NEW w \in Named(V), w \in Named({u}) PROVE FALSE
    OBVIOUS
  <2>1. PICK v \in V : \E j \in 1..Len(Links[v]) : w = Links[v][j].url
    BY DEF Named
  <2>2. \E j \in 1..Len(Links[u]) : w = Links[u][j].url
    BY DEF Named
  <2> QED BY <2>1, <2>2 DEF NamedOnce
<1>13. Named(V) \cup Named({u}) \subseteq Named(V \cup {u})
  BY DEF Named
<1>14. r.b.received = t.b.received
  BY <1>9 DEF Aloof
<1>15. Wants(r.b, V \cup {u})
  BY <1>10, <1>11, <1>12, <1>13, <1>14 DEF Wants, Called
<1> QED BY <1>7, <1>9, <1>15

-----------------------------------------------------------------------------
(* The browser, when nothing fails.                                        *)

\* on_notified is scheduled, or will be after the think time, when the browser says so.
Rung(q) == \A j, k \in 1..Len(q) : q[j] = 0 /\ q[k] = 0 => j = k
Bell(t) ==
    /\ Rung(t.cbs) /\ (t.b.notified <=> 0 \in In(t.cbs) \/ t.nap)
    /\ ~(0 \in In(t.cbs) /\ t.nap)

\* No timer is one of a load to come, and the load under way has its own.
Clock(t) ==
    /\ \A n \in In(t.timers) :
          n <= t.b.loadnum /\ (n = t.b.loadnum => t.b.state # "SB_INIT")
    /\ t.timed /\ t.b.state # "SB_INIT" => t.b.loadnum \in In(t.timers)

\* What the browser waits for, in each of its states.
Nothing(b) == b.pending = {} /\ b.embedded = {} /\ b.received = {}
Phase(t) ==
    /\ t.b.state = "SB_INIT" => t.b.notified /\ Nothing(t.b)
    /\ t.b.state = "SB_FETCHING_DOCUMENT" =>
          ~t.b.notified /\ t.b.pending = {Doc} /\ t.b.embedded = {} /\ t.b.received = {}
    /\ t.b.state = "SB_DONE_DOCUMENT" => t.b.notified /\ ~t.nap /\ Nothing(t.b)
    /\ t.b.state = "SB_FETCHING_EMBEDDED" =>
          ~t.b.notified /\ t.b.pending # {} /\ Wanted(t.b)
    /\ t.b.state = "SB_DONE" => t.b.notified /\ ~t.nap /\ t.b.pending = {}
Stage(t) == Bell(t) /\ Clock(t) /\ Phase(t)

LEMMA AsideStage ==
    ASSUME NEW t, NEW r, Aside(t, r), Stage(t)
    PROVE  Stage(r)
BY DEF Aside, Stage, Bell, Clock, Phase

LEMMA RungAppend ==
    ASSUME NEW q \in Seq(Nat), Rung(q)
    PROVE  /\ 0 \notin In(q) => Rung(Append(q, 0)) /\ 0 \in In(Append(q, 0))
           /\ \A p \in Seq(Nat) : 0 \notin In(p) =>
                 Rung(q \o p) /\ (0 \in In(q \o p) <=> 0 \in In(q))
<1>1. ASSUME 0 \notin In(q) PROVE Rung(Append(q, 0)) /\ 0 \in In(Append(q, 0))
  BY <1>1 DEF Rung, In
<1>2. ASSUME NEW p \in Seq(Nat), 0 \notin In(p)
      PROVE  Rung(q \o p) /\ (0 \in In(q \o p) <=> 0 \in In(q))
  <2>1. In(q \o p) = In(q) \cup In(p)
    BY InConcat
  <2>2. ASSUME NEW j \in 1..Len(q \o p), (q \o p)[j] = 0
        PROVE  j \in 1..Len(q) /\ q[j] = 0
    <3>1. Len(q \o p) = Len(q) + Len(p)
          /\ (q \o p)[j] = IF j <= Len(q) THEN q[j] ELSE p[j - Len(q)]
      BY ConcatIs
    <3>2. j <= Len(q)
      <4> SUFFICES ASSUME ~(j <= Len(q)) PROVE FALSE
        OBVIOUS
      <4>1. j - Len(q) \in 1..Len(p) /\ p[j - Len(q)] = 0
        BY <2>2, <3>1
      <4> QED BY <1>2, <4>1 DEF In
    <3> QED BY <2>2, <3>1, <3>2
  <2> QED BY <1>2, <2>1, <2>2 DEF Rung
<1> QED BY <1>1, <1>2

LEMMA RungTail ==
    ASSUME NEW q \in Seq(Nat), q # <<>>, Rung(q)
    PROVE  /\ Rung(Tail(q))
           /\ Head(q) = 0 => 0 \notin In(Tail(q))
           /\ Head(q) # 0 => (0 \in In(Tail(q)) <=> 0 \in In(q))
<1>1. Len(Tail(q)) = Len(q) - 1 /\ \A k \in 1..Len(Tail(q)) : Tail(q)[k] = q[k + 1]
  OBVIOUS
<1>2. Head(q) = q[1] /\ 1 \in 1..Len(q)
  OBVIOUS
<1>3. Rung(Tail(q))
  BY <1>1 DEF Rung
<1>4. ASSUME Head(q) = 0, NEW k \in 1..Len(Tail(q)), Tail(q)[k] = 0 PROVE FALSE
  BY <1>1, <1>2, <1>4 DEF Rung
<1>5. In(q) = {Head(q)} \cup In(Tail(q))
  BY InTail
<1> QED BY <1>3, <1>4, <1>5 DEF In

\* The browser says so once.
LEMMA NotifyRings ==
    ASSUME NEW t \in States, ~t.b.notified, Bell(t), NEW when \in {"now", "nap"}
    PROVE  LET r == Notify(t, when)
           IN  /\ Same(t, r) /\ Bell(r) /\ (r.nap <=> when = "nap")
               /\ r.timers = t.timers /\ r.timed = t.timed
               /\ r.b.notified /\ r.b.state = t.b.state /\ r.b.loadnum = t.b.loadnum
               /\ r.b.pending = t.b.pending /\ r.b.embedded = t.b.embedded
               /\ r.b.received = t.b.received
<1>1. PICK q : q = IF when = "now" THEN Append(t.cbs, 0) ELSE t.cbs
  OBVIOUS
<1>2. t.cbs \in Seq(Nat) /\ t.b \in Browsers
  BY Fields
<1>3. ~t.nap /\ 0 \notin In(t.cbs) /\ Rung(t.cbs)
  BY DEF Bell
<1>4. PICK n : n = IF when = "nap" THEN TRUE ELSE t.nap
  OBVIOUS
<1>5. PICK x : x = [t.b EXCEPT !.notified = TRUE]
  OBVIOUS
<1>6. PICK r : r = Notify(t, when)
  OBVIOUS
<1>7. r = [t EXCEPT !.b = x, !.cbs = q, !.nap = n]
  BY <1>1, <1>4, <1>5, <1>6, Zenon DEF Notify
<1>8. r.b = x /\ r.cbs = q /\ r.nap = n /\ r.timers = t.timers /\ r.timed = t.timed /\ Same(t, r)
  BY <1>7 DEF States, Same
<1>9. /\ x.notified /\ x.state = t.b.state /\ x.loadnum = t.b.loadnum
      /\ x.pending = t.b.pending /\ x.embedded = t.b.embedded /\ x.received = t.b.received
  BY <1>2, <1>5 DEF Browsers
<1>10. n <=> when = "nap"
  BY <1>3, <1>4
<1>11. Rung(q) /\ (0 \in In(q) <=> when = "now")
  BY <1>1, <1>2, <1>3, RungAppend
<1>12. Bell(r)
  BY <1>8, <1>9, <1>10, <1>11 DEF Bell
<1> QED BY <1>6, <1>8, <1>9, <1>10, <1>12

\* A resource that is no longer waited for; the load gets somewhere else.
LEMMA ValidateTurns ==
    ASSUME NEW t \in States, NEW u
    PROVE  LET r == [Validate(t, u) EXCEPT !.b.pending = @ \ {u}]
           IN  /\ Turns(t, r) /\ r.b.state = t.b.state /\ r.b.notified = t.b.notified
               /\ r.b.loadnum = t.b.loadnum /\ r.b.pending = t.b.pending \ {u}
               /\ r.b.embedded = t.b.embedded /\ r.b.received = t.b.received
<1>1. PICK w : w = IF u \in t.b.expected /\ t.req[u].size = Size[u] THEN t.b.vr ELSE "VR_FAIL"
  OBVIOUS
<1>2. PICK m : m = [t EXCEPT !.b.vr = w]
  OBVIOUS
<1>3. t.b \in Browsers
  BY Fields
<1>4. PICK n : n = [m EXCEPT !.b.expected = @ \ {u}]
  OBVIOUS
<1>5. n = Validate(t, u)
  <2>1. m.b.expected = t.b.expected
    BY <1>2, <1>3 DEF States, Browsers
  <2>2. Validate(t, u) = [m EXCEPT !.b.expected = t.b.expected \ {u}]
    BY <1>1, <1>2, Zenon DEF Validate
  <2> QED BY <1>4, <2>1, <2>2
<1>6. PICK r : r = [n EXCEPT !.b.pending = @ \ {u}]
  OBVIOUS
<1>7. /\ m.b.state = t.b.state /\ m.b.notified = t.b.notified /\ m.b.loadnum = t.b.loadnum
      /\ m.b.pending = t.b.pending /\ m.b.embedded = t.b.embedded
      /\ m.b.received = t.b.received /\ Turns(t, m)
  BY <1>2, <1>3 DEF States, Browsers, Turns, Same
<1>8. /\ n.b.state = m.b.state /\ n.b.notified = m.b.notified /\ n.b.loadnum = m.b.loadnum
      /\ n.b.pending = m.b.pending /\ n.b.embedded = m.b.embedded
      /\ n.b.received = m.b.received /\ Turns(m, n)
  BY <1>2, <1>3, <1>4 DEF States, Browsers, Turns, Same
<1>9. /\ r.b.state = n.b.state /\ r.b.notified = n.b.notified /\ r.b.loadnum = n.b.loadnum
      /\ r.b.pending = n.b.pending \ {u} /\ r.b.embedded = n.b.embedded
      /\ r.b.received = n.b.received /\ Turns(n, r)
  BY <1>2, <1>3, <1>4, <1>6 DEF States, Browsers, Turns, Same
<1>10. Turns(t, r)
  BY <1>7, <1>8, <1>9 DEF Turns, Same
<1> QED BY <1>5, <1>6, <1>7, <1>8, <1>9, <1>10

LEMMA StateTurns ==
    ASSUME NEW t \in States, NEW state
    PROVE  LET r == [t EXCEPT !.b.state = state]
           IN  /\ Turns(t, r) /\ r.b.state = state /\ r.b.notified = t.b.notified
               /\ r.b.loadnum = t.b.loadnum /\ r.b.pending = t.b.pending
               /\ r.b.embedded = t.b.embedded /\ r.b.received = t.b.received
BY Fields DEF States, Browsers, Turns, Same

LEMMA ReceivedTurns ==
    ASSUME NEW t \in States, NEW u
    PROVE  LET r == [t EXCEPT !.b.received = @ \cup {u}]
           IN  /\ Turns(t, r) /\ r.b.state = t.b.state /\ r.b.notified = t.b.notified
               /\ r.b.loadnum = t.b.loadnum /\ r.b.pending = t.b.pending
               /\ r.b.embedded = t.b.embedded /\ r.b.received = t.b.received \cup {u}
BY Fields DEF States, Browsers, Turns, Same

LEMMA TurnsMild ==
    ASSUME NEW t, NEW r, Turns(t, r)
    PROVE  /\ \A i : Mild(t, i) => Mild(r, i)
           /\ Likes(t, r) /\ Lives(r) = Lives(t)
BY SameMild DEF Turns

\* A page is done when nothing is waited for.
LEMMA PageDoneIs ==
    ASSUME NEW t, NEW V, Wants(t.b, V)
    PROVE  IsPageDone(t) <=> t.b.pending = {}
<1>1. PICK E : E = t.b.embedded
  OBVIOUS
<1>2. PICK R : R = t.b.received
  OBVIOUS
<1>3. IsFiniteSet(E) /\ R \subseteq E
  BY <1>1, <1>2 DEF Wants
<1>4. Cardinality(E) = Cardinality(R) <=> E = R
  BY <1>3, FS_Subset
<1>5. E = R <=> t.b.pending = {}
  BY <1>1, <1>2 DEF Wants
<1> QED BY <1>1, <1>2, <1>4, <1>5 DEF IsPageDone

\* A load that is over, or a document that is there, is notified.
LEMMA NotifyStage ==
    ASSUME NEW t \in States, NEW i, Mild(t, i), Bell(t), Clock(t), ~t.b.notified,
           t.b.pending = {},
           \/ t.b.state = "SB_DONE"
           \/ t.b.state = "SB_DONE_DOCUMENT" /\ Nothing(t.b)
    PROVE  LET r == Notify(t, "now")
           IN  Mild(r, i) /\ Likes(t, r) /\ Stage(r) /\ r.conn = t.conn
<1>1. PICK r : r = Notify(t, "now")
  OBVIOUS
<1>2. /\ Same(t, r) /\ Bell(r) /\ ~r.nap
      /\ r.timers = t.timers /\ r.timed = t.timed
      /\ r.b.notified /\ r.b.state = t.b.state /\ r.b.loadnum = t.b.loadnum
      /\ r.b.pending = t.b.pending /\ r.b.embedded = t.b.embedded
      /\ r.b.received = t.b.received
  BY <1>1, NotifyRings
<1>3. Clock(r)
  BY <1>2 DEF Clock
<1>4. Phase(r)
  BY <1>2 DEF Phase, Nothing
<1> QED BY <1>1, <1>2, <1>3, <1>4, SameMild DEF Stage, Same

\* response_finished_cb.
LEMMA FinishedMild ==
    ASSUME NEW t \in States, NEW u \in t.b.pending, Good(t, t.b.pending \ {u}), Stage(t),
           NEW i, Mild(t, i), NamedOnce, ConnIds = Nat \ {0}
    PROVE  LET r == ResponseFinished(t, u)
           IN  /\ Mild(r, i) /\ Likes(t, r) /\ Stage(r)
               /\ u \notin Scripts => r.conn = t.conn
<1>1. PICK P : P = t.b.pending \ {u}
  OBVIOUS
<1>2. u \in Urls
  BY Fields, BrowserFields
<1>3. PICK v : v = [Validate(t, u) EXCEPT !.b.pending = @ \ {u}]
  OBVIOUS
<1>4. v \in States /\ Good(v, P)
  BY <1>1, <1>2, <1>3, ValidateIs, NotedKeep
<1>5. /\ Turns(t, v) /\ v.b.state = t.b.state /\ v.b.notified = t.b.notified
      /\ v.b.loadnum = t.b.loadnum /\ v.b.pending = P
      /\ v.b.embedded = t.b.embedded /\ v.b.received = t.b.received
  BY <1>1, <1>3, ValidateTurns
<1>6. PICK r : r = [v EXCEPT !.b.received = @ \cup {u}]
  OBVIOUS
<1>7. r \in States /\ Good(r, P)
  BY <1>2, <1>4, <1>6, ReceivedIs, NotedKeep
<1>8. /\ Turns(v, r) /\ r.b.state = v.b.state /\ r.b.notified = v.b.notified
      /\ r.b.loadnum = v.b.loadnum /\ r.b.pending = P
      /\ r.b.embedded = v.b.embedded /\ r.b.received = v.b.received \cup {u}
  BY <1>4, <1>5, <1>6, ReceivedTurns
<1>9. PICK n : n = IF u \in Scripts THEN RequestNamed(r, u) ELSE r
  OBVIOUS
<1>10. PICK z : z = ResponseFinished(t, u)
  OBVIOUS
<1>11. z = IF u = Doc THEN Notify([v EXCEPT !.b.state = "SB_DONE_DOCUMENT"], "now")
           ELSE IF t.b.state # "SB_FETCHING_EMBEDDED" THEN Abort(t, "not-embedded")
           ELSE IF IsPageDone(n) THEN Notify([n EXCEPT !.b.state = "SB_DONE"], "now")
           ELSE n
  <2> DEFINE v2 == [Validate(t, u) EXCEPT !.b.pending = @ \ {u}]
             r2 == [v2 EXCEPT !.b.received = @ \cup {u}]
             n2 == IF u \in Scripts THEN RequestNamed(r2, u) ELSE r2
  <2>1. z = IF u = Doc THEN Notify([v2 EXCEPT !.b.state = "SB_DONE_DOCUMENT"], "now")
            ELSE IF t.b.state # "SB_FETCHING_EMBEDDED" THEN Abort(t, "not-embedded")
            ELSE IF IsPageDone(n2) THEN Notify([n2 EXCEPT !.b.state = "SB_DONE"], "now")
            ELSE n2
    BY <1>10, Zenon DEF ResponseFinished
  <2>2. v2 = v
    BY <1>3
  <2> HIDE DEF v2
  <2>3. r2 = r
    BY <1>6, <2>2
  <2> HIDE DEF r2
  <2>4. n2 = n
    BY <1>9, <2>3
  <2> HIDE DEF n2
  <2> QED BY <2>1, <2>2, <2>4
<1>12. Mild(v, i) /\ Likes(t, v) /\ Mild(r, i) /\ Likes(t, r)
  BY <1>5, <1>8, TurnsMild, LikesOn
<1>13. t.b.state \in LoadStates
  BY Fields, BrowserFields
<1>14. \/ t.b.state = "SB_FETCHING_DOCUMENT" /\ u = Doc
       \/ t.b.state = "SB_FETCHING_EMBEDDED" /\ u # Doc
  BY <1>13 DEF Stage, Phase, Nothing, LoadStates, Wanted, Wants
<1>15. ~t.b.notified /\ Bell(t) /\ Clock(t)
  BY <1>14 DEF Stage, Phase
<1>16. CASE u = Doc
  <2>1. PICK w : w = [v EXCEPT !.b.state = "SB_DONE_DOCUMENT"]
    OBVIOUS
  <2>2. w \in States
    <3>1. "SB_DONE_DOCUMENT" \in LoadStates
      BY DEF LoadStates
    <3> QED BY <1>4, <2>1, <3>1, StateIs, NotedKeep
  <2>3. /\ Turns(v, w) /\ w.b.state = "SB_DONE_DOCUMENT" /\ w.b.notified = v.b.notified
        /\ w.b.loadnum = v.b.loadnum /\ w.b.pending = P
        /\ w.b.embedded = v.b.embedded /\ w.b.received = v.b.received
    BY <1>4, <1>5, <2>1, StateTurns
  <2>4. Nothing(w.b)
    BY <1>1, <1>5, <1>14, <1>16, <2>3 DEF Stage, Phase, Nothing
  <2>5. Bell(w) /\ Clock(w)
    BY <1>5, <1>14, <1>15, <1>16, <2>3 DEF Bell, Clock, Turns
  <2>6. Mild(w, i) /\ Likes(v, w)
    BY <1>12, <2>3, TurnsMild
  <2>7. z = Notify(w, "now")
    BY <1>11, <1>16, <2>1
  <2>8. Mild(z, i) /\ Likes(w, z) /\ Stage(z) /\ z.conn = w.conn
    BY <1>5, <1>15, <2>2, <2>3, <2>4, <2>5, <2>6, <2>7, NotifyStage DEF Nothing
  <2>9. Likes(t, z)
    BY <1>12, <2>6, <2>8, LikesOn
  <2>10. z.conn = t.conn
    BY <1>5, <2>3, <2>8 DEF Turns, Same
  <2> QED BY <1>10, <2>8, <2>9, <2>10
<1>17. CASE u # Doc
  <2>1. PICK V : V = {Doc} \cup (t.b.received \cap Scripts)
    OBVIOUS
  <2>2. Wants(t.b, V) /\ u \notin t.b.received
    BY <1>14, <1>17, <2>1 DEF Stage, Phase, Wanted, Wants
  <2>3. Wants(r.b, V)
    BY <1>1, <1>5, <1>8, <2>2 DEF Wants
  <2>4. /\ n \in States /\ Mild(n, i) /\ Likes(r, n) /\ Aloof(r, n) /\ Wanted(n.b)
        /\ u \notin Scripts => n.conn = r.conn
    <3>1. CASE u \in Scripts
      <4>1. V \subseteq {Doc} \cup Scripts /\ u \notin V
        BY <1>17, <2>1, <2>2
      <4>2. /\ Good(n, n.b.pending) /\ Mild(n, i) /\ Likes(r, n) /\ Aloof(r, n)
            /\ Wants(n.b, V \cup {u})
        BY <1>7, <1>8, <1>9, <1>12, <2>3, <3>1, <4>1, RequestNamedMild
      <4>3. V \cup {u} = {Doc} \cup (n.b.received \cap Scripts)
        BY <1>5, <1>8, <2>1, <3>1, <4>2 DEF Aloof
      <4> QED BY <3>1, <4>2, <4>3 DEF Wanted, Good
    <3>2. CASE u \notin Scripts
      <4>1. V = {Doc} \cup (r.b.received \cap Scripts)
        BY <1>5, <1>8, <2>1, <3>2
      <4>2. Likes(r, r) /\ Aloof(r, r)
        BY DEF Likes, Like, Aloof
      <4> QED BY <1>7, <1>9, <1>12, <2>3, <3>2, <4>1, <4>2 DEF Wanted
    <3> QED BY <3>1, <3>2
  <2>5. /\ n.b.state = t.b.state /\ ~n.b.notified /\ n.b.loadnum = t.b.loadnum
        /\ n.cbs = t.cbs /\ n.nap = t.nap /\ n.timers = t.timers /\ n.timed = t.timed
    BY <1>5, <1>8, <1>15, <2>4 DEF Aloof, Turns
  <2>6. Bell(n) /\ Clock(n)
    BY <1>15, <2>5 DEF Bell, Clock
  <2>7. IsPageDone(n) <=> n.b.pending = {}
    BY <2>4, PageDoneIs DEF Wanted
  <2>8. Likes(t, n) /\ (u \notin Scripts => n.conn = t.conn)
    BY <1>5, <1>8, <1>12, <2>4, LikesOn DEF Turns, Same
  <2>9. CASE IsPageDone(n)
    <3>1. PICK w : w = [n EXCEPT !.b.state = "SB_DONE"]
      OBVIOUS
    <3>2. w \in States
      <4>1. PICK x : x = [n.b EXCEPT !.state = "SB_DONE"]
        OBVIOUS
      <4>2. n.b \in Browsers
        BY <2>4, Fields
      <4>3. x \in Browsers
        BY <4>1, <4>2 DEF Browsers, LoadStates
      <4>4. w = PutB(n, x)
        BY <3>1, <4>1, Zenon DEF PutB
      <4> QED BY <2>4, <4>3, <4>4, BrowserPut DEF Notes
    <3>3. /\ Turns(n, w) /\ w.b.state = "SB_DONE" /\ w.b.notified = n.b.notified
          /\ w.b.loadnum = n.b.loadnum /\ w.b.pending = n.b.pending
      BY <2>4, <3>1, StateTurns
    <3>4. Bell(w) /\ Clock(w)
      BY <1>14, <1>17, <2>5, <2>6, <3>3 DEF Bell, Clock, Turns
    <3>5. Mild(w, i) /\ Likes(n, w)
      BY <2>4, <3>3, TurnsMild
    <3>6. z = Notify(w, "now")
      BY <1>11, <1>14, <1>17, <2>9, <3>1
    <3>7. Mild(z, i) /\ Likes(w, z) /\ Stage(z) /\ z.conn = w.conn
      BY <2>5, <2>7, <2>9, <3>2, <3>3, <3>4, <3>5, <3>6, NotifyStage
    <3>8. Likes(t, z)
      BY <2>8, <3>5, <3>7, LikesOn
    <3> QED BY <1>10, <2>8, <3>3, <3>7, <3>8 DEF Turns, Same
  <2>10. CASE ~IsPageDone(n)
    <3>1. z = n
      BY <1>11, <1>14, <1>17, <2>10
    <3>2. Phase(n)
      BY <1>14, <1>17, <2>4, <2>5, <2>7, <2>10 DEF Phase
    <3> QED BY <1>10, <2>4, <2>6, <2>8, <3>1, <3>2 DEF Stage
  <2> QED BY <2>9, <2>10
<1> QED BY <1>16, <1>17

-----------------------------------------------------------------------------
(* A connection that is done with a response, or with everything.          *)

\* A connection between two responses is like the others.
LEMMA MildBetween ==
    ASSUME NEW t \in States, Listing(t), NEW i \in Lives(t), Mild(t, i),
           Flushed(t.conn[i]), Begins(t.conn[i].inp),
           t.srv[t.conn[i].host].reqs # <<>> => t.conn[i].act # <<>>
    PROVE  Mild(t, 0)
<1>1. Neats(t, 0)
  BY DEF Mild, Neats
<1>2. Busy(t, 0)
  <2> SUFFICES ASSUME NEW h \in Hosts, t.srv[h].reqs # <<>>
               PROVE  /\ t.srv[h].conns # <<>>
                      /\ \A j \in In(t.srv[h].conns) : j = 0 \/ t.conn[j].act # <<>>
    BY DEF Busy
  <2>1. t.srv[h].conns # <<>> /\ \A j \in In(t.srv[h].conns) : j = i \/ t.conn[j].act # <<>>
    BY DEF Mild, Busy
  <2>2. i \in In(t.srv[h].conns) => t.conn[i].host = h
    BY DEF Listing
  <2> QED BY <2>1, <2>2
<1> QED BY <1>1, <1>2 DEF Mild

LEMMA MildInside ==
    ASSUME NEW t, NEW i, Mild(t, 0), 0 \notin Lives(t),
           \A h \in Hosts : 0 \notin In(t.srv[h].conns)
    PROVE  Mild(t, i)
BY DEF Mild, Neats, Busy

\* cnx_request_done_cb: the connection takes a request, if one waits at its server.
LEMMA DoneMild ==
    ASSUME NEW t \in States, NEW i \in Lives(t), Listing(t), Mild(t, i),
           Accepts(t.conn[i]), Begins(t.conn[i].inp),
           t.srv[t.conn[i].host].reqs = <<>> => Flushed(t.conn[i])
    PROVE  LET r == RequestDone(t, i)
           IN  Mild(r, 0) /\ Likes(t, r) /\ Aside(t, r) /\ Flushed(r.conn[i])
<1>1. PICK h \in Hosts : h = t.conn[i].host /\ i \in In(t.srv[h].conns)
  BY LiveConn
<1>2. t.srv[h].conns # <<>>
  BY <1>1, InEmpty
<1>3. PICK r : r = RequestDone(t, i)
  OBVIOUS
<1>4. r = IF t.srv[h].reqs = <<>> THEN t ELSE SubmitFront(t, i)
  BY <1>1, <1>2, <1>3, Zenon DEF RequestDone
<1>5. CASE t.srv[h].reqs = <<>>
  <2>1. Mild(t, 0)
    BY <1>1, <1>5, MildBetween
  <2>2. Likes(t, t) /\ Aside(t, t)
    BY DEF Likes, Like, Aside
  <2>3. r = t /\ Flushed(t.conn[i])
    BY <1>1, <1>4, <1>5
  <2> QED BY <1>3, <2>1, <2>2, <2>3
<1>6. CASE t.srv[h].reqs # <<>>
  <2>1. Neats(t, i)
    BY DEF Mild
  <2>2. /\ Neats(r, i) /\ Likes(t, r) /\ Lives(r) = Lives(t)
        /\ \E e : Fronts(t, r, i, e) /\ e.act # <<>> /\ Flushed(e)
    BY <1>1, <1>4, <1>6, <2>1, FrontMild
  <2>3. PICK e : Fronts(t, r, i, e) /\ e.act # <<>> /\ Flushed(e)
    BY <2>2
  <2>4. /\ r \in States /\ r.conn[i] = e
        /\ \A j \in ConnIds : j # i => r.conn[j] = t.conn[j]
        /\ \A g \in Hosts : r.srv[g].conns = t.srv[g].conns
        /\ \A g \in Hosts : g # h => r.srv[g] = t.srv[g]
        /\ Aside(t, r)
    BY <1>1, <2>3 DEF Fronts
  <2>5. \A g \in Hosts : \A j \in In(t.srv[g].conns) :
            t.conn[j].act # <<>> => r.conn[j].act # <<>>
    <3> SUFFICES ASSUME NEW g \in Hosts, NEW j \in In(t.srv[g].conns), t.conn[j].act # <<>>
                 PROVE  r.conn[j].act # <<>>
      OBVIOUS
    <3>1. j \in ConnIds
      BY Fields, InEmpty
    <3> QED BY <2>3, <2>4, <3>1
  <2>6. Full(r, i, h)
    <3>1. Full(t, i, h)
      BY <1>6 DEF Mild, Busy, Full
    <3> QED BY <2>4, <2>5, <3>1 DEF Full
  <2>7. Busy(r, i)
    BY <2>4, <2>5, <2>6, BusyOn DEF Mild
  <2>8. Mild(r, i)
    BY <2>2, <2>4, <2>7 DEF Mild, Aside
  <2>9. Busy(r, 0)
    BY <2>3, <2>4, <2>7 DEF Busy
  <2>10. Begins(r.conn[i].inp)
    BY <2>2 DEF Likes, Like
  <2>11. Mild(r, 0)
    BY <2>2, <2>3, <2>4, <2>8, <2>9, <2>10 DEF Mild, Neats
  <2> QED BY <1>3, <2>2, <2>3, <2>4, <2>11
<1> QED BY <1>5, <1>6

\* What release_conn makes of the state.
Unlisted(t, r, i, h) ==
    /\ r \in States /\ r.conn = t.conn /\ r.req = t.req /\ r.proxy = t.proxy
    /\ r.misplaced = t.misplaced /\ r.abort = t.abort /\ r.b = t.b
    /\ r.persist = t.persist /\ r.nap = t.nap /\ r.timers = t.timers /\ r.timed = t.timed
    /\ r.cbs = t.cbs \o <<i>>
    /\ Distinct(r.srv[h].conns) /\ In(r.srv[h].conns) = In(t.srv[h].conns) \ {i}
    /\ r.srv[h].conns = <<>> => r.srv[h].reqs = <<>>
    /\ SameElsewhere(t, r, h) /\ Dropped(t, r, h)

LEMMA ReleaseIs ==
    ASSUME NEW t \in States, Listing(t), NEW i \in Lives(t)
    PROVE  Unlisted(t, ReleaseConn(t, i), i, t.conn[i].host)
<1>1. PICK h \in Hosts : h = t.conn[i].host /\ i \in In(t.srv[h].conns)
  BY LiveConn
<1>2. i \in ConnIds /\ i \in Nat /\ i # 0
  BY LiveConn, Constants
<1>3. PICK conns \in Seq(ConnIds) : conns = t.srv[h].conns
  BY Fields
<1>4. PICK kept : kept = RemoveFirst(conns, i)
  OBVIOUS
<1>5. kept \in Seq(ConnIds) /\ In(kept) = In(conns) \ {i} /\ Distinct(kept)
  BY <1>1, <1>3, <1>4, Removed DEF Listing
<1>6. PICK one \in Seq(Nat) : one = <<i>>
  BY <1>2, InOne
<1>7. Len(one) = 1 /\ one[1] = i
  BY <1>2, <1>6, InOne
<1>8. [k \in 1..Len(<<i>>) |-> <<i>>[k]] = one
  BY <1>2, <1>6
<1>9. PICK cbs : cbs = t.cbs \o one
  OBVIOUS
<1>10. cbs \in Seq(Nat)
  BY <1>9, Fields, InConcat
<1>11. PICK m : m = [t EXCEPT !.cbs = cbs]
  OBVIOUS
<1>12. m = DeleteLater(t, <<i>>)
  BY <1>8, <1>9, <1>11, Zenon DEF DeleteLater
<1>13. m \in States
  BY <1>10, <1>11, Zenon DEF States
<1>14. /\ m.conn = t.conn /\ m.req = t.req /\ m.proxy = t.proxy /\ m.misplaced = t.misplaced
       /\ m.abort = t.abort /\ m.cbs = cbs /\ m.srv = t.srv /\ m.lost = t.lost /\ m.b = t.b
       /\ m.persist = t.persist /\ m.nap = t.nap /\ m.timers = t.timers /\ m.timed = t.timed
  BY <1>11 DEF States
<1>15. Contains(conns, i)
  <2>1. \E k \in 1..Len(conns) : conns[k] = i
    BY <1>1, <1>3 DEF In
  <2> QED BY <2>1 DEF Contains
<1>16. PICK lost : lost = t.lost \cup In(t.srv[h].reqs)
  OBVIOUS
<1>17. ToSet(t.srv[h].reqs) = In(t.srv[h].reqs)
  <2>1. t.srv[h].reqs \in Seq(Urls)
    BY Fields
  <2> QED BY <2>1 DEF ToSet, In
<1>18. PICK r : r = ReleaseConn(t, i)
  OBVIOUS
<1>19. r = IF kept # <<>> THEN [m EXCEPT !.srv[h].conns = kept]
           ELSE [m EXCEPT !.srv[h] = NoServer, !.lost = lost]
  <2>1. m.lost \cup ToSet(t.srv[h].reqs) = lost
    BY <1>14, <1>16, <1>17
  <2>2. ~Contains(t.srv[h].conns, i) <=> FALSE
    BY <1>3, <1>15
  <2> DEFINE h2 == t.conn[i].host
             left2 == RemoveFirst(t.srv[h2].conns, i)
             m2 == DeleteLater(t, <<i>>)
  <2>3. r = IF ~Contains(t.srv[h2].conns, i) THEN Abort(m2, "not-listed")
            ELSE IF ~EntryGoes(left2) THEN [m2 EXCEPT !.srv[h2].conns = left2]
            ELSE [m2 EXCEPT !.srv[h2] = NoServer, !.lost = @ \cup ToSet(t.srv[h2].reqs)]
    BY <1>18, Zenon DEF ReleaseConn
  <2>4. h2 = h
    BY <1>1
  <2> HIDE DEF h2
  <2>5. left2 = kept
    BY <1>3, <1>4, <2>4
  <2>6. m2 = m
    BY <1>12
  <2> HIDE DEF left2, m2
  <2>7. r = IF ~(kept = <<>>) THEN [m EXCEPT !.srv[h].conns = kept]
            ELSE [m EXCEPT !.srv[h] = NoServer, !.lost = @ \cup ToSet(t.srv[h].reqs)]
    BY <2>2, <2>3, <2>4, <2>5, <2>6, Zenon DEF EntryGoes
  <2>8. [m EXCEPT !.srv[h] = NoServer, !.lost = @ \cup ToSet(t.srv[h].reqs)]
        = [m EXCEPT !.srv[h] = NoServer, !.lost = lost]
    <3>1. PICK z : z = [m EXCEPT !.srv[h] = NoServer]
      OBVIOUS
    <3>2. z.lost = m.lost
      BY <1>13, <3>1 DEF States
    <3>3. [z EXCEPT !.lost = @ \cup ToSet(t.srv[h].reqs)] = [z EXCEPT !.lost = lost]
      BY <2>1, <3>2
    <3> QED BY <3>1, <3>3, Zenon
  <2> QED BY <2>7, <2>8
<1>20. /\ r \in States /\ r.conn = m.conn /\ r.req = m.req /\ r.proxy = m.proxy /\ r.b = m.b
       /\ r.misplaced = m.misplaced /\ r.abort = m.abort /\ r.cbs = m.cbs
       /\ r.persist = m.persist /\ r.nap = m.nap /\ r.timers = m.timers /\ r.timed = m.timed
       /\ r.srv[h].conns = kept /\ \A g \in Hosts : g # h => r.srv[g] = m.srv[g]
       /\ \/ r.srv[h].reqs = m.srv[h].reqs /\ r.lost = m.lost /\ kept # <<>>
          \/ r.srv[h].reqs = <<>> /\ r.lost = lost
  <2>1. CASE kept # <<>>
    <3>1. r = PutConns(m, h, kept)
      BY <1>19, <2>1 DEF PutConns
    <3>2. ConnsIs(m, r, h, kept) /\ Aside(m, r)
      BY <1>5, <1>13, <3>1, ConnsPut, AsidePut
    <3> QED BY <2>1, <3>2 DEF ConnsIs, Aside
  <2>2. CASE kept = <<>>
    <3>1. NoServer \in Servers /\ NoServer.conns = <<>> /\ NoServer.reqs = <<>>
      BY DEF NoServer, Servers
    <3>2. lost \in SUBSET Urls
      BY <1>16, Fields, InEmpty
    <3>3. PICK z : z = [m EXCEPT !.srv[h] = NoServer]
      OBVIOUS
    <3>4. z \in States
      BY <1>13, <3>1, <3>3, SrvPut
    <3>5. r = [z EXCEPT !.lost = lost]
      BY <1>19, <2>2, <3>3, Zenon
    <3>6. r \in States
      BY <3>2, <3>4, <3>5, Zenon DEF States
    <3>7. /\ z.conn = m.conn /\ z.req = m.req /\ z.proxy = m.proxy /\ z.b = m.b
          /\ z.misplaced = m.misplaced /\ z.abort = m.abort /\ z.cbs = m.cbs
          /\ z.persist = m.persist /\ z.nap = m.nap /\ z.timers = m.timers /\ z.timed = m.timed
          /\ z.srv[h] = NoServer /\ \A g \in Hosts : g # h => z.srv[g] = m.srv[g]
      BY <1>13, <3>3 DEF States
    <3>8. /\ r.conn = z.conn /\ r.req = z.req /\ r.proxy = z.proxy /\ r.b = z.b
          /\ r.misplaced = z.misplaced /\ r.abort = z.abort /\ r.cbs = z.cbs
          /\ r.persist = z.persist /\ r.nap = z.nap /\ r.timers = z.timers /\ r.timed = z.timed
          /\ r.srv = z.srv /\ r.lost = lost
      BY <3>4, <3>5 DEF States
    <3> QED BY <2>2, <3>1, <3>6, <3>7, <3>8
  <2> QED BY <2>1, <2>2
<1>21. Unlisted(t, r, i, h)
  <2>1. Distinct(r.srv[h].conns) /\ In(r.srv[h].conns) = In(t.srv[h].conns) \ {i}
    BY <1>3, <1>5, <1>20
  <2>2. Dropped(t, r, h) /\ SameElsewhere(t, r, h)
    BY <1>14, <1>16, <1>20 DEF Dropped, SameElsewhere
  <2>3. r.cbs = t.cbs \o <<i>>
    BY <1>6, <1>9, <1>14, <1>20
  <2>4. r.srv[h].conns = <<>> => r.srv[h].reqs = <<>>
    BY <1>20
  <2> QED BY <1>14, <1>20, <2>1, <2>2, <2>3, <2>4, Zenon DEF Unlisted
<1> QED BY <1>1, <1>18, <1>21

\* A process in which nothing has failed, between two things it does; and one of whose
\* connections, i, is about to go.
Calm(t) == Mild(t, 0) /\ Stage(t)
Spared(t, i) ==
    /\ t.abort = "no" /\ t.persist # 0 /\ Busy(t, 0) /\ Stage(t)
    /\ \A j \in Lives(t) :
          j # i => Neat(t.conn[j]) /\ Flushed(t.conn[j]) /\ Begins(t.conn[j].inp)
LikesBut(t, r, i) == \A j \in Lives(t) : j # i => j \in Lives(r) /\ Like(t.conn[j], r.conn[j])
CalmBut(t, r, i) == Calm(r) /\ LikesBut(t, r, i)

LEMMA CalmSpares ==
    ASSUME NEW t, Calm(t)
    PROVE  \A i : Spared(t, i)
<1>1. \A j \in Lives(t) : j # 0
  BY Constants DEF Lives
<1> QED BY <1>1 DEF Calm, Mild, Neats, Spared

LEMMA LikesButOn ==
    ASSUME NEW t, NEW r, NEW v, NEW i, LikesBut(t, r, i), LikesBut(r, v, i)
    PROVE  LikesBut(t, v, i)
BY DEF LikesBut, Like

\* release_conn finds the connection.
LEMMA ReleaseMild ==
    ASSUME NEW t \in States, Listing(t), NEW i \in Lives(t), Spared(t, i)
    PROVE  CalmBut(t, ReleaseConn(t, i), i)
<1>1. PICK h \in Hosts : h = t.conn[i].host
  BY LiveConn
<1>2. PICK r : r = ReleaseConn(t, i)
  OBVIOUS
<1>3. Unlisted(t, r, i, h)
  BY <1>1, <1>2, ReleaseIs
<1>4. \A j \in Lives(r) : j \in Lives(t) /\ j # i
  <2> SUFFICES ASSUME NEW j \in ConnIds, NEW g \in Hosts, j \in In(r.srv[g].conns)
               PROVE  j \in In(t.srv[g].conns) /\ j # i
    BY DEF Lives
  <2>1. CASE g = h
    BY <1>3, <2>1 DEF Unlisted
  <2>2. CASE g # h
    <3>1. j \in In(t.srv[g].conns)
      BY <1>3, <2>2 DEF Unlisted, SameElsewhere
    <3>2. t.conn[j].host = g
      BY <3>1 DEF Listing
    <3> QED BY <1>1, <2>2, <3>1, <3>2
  <2> QED BY <2>1, <2>2
<1>5. \A j \in Lives(t) : j # i => j \in Lives(r)
  <2> SUFFICES ASSUME NEW j \in ConnIds, NEW g \in Hosts, j \in In(t.srv[g].conns), j # i
               PROVE  j \in In(r.srv[g].conns)
    BY DEF Lives
  <2> QED BY <1>3 DEF Unlisted, SameElsewhere
<1>6. r.conn = t.conn /\ r.abort = t.abort /\ r.persist = t.persist
  BY <1>3 DEF Unlisted
<1>7. Neats(r, 0) /\ LikesBut(t, r, i)
  BY <1>4, <1>5, <1>6 DEF Neats, LikesBut, Like, Spared
<1>8. Busy(r, 0)
  <2>1. r.srv[h].reqs # <<>> => Full(r, 0, h)
    <3> HAVE r.srv[h].reqs # <<>>
    <3>1. r.srv[h].reqs = t.srv[h].reqs
      BY <1>3 DEF Unlisted, Dropped
    <3>2. \A j \in In(t.srv[h].conns) : j = 0 \/ t.conn[j].act # <<>>
      BY <3>1 DEF Spared, Busy
    <3> QED BY <1>3, <1>6, <3>2 DEF Unlisted, Full
  <2>2. \A g \in Hosts : g # h => r.srv[g] = t.srv[g]
    BY <1>3 DEF Unlisted, SameElsewhere
  <2>3. r \in States
    BY <1>3 DEF Unlisted
  <2> QED BY <1>6, <2>1, <2>2, <2>3, BusyOn DEF Spared
<1>9. Stage(r)
  <2>1. i \in Nat /\ i # 0
    BY LiveConn, Constants
  <2>2. PICK one \in Seq(Nat) : one = <<i>> /\ In(one) = {i}
    BY <2>1, InOne
  <2>3. 0 \notin In(one)
    BY <2>1, <2>2
  <2>4. r.cbs = t.cbs \o one
    BY <1>3, <2>2 DEF Unlisted
  <2>5. Rung(r.cbs) /\ (0 \in In(r.cbs) <=> 0 \in In(t.cbs))
    <3>1. PICK q \in Seq(Nat) : q = t.cbs
      BY Fields
    <3>2. Rung(q)
      BY <3>1 DEF Spared, Stage, Bell
    <3>3. Rung(q \o one) /\ (0 \in In(q \o one) <=> 0 \in In(q))
      BY <2>3, <3>2, RungAppend
    <3> QED BY <2>4, <3>1, <3>3
  <2>6. r.b = t.b /\ r.nap = t.nap /\ r.timers = t.timers /\ r.timed = t.timed
    BY <1>3 DEF Unlisted
  <2> QED BY <2>5, <2>6 DEF Spared, Stage, Bell, Clock, Phase
<1> QED BY <1>2, <1>6, <1>7, <1>8, <1>9 DEF CalmBut, Calm, Mild, Spared

\* retry_requests, of one request.
LEMMA RetryMild ==
    ASSUME NEW t \in States, NEW u \in t.b.pending, Good(t, t.b.pending \ {u}), Calm(t),
           NamedOnce, ConnIds = Nat \ {0}
    PROVE  LET r == RetryRequest(t, u)
           IN  Calm(r) /\ Likes(t, r)
<1>1. PICK r : r = RetryRequest(t, u)
  OBVIOUS
<1>2. CASE t.req[u].retries = MaxRetries
  <2>1. r = ResponseFinished(t, u)
    BY <1>1, <1>2 DEF RetryRequest
  <2> QED BY <1>1, <2>1, FinishedMild DEF Calm
<1>3. CASE t.req[u].retries # MaxRetries
  <2>1. u \in Urls
    BY Fields, BrowserFields
  <2>2. PICK x \in Requests : x = Retried(t.req[u])
    BY <2>1, Fields, RetriedIs
  <2>3. PICK m : m = PutReq(t, u, x)
    OBVIOUS
  <2>4. ReqIs(t, m, u, x) /\ Aside(t, m)
    BY <2>1, <2>3, ReqPut, AsidePut
  <2>5. Good(m, t.b.pending \ {u}) /\ m \in States
    BY <2>1, <2>4, Rerequested DEF ReqIs
  <2>6. Same(t, m)
    BY <2>4 DEF ReqIs, Same
  <2>7. Mild(m, 0) /\ Likes(t, m) /\ Stage(m)
    BY <2>4, <2>6, SameMild, AsideStage DEF Calm
  <2>8. r = SubmitRequest(m, u)
    BY <1>1, <1>3, <2>2, <2>3, Zenon DEF RetryRequest, PutReq
  <2>9. Mild(r, 0) /\ Likes(m, r) /\ Aside(m, r)
    BY <2>1, <2>5, <2>7, <2>8, SubmitMild
  <2>10. Likes(t, r) /\ Stage(r)
    BY <2>7, <2>9, LikesOn, AsideStage
  <2> QED BY <1>1, <2>9, <2>10 DEF Calm
<1> QED BY <1>2, <1>3

\* handle_unusable_conn: nothing was submitted to the connection but its request.
LEMMA UnusableIdle ==
    ASSUME NEW t \in States, Listing(t), NEW i \in Lives(t), Spared(t, i),
           t.conn[i].sub = <<>>, t.conn[i].act = <<>>
    PROVE  CalmBut(t, Unusable(t, i), i)
<1>1. PICK m : m = ReleaseConn(t, i)
  OBVIOUS
<1>2. Unusable(t, i) = RetryRequests(m, <<>>)
  BY <1>1, Zenon DEF Unusable
<1> QED BY <1>1, <1>2, RetriesAre, ReleaseMild

LEMMA UnusableMild ==
    ASSUME NEW t \in States, Good(t, t.b.pending), NEW i \in Lives(t), Spared(t, i),
           t.conn[i].sub = <<>>, NamedOnce, ConnIds = Nat \ {0}
    PROVE  CalmBut(t, Unusable(t, i), i)
<1>a. Sound(t) /\ Listing(t) /\ Counted(t, t.b.pending)
  BY DEF Good, Sound
<1>1. PICK c \in Conns : c = t.conn[i]
  BY <1>a, LiveConn
<1>2. c.act \in Seq(Urls) /\ Len(c.act) <= 1
  BY <1>1, <1>a, ConnFields DEF Sound, Loads, Tidy
<1>3. CASE c.act = <<>>
  BY <1>1, <1>3, <1>a, UnusableIdle
<1>4. CASE c.act # <<>>
  <2>1. PICK u \in Urls : u = c.act[1]
    BY <1>2, <1>4, InTail
  <2>2. c.act = <<u>>
    BY <1>2, <1>4, <2>1
  <2>3. On(c) = {u}
    BY <1>1, <2>2, InEmpty, InOne DEF On
  <2>4. u \in t.b.pending
    <3>1. On(c) \subseteq Rides(t)
      BY <1>1, <1>a, Exclusive
    <3> QED BY <1>a, <2>3, <3>1 DEF Counted, Under
  <2>5. PICK m : m = ReleaseConn(t, i)
    OBVIOUS
  <2>6. Good(m, t.b.pending \ {u}) /\ m.b = t.b /\ m \in States
    BY <1>1, <2>3, <2>5, ReleaseKeeps DEF Without
  <2>7. Calm(m) /\ LikesBut(t, m, i)
    BY <1>a, <2>5, ReleaseMild DEF CalmBut
  <2>8. PICK r : r = Unusable(t, i)
    OBVIOUS
  <2>9. r = RetryRequest(m, u)
    <3>1. r = RetryRequests(m, <<u>>)
      BY <1>1, <2>2, <2>5, <2>8, Zenon DEF Unusable
    <3> QED BY <3>1, RetriesAre
  <2>10. Calm(r) /\ Likes(m, r)
    BY <2>4, <2>6, <2>7, <2>9, RetryMild
  <2>11. LikesBut(m, r, i)
    BY <2>10 DEF Likes, LikesBut
  <2> QED BY <2>7, <2>8, <2>10, <2>11, LikesButOn DEF CalmBut
<1> QED BY <1>3, <1>4

-----------------------------------------------------------------------------
(* What a connection reads, when nothing fails.                            *)

\* A request that was submitted to a connection is next.
LEMMA NextMild ==
    ASSUME NEW t \in States, NEW i \in Lives(t), Listing(t), Mild(t, i),
           Accepts(t.conn[i]), Begins(t.conn[i].inp)
    PROVE  LET r == HttpWriteToOutbuf(RequestDone(t, i), i)
           IN  Mild(r, 0) /\ Likes(t, r) /\ Aside(t, r)
<1>1. PICK m : m = RequestDone(t, i)
  OBVIOUS
<1>2. PICK r : r = HttpWriteToOutbuf(m, i)
  OBVIOUS
<1>3. CASE t.srv[t.conn[i].host].reqs = <<>> => Flushed(t.conn[i])
  <2>1. Mild(m, 0) /\ Likes(t, m) /\ Aside(t, m) /\ Flushed(m.conn[i])
    BY <1>1, <1>3, DoneMild
  <2>2. r = m
    BY <1>2, <2>1 DEF HttpWriteToOutbuf, Flushed
  <2> QED BY <1>1, <1>2, <2>1, <2>2
<1>4. CASE t.srv[t.conn[i].host].reqs = <<>> /\ ~Flushed(t.conn[i])
  <2>1. PICK h \in Hosts : h = t.conn[i].host /\ i \in In(t.srv[h].conns)
    BY LiveConn
  <2>2. m = t
    <3>1. t.srv[h].conns # <<>>
      BY <2>1, InEmpty
    <3> QED BY <1>1, <1>4, <2>1, <3>1, Zenon DEF RequestDone
  <2>3. i \in ConnIds /\ t.conn[i] \in Conns /\ \A u \in Urls : t.req[u] \in Requests
    BY LiveConn, Fields
  <2>4. PICK c \in Conns : c = t.conn[i]
    BY <2>3
  <2>5. PICK d : d = Written(c, t.req)
    OBVIOUS
  <2>6. Wrote(c, d, t.req) /\ d \in Conns
    BY <2>3, <2>5, WrittenIs DEF Wrote
  <2>7. ConnIs(t, r, i, d) /\ Aside(t, r)
    BY <1>2, <2>2, <2>3, <2>4, <2>5, <2>6, OutbufIs, ConnPut, AsidePut
  <2>8. c.act = <<>> /\ c.sub # <<>> /\ c.inp = <<>> /\ c.todo = <<>> /\ Neat(c)
        /\ c.st = "CONNECTED" /\ c.readcb = "http" /\ ~c.closed
    BY <1>4, <2>4 DEF Accepts, Flushed, Mild, Neats, Neat
  <2>9. /\ d.st = c.st /\ d.readcb = c.readcb /\ d.mev = c.mev /\ d.inp = c.inp
        /\ d.todo = c.todo /\ d.closed = c.closed /\ d.out /\ d.act # <<>>
    <3>1. d.act = <<Head(c.sub)>> /\ d.out
      BY <2>6, <2>8 DEF Wrote
    <3>2. d.act # <<>>
      BY <3>1
    <3> QED BY <2>6, <3>1, <3>2 DEF Wrote
  <2>10. (d.wen <=> d.writecb = "http") /\ d.writecb = "http"
    BY <2>3, <2>5, <2>8, WrittenWrites DEF Neat
  <2>11. Neat(d) /\ Flushed(d) /\ Begins(d.inp) /\ Like(c, d)
    BY <2>8, <2>9, <2>10 DEF Neat, Flushed, Begins, Like
  <2>12. Lives(r) = Lives(t) /\ \A j \in Lives(t) : j # i => r.conn[j] = t.conn[j]
    BY <2>7 DEF ConnIs, Lives
  <2>13. r.conn[i] = d /\ r.srv = t.srv /\ r.abort = t.abort /\ r.persist = t.persist
    BY <2>7 DEF ConnIs
  <2>14. Neats(r, 0) /\ Likes(t, r)
    BY <2>4, <2>11, <2>12, <2>13 DEF Mild, Neats, Likes, Like
  <2>15. Busy(r, 0)
    <3> SUFFICES ASSUME NEW g \in Hosts, r.srv[g].reqs # <<>>
                 PROVE  /\ r.srv[g].conns # <<>>
                        /\ \A j \in In(r.srv[g].conns) : j = 0 \/ r.conn[j].act # <<>>
      BY DEF Busy
    <3>1. /\ t.srv[g].conns # <<>>
          /\ \A j \in In(t.srv[g].conns) : j = i \/ t.conn[j].act # <<>>
      BY <2>13 DEF Mild, Busy
    <3>2. \A j \in In(t.srv[g].conns) : j \in ConnIds
      BY Fields, InEmpty
    <3> QED BY <2>7, <2>9, <2>13, <3>1, <3>2 DEF ConnIs
  <2> QED BY <1>1, <1>2, <2>7, <2>13, <2>14, <2>15 DEF Mild
<1> QED BY <1>3, <1>4

LEMMA QuietlyStage ==
    ASSUME NEW t, NEW r, Quietly(t, r), Stage(t)
    PROVE  Stage(r)
<1>1. Bell(r) /\ Clock(r)
  BY DEF Quietly, Aloof, Stage, Bell, Clock
<1>2. Nothing(t.b) => Nothing(r.b)
  BY DEF Quietly, Aloof, Nothing
<1>3. Wanted(t.b) => Wanted(r.b)
  BY DEF Quietly, Aloof, Wanted, Wants
<1>4. Phase(r)
  BY <1>2, <1>3 DEF Quietly, Aloof, Stage, Phase
<1> QED BY <1>1, <1>4 DEF Stage

\* A connection with q to be read.
LEMMA FillNeat ==
    ASSUME NEW c \in Conns, NEW q \in Seq(Units)
    PROVE  Neat(Fill(c, q)) <=>
              /\ c.wen <=> c.writecb = "http"
              /\ c.st = "CONNECTING" => c.out /\ c.sub = <<>> /\ ~c.closed
              /\ c.mev = "CONNECTING" => c.st = "CONNECTING"
              /\ c.st = "CONNECTING" /\ c.readcb = "http" => c.mev = "CONNECTING"
              /\ c.out /\ c.readcb = "http" => c.writecb = "http"
              /\ c.closed => c.sub = <<>> /\ c.todo = <<>> /\ (q # <<>> => In(c.act) \cap Scripts = {})
              /\ Begins(c.todo)
              /\ c.readcb = "NULL" => c.writecb = "socks"
              /\ c.readcb = "socks" => q # <<>> \/ c.todo # <<>>
              /\ c.act # <<>> /\ ~c.out /\ ~c.closed => Ends(q \o c.todo, c.act[1])
<1>1. PICK d : d = Fill(c, q)
  OBVIOUS
<1>2. /\ d.inp = q
      /\ d.st = c.st /\ d.sub = c.sub /\ d.act = c.act /\ d.out = c.out /\ d.mev = c.mev
      /\ d.readcb = c.readcb /\ d.todo = c.todo /\ d.writecb = c.writecb
      /\ d.wen = c.wen /\ d.closed = c.closed
  BY <1>1 DEF Fill, Conns
<1> QED BY <1>1, <1>2 DEF Neat

\* A response comes to its last unit, and not before.
LEMMA EndsOn ==
    ASSUME NEW u \in Urls, NEW c \in Conns, NEW r \in Requests, NEW p \in Nat,
           NEW q \in Seq(Units), Reading(c, r, u, p, q), p # Lasts(u, c.first), Ends(q, u)
    PROVE  Ends(Tail(q), u)
<1>1. q # <<>> /\ q[Len(q)] = Unit("body", Size[u] - 1)
  BY DEF Ends
<1>2. PICK f \in Nat : f = c.first
  BY ConnFields
<1>3. q[1] = At(u, f, p) /\ p \in 1..Lasts(u, f) /\ f < Size[u]
  BY <1>1, <1>2, ReadNext DEF Reading
<1>4. Size[u] \in Nat /\ Header(f) \in {3, 4} /\ Lasts(u, f) = Header(f) + Size[u] - f
  BY Constants DEF Header, Lasts
<1>5. Len(q) # 1
  <2> SUFFICES ASSUME Len(q) = 1 PROVE FALSE
    OBVIOUS
  <2>1. At(u, f, p) = Unit("body", Size[u] - 1)
    BY <1>1, <1>3
  <2>2. At(u, f, p).kind = "body" /\ At(u, f, p).val = Size[u] - 1
    BY <1>4, <2>1, UnitIs DEF Kinds
  <2>3. Size[u] - 1 = f + p - Header(f) - 1
    BY <1>3, <2>2, AtIs
  <2>4. p = Lasts(u, f)
    BY <1>3, <1>4, <2>3
  <2> QED BY <1>2, <2>4
<1>6. Tail(q) \in Seq(Units) /\ Len(Tail(q)) = Len(q) - 1 /\ Len(q) >= 2
      /\ Tail(q)[Len(q) - 1] = q[Len(q)]
  <2>1. PICK n \in Nat : n = Len(q)
    OBVIOUS
  <2>2. n # 0 /\ n # 1
    BY <1>1, <1>5, <2>1
  <2>3. Len(Tail(q)) = n - 1 /\ Tail(q) \in Seq(Units)
        /\ \A k \in 1..(n - 1) : Tail(q)[k] = q[k + 1]
    BY <1>1, <2>1
  <2>4. n - 1 \in 1..(n - 1) /\ n - 1 + 1 = n /\ n >= 2
    BY <2>2
  <2> QED BY <2>1, <2>3, <2>4
<1>7. Tail(q) # <<>>
  BY <1>6
<1> QED BY <1>1, <1>6, <1>7 DEF Ends

\* What comes next.
LEMMA SecondIs ==
    ASSUME NEW u \in Urls, NEW c \in Conns, NEW r \in Requests, NEW p \in Nat,
           NEW q \in Seq(Units), q # <<>>, Tail(q) # <<>>, NEW w \in Seq(Units),
           Reading(c, r, u, p, q \o w)
    PROVE  /\ p + 1 \in 1..Lasts(u, c.first)
           /\ Tail(q)[1] = At(u, c.first, p + 1)
<1>1. PICK v \in Seq(Units) : v = q \o w
  BY ConcatIs
<1>2. Len(q) >= 2 /\ Len(v) = Len(q) + Len(w) /\ v[2] = q[2] /\ Tail(q)[1] = q[2]
  <2>1. Len(q) \in Nat /\ Len(q) # 0 /\ Len(q) # 1
    <3>1. Len(Tail(q)) = Len(q) - 1 /\ Tail(q) \in Seq(Units) /\ Len(q) \in Nat
      BY InTail
    <3>2. Len(Tail(q)) # 0
      BY <3>1
    <3>3. Len(q) # 0
      OBVIOUS
    <3> QED BY <3>1, <3>2, <3>3
  <2>2. Len(w) \in Nat /\ 2 \in 1..(Len(q) + Len(w))
    BY <2>1
  <2>3. Tail(q)[1] = q[2]
    BY <2>1
  <2> QED BY <1>1, <2>1, <2>2, <2>3, ConcatIs
<1>3. PICK f \in Nat : f = c.first
  BY ConnFields
<1>4. Size[u] \in Nat /\ Header(f) \in {3, 4} /\ Lasts(u, f) = Header(f) + Size[u] - f
  BY Constants DEF Header, Lasts
<1>5. /\ f < Size[u] /\ p \in 1..Lasts(u, f) /\ Len(v) <= Lasts(u, f) - p + 1
      /\ \A j \in 1..Len(v) : v[j] = Response(u, f)[p + j - 1]
  BY <1>1, <1>3 DEF Reading
<1>6. p + 1 \in 1..Lasts(u, f)
  BY <1>2, <1>4, <1>5
<1>7. v[2] = Response(u, f)[p + 1]
  <2>1. 2 \in 1..Len(v) /\ p + 2 - 1 = p + 1
    BY <1>2
  <2> QED BY <1>5, <2>1
<1>8. Response(u, f)[p + 1] = At(u, f, p + 1)
  BY <1>5, <1>6, ResponseIs
<1> QED BY <1>2, <1>3, <1>6, <1>7, <1>8

\* The process, nothing having failed, when connection i has q left of what was there to
\* be read: the end of a header that should have told the range did.
Gently(t, i, q) ==
    {x \in Got(t, i, q) :
        /\ Spared(x, i) /\ LikesBut(t, x, i) /\ x.conn[i].closed = t.conn[i].closed
        /\ Neat(Fill(x.conn[i], q)) /\ Flushed(x.conn[i])
        /\ q # <<>> /\ q[1].kind = "blank" => x.conn[i].first = 0 \/ x.conn[i].ranged}

LEMMA GentleStep ==
    ASSUME NEW t \in States, NEW i \in Lives(t), NEW q \in Seq(Units), q # <<>>,
           NEW x \in Gently(t, i, q), NEW u \in Urls, NEW p \in Nat,
           Midway(x, i, q, u, p), p # Lasts(u, x.conn[i].first),
           NEW y, Reads(x, y, i, u, p), y \in Got(t, i, Tail(q))
    PROVE  y \in Gently(t, i, Tail(q))
<1>1. /\ x \in Got(t, i, q) /\ Spared(x, i) /\ LikesBut(t, x, i)
      /\ x.conn[i].closed = t.conn[i].closed /\ Neat(Fill(x.conn[i], q))
  BY DEF Gently
<1>2. x.abort = "no"
  BY <1>1 DEF Spared
<1>3. /\ x \in States /\ i \in ConnIds /\ x.conn[i] \in Conns /\ x.req[u] \in Requests
      /\ x.conn[i].act = <<u>> /\ x.conn[i].first \in Nat /\ x.conn[i].first < Size[u]
  BY <1>1, <1>2, ReadFacts
<1>4. PICK c \in Conns : c = x.conn[i]
  BY <1>3
<1>a. PICK d \in Conns, z \in Requests :
         /\ Moved(x, y, i, d, u, z) /\ Quietly(x, y) /\ Later(c, d)
         /\ p = 3 /\ p < Header(c.first) => d.ranged
  BY <1>4 DEF Reads, Advances
<1>5. PICK w \in Seq(Units) : w = c.todo
  BY ConnFields
<1>6. PICK r \in Seq(Units) : r = Tail(q)
  BY InTail
<1>7. Reading(c, x.req[u], u, p, q \o w) /\ ~c.out /\ p # Lasts(u, c.first)
  BY <1>4, <1>5 DEF Midway, Reading
<1>8. /\ y.conn[i] = d /\ (\A j \in ConnIds : j # i => y.conn[j] = x.conn[j])
      /\ y.srv = x.srv /\ Lives(y) = Lives(x)
  BY <1>a DEF Moved, Lives
<1>9. \A j \in Lives(x) : j \in ConnIds
  BY DEF Lives
<1>10. /\ d.st = c.st /\ d.sub = c.sub /\ d.act = c.act /\ d.first = c.first
       /\ d.out = c.out /\ d.mev = c.mev /\ d.readcb = c.readcb /\ d.todo = c.todo
       /\ d.writecb = c.writecb /\ d.closed = c.closed /\ d.wen = c.wen
  BY <1>a DEF Later
<1>11. c.act = <<u>> /\ c.act # <<>> /\ c.act[1] = u
  BY <1>3, <1>4, InOne
<1>12. Spared(y, i)
  <2>1. Stage(y)
    BY <1>1, <1>a, QuietlyStage DEF Spared
  <2>2. Busy(y, 0)
    <3>1. \A h \in Hosts : \A j \in In(x.srv[h].conns) :
              j \in ConnIds /\ (x.conn[j].act # <<>> => y.conn[j].act # <<>>)
      BY <1>3, <1>4, <1>8, <1>10, Fields, InEmpty
    <3> QED BY <1>1, <1>8, <3>1 DEF Spared, Busy
  <2> QED BY <1>1, <1>8, <1>9, <1>a, <2>1, <2>2 DEF Spared, Quietly
<1>13. LikesBut(t, y, i)
  BY <1>1, <1>8, <1>9 DEF LikesBut, Like
<1>14. Neat(Fill(d, r))
  <2>1. /\ c.wen <=> c.writecb = "http"
        /\ c.st = "CONNECTING" => c.out /\ c.sub = <<>> /\ ~c.closed
        /\ c.mev = "CONNECTING" => c.st = "CONNECTING"
        /\ c.st = "CONNECTING" /\ c.readcb = "http" => c.mev = "CONNECTING"
        /\ c.out /\ c.readcb = "http" => c.writecb = "http"
        /\ c.closed => c.sub = <<>> /\ c.todo = <<>> /\ (q # <<>> => In(c.act) \cap Scripts = {})
        /\ Begins(c.todo)
        /\ c.readcb = "NULL" => c.writecb = "socks"
        /\ c.act # <<>> /\ ~c.out /\ ~c.closed => Ends(q \o c.todo, c.act[1])
    BY <1>1, <1>4, FillNeat
  <2>2. c.readcb = "http"
    BY <1>1, <1>2, <1>4 DEF Got
  <2>3. ~c.closed => Ends(r \o w, u)
    <3> SUFFICES ASSUME ~c.closed PROVE Ends(r \o w, u)
      OBVIOUS
    <3>1. Ends(q \o w, u)
      BY <1>5, <1>7, <1>11, <2>1
    <3>2. q \o w \in Seq(Units)
      BY ConcatIs
    <3>3. PICK v \in Seq(Units) : v = q \o w
      BY <3>2
    <3>4. Ends(Tail(v), u)
      BY <1>3, <1>7, <3>1, <3>3, EndsOn
    <3>5. Tail(v) = r \o w
      BY <1>6, <3>3, RestIs
    <3> QED BY <3>4, <3>5
  <2> QED BY <1>5, <1>10, <1>11, <2>1, <2>2, <2>3, FillNeat
<1>15. Flushed(d)
  BY <1>10, <1>11 DEF Flushed
<1>16. ASSUME r # <<>>, r[1].kind = "blank" PROVE d.first = 0 \/ d.ranged
  <2>1. PICK f \in Nat : f = c.first
    BY <1>3, <1>4
  <2>2. p + 1 \in 1..Lasts(u, f) /\ r[1] = At(u, f, p + 1)
    BY <1>3, <1>6, <1>7, <1>16, <2>1, SecondIs
  <2>3. p + 1 = Header(f)
    BY <1>3, <1>4, <1>16, <2>1, <2>2, AtIs
  <2>4. CASE f = 0
    BY <1>10, <2>1, <2>4
  <2>5. CASE f # 0
    <3>1. p = 3 /\ p < Header(f)
      BY <2>3, <2>5 DEF Header
    <3> QED BY <1>a, <2>1, <3>1
  <2> QED BY <2>4, <2>5
<1> QED BY <1>1, <1>4, <1>6, <1>8, <1>10, <1>12, <1>13, <1>14, <1>15, <1>16 DEF Gently

\* A unit before the last one.
LEMMA GentleRead ==
    ASSUME NEW t \in States, NEW i \in Lives(t), NEW q \in Seq(Units), q # <<>>,
           NEW x \in Gently(t, i, q), NEW u \in Urls, NEW p \in Nat,
           Midway(x, i, q, u, p), p # Lasts(u, x.conn[i].first)
    PROVE  HttpUnit(x, i, q[1]) \in Gently(t, i, Tail(q))
<1>1. x \in Got(t, i, q) /\ x.abort = "no"
  BY DEF Gently, Spared
<1>2. PICK y : y = HttpUnit(x, i, q[1])
  OBVIOUS
<1>3. q[1].kind \in {"status", "length", "range", "blank", "body"}
  <2>1. /\ x.conn[i].first \in Nat /\ x.conn[i].first < Size[u]
        /\ p \in 1..Lasts(u, x.conn[i].first) /\ q[1] = At(u, x.conn[i].first, p)
    BY <1>1, ReadFacts
  <2> QED BY <2>1, AtIs
<1>4. y \in Got(t, i, Tail(q)) /\ Reads(x, y, i, u, p)
  <2>1. CASE q[1].kind = "status"
    BY <1>1, <1>2, <2>1, StatusRead
  <2>2. CASE q[1].kind = "length"
    BY <1>1, <1>2, <2>2, LengthRead
  <2>3. CASE q[1].kind = "range"
    BY <1>1, <1>2, <2>3, RangeRead
  <2>4. CASE q[1].kind = "blank"
    <3>1. x.conn[i].first = 0 \/ x.conn[i].ranged
      BY <2>4 DEF Gently
    <3> QED BY <1>1, <1>2, <2>4, <3>1, BlankRead
  <2>5. CASE q[1].kind = "body"
    BY <1>1, <1>2, <2>5, PieceRead
  <2> QED BY <1>3, <2>1, <2>2, <2>3, <2>4, <2>5
<1> QED BY <1>2, <1>4, GentleStep

\* The connection, with nothing to follow the response it has read.
LEMMA DrainedNeat ==
    ASSUME NEW c \in Conns, NEW q \in Seq(Units), q # <<>>, NEW e, Neat(Fill(c, q)),
           Drained(c, e), Fresh(e), ~c.out
    PROVE  Neat(e) /\ e.st # "CONNECTING" /\ (e.closed => In(c.act) \cap Scripts = {})
<1>1. /\ c.wen <=> c.writecb = "http"
      /\ c.st = "CONNECTING" => c.out
      /\ c.mev = "CONNECTING" => c.st = "CONNECTING"
      /\ c.st = "CONNECTING" /\ c.readcb = "http" => c.mev = "CONNECTING"
      /\ c.closed => c.sub = <<>> /\ In(c.act) \cap Scripts = {}
  BY FillNeat
<1> QED BY <1>1 DEF Neat, Drained, Fresh, Begins

LEMMA SeemsMild ==
    ASSUME NEW t \in States, NEW r, NEW i \in Lives(t), NEW d, ConnIs(t, r, i, d),
           Seems(t.conn[i], d)
    PROVE  Likes(t, r) /\ Aside(t, r) /\ \A k : Mild(t, k) => Mild(r, k)
<1>1. /\ i \in ConnIds /\ r.conn[i] = d /\ r.srv = t.srv
      /\ \A j \in ConnIds : j # i => r.conn[j] = t.conn[j]
  BY DEF ConnIs, Lives
<1>2. Lives(r) = Lives(t) /\ \A j \in Lives(t) : j \in ConnIds
  BY <1>1 DEF Lives
<1>3. Likes(t, r)
  BY <1>1, <1>2 DEF Likes, Like, Seems
<1>4. Aside(t, r)
  BY DEF ConnIs, Aside
<1>5. /\ Neat(t.conn[i]) => Neat(d)
      /\ d.act = t.conn[i].act /\ d.sub = t.conn[i].sub /\ d.inp = t.conn[i].inp
  BY DEF Seems, Neat
<1>6. \A k : Neats(t, k) => Neats(r, k)
  BY <1>1, <1>2, <1>5 DEF Neats, Flushed
<1>7. \A k : Busy(t, k) => Busy(r, k)
  <2>1. \A h \in Hosts : \A j \in In(t.srv[h].conns) : j \in ConnIds
    BY Fields, InEmpty
  <2>2. \A j \in ConnIds : r.conn[j].act = t.conn[j].act
    BY <1>1, <1>5
  <2> QED BY <1>1, <2>1, <2>2 DEF Busy
<1> QED BY <1>3, <1>4, <1>6, <1>7 DEF Mild, Aside

\* The end of a body.
LEMMA BodyMild ==
    ASSUME NEW x \in States, Rested(x), NEW i \in Lives(x), Spared(x, i),
           NEW u \in x.b.pending, NEW o, Popped(x, o, i, u), o.conn[i].act = <<>>,
           Neat(o.conn[i]), o.conn[i].st # "CONNECTING",
           o.conn[i].closed => u \notin Scripts, NEW g, Told(o, u, i, g),
           NamedOnce, ConnIds = Nat \ {0}
    PROVE  LET r == HttpWriteToOutbuf(RequestDone(g, i), i)
           IN  Calm(r) /\ Likes(o, r)
<1>1. /\ o \in States /\ Good(o, o.b.pending \ {u}) /\ u \in o.b.pending
      /\ Lives(o) = Lives(x) /\ Fresh(o.conn[i]) /\ Quietly(x, o) /\ o.srv = x.srv
      /\ \A j \in ConnIds : j # i => o.conn[j] = x.conn[j]
  BY DEF Popped
<1>2. Mild(o, i) /\ Stage(o)
  <2>1. \A j \in Lives(x) : j \in ConnIds
    BY DEF Lives
  <2>2. Neats(o, i)
    BY <1>1, <2>1 DEF Neats, Spared
  <2>3. \A h \in Hosts : \A j \in In(x.srv[h].conns) : j \in ConnIds /\ j # 0
    BY Fields, InEmpty, Constants
  <2>4. Busy(o, i)
    BY <1>1, <2>3 DEF Busy, Spared
  <2> QED BY <1>1, <2>2, <2>4, QuietlyStage DEF Mild, Spared, Quietly
<1>3. PICK f : f = ResponseFinished(o, u)
  OBVIOUS
<1>4. Mild(f, i) /\ Likes(o, f) /\ Stage(f) /\ (u \notin Scripts => f.conn = o.conn)
  BY <1>1, <1>2, <1>3, FinishedMild
<1>5. i \in Lives(f) /\ f \in States /\ Fresh(f.conn[i])
  BY <1>1, <1>3 DEF Told, Settled, Keeps
<1>6. PICK d \in Conns : ConnIs(f, g, i, d) /\ Seems(f.conn[i], d)
  BY <1>3 DEF Told
<1>7. Likes(f, g) /\ Aside(f, g) /\ Mild(g, i)
  BY <1>4, <1>5, <1>6, SeemsMild
<1>8. i \in Lives(g) /\ g \in States /\ Listing(g) /\ g.conn[i] = d
  BY <1>5, <1>6, <1>7 DEF Likes, Told, Good, Sound, ConnIs
<1>9. /\ d.st = o.conn[i].st /\ d.inp = <<>> /\ d.todo = <<>> /\ d.readcb = "http"
      /\ d.closed = o.conn[i].closed /\ d.act = f.conn[i].act
  <2>1. Like(o.conn[i], f.conn[i])
    BY <1>1, <1>4 DEF Likes
  <2> QED BY <1>5, <1>6, <2>1 DEF Like, Seems, Fresh
<1>10. Accepts(d)
  <2>1. d.st = "CONNECTED"
    <3>1. d.st # "none"
      BY <1>8 , LiveConn
    <3> QED BY <1>9, <3>1 DEF Conns, Sts
  <2>2. d.act # <<>> => ~d.closed
    BY <1>4, <1>9
  <2> QED BY <1>9, <2>1, <2>2 DEF Accepts
<1>11. PICK r : r = HttpWriteToOutbuf(RequestDone(g, i), i)
  OBVIOUS
<1>12. Mild(r, 0) /\ Likes(g, r) /\ Aside(g, r)
  <2>1. Begins(d.inp)
    BY <1>9 DEF Begins
  <2> QED BY <1>7, <1>8, <1>10, <1>11, <2>1, NextMild
<1>13. Stage(r)
  BY <1>4, <1>7, <1>12, AsideStage
<1>14. Likes(o, r)
  BY <1>4, <1>7, <1>12, LikesOn
<1> QED BY <1>11, <1>12, <1>13, <1>14 DEF Calm

\* The last piece of the body.
LEMMA GentleLast ==
    ASSUME NEW t \in States, NEW i \in Lives(t), NEW q \in Seq(Units), q # <<>>,
           NEW x \in Gently(t, i, q), NEW u \in Urls, NEW p \in Nat,
           Midway(x, i, q, u, p), p = Lasts(u, x.conn[i].first),
           NamedOnce, ConnIds = Nat \ {0}
    PROVE  HttpUnit(x, i, q[1]) \in Gently(t, i, Tail(q))
<1>1. /\ x \in Got(t, i, q) /\ x.abort = "no" /\ Spared(x, i) /\ LikesBut(t, x, i)
      /\ x.conn[i].closed = t.conn[i].closed /\ Neat(Fill(x.conn[i], q))
  BY DEF Gently, Spared
<1>2. PICK c \in Conns : c = x.conn[i]
  BY <1>1, ReadFacts
<1>3. /\ x \in States /\ i \in ConnIds /\ c.act = <<u>> /\ i \in Lives(x) /\ Rested(x)
      /\ Good(Filled(x, i, q), x.b.pending) /\ ~c.out
  <2>1. /\ i \in Lives(x) /\ Rested(x) /\ Good(Filled(x, i, q), x.b.pending)
    BY <1>1 DEF Got
  <2>2. ~c.out
    BY <1>2 DEF Midway, Reading
  <2>3. x \in States /\ i \in ConnIds /\ c.act = <<u>>
    BY <1>1, <1>2, ReadFacts
  <2> QED BY <2>1, <2>2, <2>3
<1>4. q[1].kind = "body"
  <2>1. PICK f \in Nat : f = c.first
    BY ConnFields
  <2>2. f < Size[u] /\ p \in 1..Lasts(u, f) /\ q[1] = At(u, f, p) /\ p = Lasts(u, f)
    BY <1>1, <1>2, <2>1, ReadFacts
  <2>3. p > Header(f) /\ Header(f) \in {3, 4}
    BY <2>1, <2>2, Constants DEF Header, Lasts
  <2> QED BY <2>1, <2>2, <2>3, AtIs
<1>5. PICK y : y = BodyData(x, i, q[1])
  OBVIOUS
<1>6. PICK o : o = Ended(y, i)
  OBVIOUS
<1>7. PICK r : r = BodyDone(y, i)
  OBVIOUS
<1>8. /\ HttpUnit(x, i, q[1]) = r /\ Head(y.conn[i].act) = u /\ Popped(x, o, i, u)
      /\ Tail(q) = <<>>
  BY <1>1, <1>4, <1>5, <1>6, <1>7, LastIs
<1>9. PICK g : Told(o, u, i, g) /\ r = HttpWriteToOutbuf(RequestDone(g, i), i)
  BY <1>3, <1>6, <1>7, <1>8, DoneRead
<1>10. Neat(o.conn[i]) /\ o.conn[i].st # "CONNECTING" /\ (o.conn[i].closed => u \notin Scripts)
       /\ o.conn[i].act = <<>> /\ o.conn[i].closed = c.closed
  <2>1. Drained(c, o.conn[i]) /\ Fresh(o.conn[i])
    BY <1>2, <1>8 DEF Popped
  <2>2. In(c.act) = {u}
    BY <1>3, InOne
  <2> QED BY <1>1, <1>2, <1>3, <2>1, <2>2, DrainedNeat DEF Drained
<1>11. u \in x.b.pending
  <2>1. PICK v : v = Filled(x, i, q)
    OBVIOUS
  <2>2. PICK d \in Conns : d = Fill(c, q) /\ d.act = c.act
    BY FillIs
  <2>3. ConnIs(x, v, i, d)
    BY <1>2, <1>3, <2>1, <2>2, ConnPut DEF Filled
  <2>4. i \in Lives(v) /\ v.conn[i] = d
    BY <1>3, <2>3 DEF ConnIs, Lives
  <2>5. u \in On(d)
    BY <1>3, <2>2, InOne DEF On
  <2>6. v \in States /\ Sound(v) /\ Counted(v, x.b.pending)
    BY <1>3, <2>1 DEF Good
  <2> QED BY <2>4, <2>5, <2>6, Exclusive DEF Counted, Under
<1>12. Calm(r) /\ Likes(o, r)
  BY <1>1, <1>3, <1>8, <1>9, <1>10, <1>11, BodyMild
<1>13. r \in Got(t, i, <<>>)
  BY <1>1, <1>4, <1>8, LastRead
<1>14. LikesBut(t, r, i) /\ i \in Lives(r) /\ r.conn[i].closed = c.closed
  <2>1. /\ Lives(o) = Lives(x) /\ \A j \in Lives(x) : j \in ConnIds
        /\ \A j \in ConnIds : j # i => o.conn[j] = x.conn[j]
    BY <1>8 DEF Popped, Lives
  <2>2. LikesBut(x, r, i) /\ i \in Lives(r) /\ r.conn[i].closed = c.closed
    BY <1>3, <1>10, <1>12, <2>1 DEF Likes, LikesBut, Like
  <2> QED BY <1>1, <2>2, LikesButOn
<1>15. Neat(Fill(r.conn[i], <<>>)) /\ Flushed(r.conn[i])
  <2>1. i # 0 /\ r \in States /\ r.conn[i].inp = <<>>
    BY <1>3, <1>12, <1>13, Constants DEF Got, Calm, Mild
  <2>2. Neat(r.conn[i]) /\ Flushed(r.conn[i])
    BY <1>12, <1>14, <2>1 DEF Calm, Mild, Neats
  <2>3. PICK e \in Conns : e = r.conn[i]
    BY <1>3, <2>1, Fields
  <2>4. Fill(e, e.inp) = e
    BY Zenon DEF Fill, Conns
  <2> QED BY <2>1, <2>2, <2>3, <2>4
<1> QED BY <1>1, <1>2, <1>8, <1>12, <1>13, <1>14, <1>15, CalmSpares DEF Gently

\* http_receive.
LEMMA ReceiveMild ==
    ASSUME NEW t \in States, Good(t, t.b.pending), Rested(t), Calm(t), NEW i \in Lives(t),
           t.conn[i].readcb = "http", NamedOnce, ConnIds = Nat \ {0}
    PROVE  LET r == HttpReceive(t, i)
           IN  /\ Good(r, r.b.pending) /\ Calm(r) /\ LikesBut(t, r, i) /\ i \in Lives(r)
               /\ r.conn[i].closed = t.conn[i].closed
<1>1. i \in ConnIds /\ i # 0
  BY Constants DEF Lives
<1>2. PICK units \in Seq(Units) : units = t.conn[i].inp
  BY <1>1, Fields, ConnFields
<1>3. PICK n \in Nat : n = Len(units)
  OBVIOUS
<1>4. PICK T : T = [k \in 0..n |-> Gently(t, i, Left(units, k))]
  OBVIOUS
<1>5. T[0] = Gently(t, i, units) /\ T[n] = Gently(t, i, <<>>)
  BY <1>3, <1>4, LeftIs
<1>6. \A k \in 1..n : \A x \in T[k - 1] : HttpUnit(x, i, units[k]) \in T[k]
  <2> TAKE k \in 1..n
  <2> TAKE x \in T[k - 1]
  <2>1. k \in 0..n /\ k - 1 \in 0..n
    OBVIOUS
  <2>2. PICK q \in Seq(Units) : q = Left(units, k - 1)
    BY <1>3, LeftIs
  <2>3. q # <<>> /\ q[1] = units[k] /\ Tail(q) = Left(units, k)
    BY <1>3, <2>2, LeftIs
  <2>4. x \in Gently(t, i, q)
    BY <1>4, <2>1, <2>2
  <2>5. PICK u \in Urls, p \in Nat : Midway(x, i, q, u, p)
    BY <2>3, <2>4, MidwayIs DEF Gently, Spared
  <2>6. HttpUnit(x, i, q[1]) \in Gently(t, i, Tail(q))
    BY <2>3, <2>4, <2>5, GentleRead, GentleLast
  <2> QED BY <1>4, <2>1, <2>3, <2>6
<1>7. Opened(t, i) \in Gently(t, i, units)
  <2>1. PICK o : o = Opened(t, i)
    OBVIOUS
  <2>2. PICK d \in Conns : ConnIs(t, o, i, d) /\ Looks(t.conn[i], Fill(d, units))
    BY <1>2, <2>1, ReceiveStarts
  <2>3. o \in Got(t, i, units)
    BY <1>2, <2>1, ReceiveStarts
  <2>4. Seems(t.conn[i], Fill(d, units)) /\ d.act = t.conn[i].act /\ d.sub = t.conn[i].sub
        /\ d.closed = t.conn[i].closed
    <3>1. Fill(d, units).act = d.act /\ Fill(d, units).sub = d.sub
          /\ Fill(d, units).closed = d.closed
      BY FillIs
    <3> QED BY <2>2, <3>1 DEF Looks, Seems
  <2>5. Neat(t.conn[i]) /\ Flushed(t.conn[i]) /\ Begins(t.conn[i].inp)
    BY <1>1 DEF Calm, Mild, Neats
  <2>6. Neat(Fill(d, units)) /\ Flushed(d)
    BY <2>4, <2>5 DEF Seems, Neat, Flushed
  <2>7. /\ o.conn[i] = d /\ \A j \in ConnIds : j # i => o.conn[j] = t.conn[j]
        /\ o.srv = t.srv /\ Lives(o) = Lives(t) /\ \A j \in Lives(t) : j \in ConnIds
    BY <2>2 DEF ConnIs, Lives
  <2>8. LikesBut(t, o, i)
    BY <2>7 DEF LikesBut, Like
  <2>9. Spared(o, i)
    <3>1. \A h \in Hosts : \A j \in In(t.srv[h].conns) :
              j \in ConnIds /\ (t.conn[j].act # <<>> => o.conn[j].act # <<>>)
      BY <2>4, <2>7, Fields, InEmpty
    <3>2. Busy(o, 0)
      BY <2>7, <3>1 DEF Busy, Calm, Mild
    <3>3. Aside(t, o)
      BY <2>2 DEF ConnIs, Aside
    <3>4. Spared(t, i)
      BY CalmSpares
    <3> QED BY <2>7, <3>2, <3>3, <3>4, AsideStage DEF Spared, Aside
  <2>10. units # <<>> => units[1].kind # "blank"
    BY <1>2, <2>5 DEF Begins
  <2> QED BY <2>1, <2>3, <2>4, <2>6, <2>7, <2>8, <2>9, <2>10 DEF Gently
<1>8. PICK x \in Gently(t, i, <<>>) : HttpReceive(t, i) = Shut(x, i)
  BY <1>2, <1>3, <1>5, <1>6, <1>7, ReceiveIn
<1>9. PICK r : r = Shut(x, i)
  OBVIOUS
<1>10. /\ x \in States /\ x.conn[i].inp = <<>> /\ i \in Lives(x)
       /\ Good(Filled(x, i, <<>>), x.b.pending) /\ Neat(Fill(x.conn[i], <<>>))
       /\ Spared(x, i) /\ LikesBut(t, x, i) /\ x.conn[i].closed = t.conn[i].closed
       /\ Flushed(x.conn[i])
  BY DEF Gently, Got, Spared
<1>11. Good(x, x.b.pending)
  BY <1>1, <1>10, FilledNot
<1>12. Neat(x.conn[i])
  <2>1. PICK e \in Conns : e = x.conn[i]
    BY <1>1, <1>10, Fields
  <2>2. Fill(e, e.inp) = e
    BY Zenon DEF Fill, Conns
  <2> QED BY <1>10, <2>1, <2>2
<1>13. PICK e \in Conns : ConnIs(x, r, i, e) /\ Looks(x.conn[i], e) /\ Good(r, x.b.pending)
  BY <1>9, <1>10, <1>11, ReceivedAll
<1>14. Calm(x)
  <2>1. Begins(x.conn[i].inp)
    BY <1>10 DEF Begins
  <2> QED BY <1>10, <1>12, <2>1 DEF Calm, Mild, Neats, Spared
<1>15. Calm(r) /\ Likes(x, r)
  <2>1. Likes(x, r) /\ Aside(x, r) /\ (Mild(x, 0) => Mild(r, 0))
    BY <1>10, <1>13, SeemsMild DEF Looks
  <2> QED BY <1>14, <2>1, AsideStage DEF Calm
<1>16. LikesBut(t, r, i) /\ i \in Lives(r) /\ r.conn[i].closed = t.conn[i].closed
  <2>1. LikesBut(x, r, i) /\ i \in Lives(r) /\ r.conn[i].closed = x.conn[i].closed
    BY <1>10, <1>15 DEF Likes, LikesBut, Like
  <2> QED BY <1>10, <2>1, LikesButOn
<1>17. r.b = x.b
  BY <1>13 DEF ConnIs
<1> QED BY <1>8, <1>9, <1>13, <1>15, <1>16, <1>17

\* on_read: the connection of a server that closed it has nothing left to do.
LEMMA ReadMild ==
    ASSUME NEW t \in States, Good(t, t.b.pending), Rested(t), Calm(t), NEW i \in Lives(t),
           t.conn[i].readcb = "http", NamedOnce, ConnIds = Nat \ {0}
    PROVE  CalmBut(t, OnRead(t, i), i)
<1>1. i \in ConnIds /\ i # 0
  BY Constants DEF Lives
<1>2. PICK r : r = HttpReceive(t, i)
  OBVIOUS
<1>3. /\ Good(r, r.b.pending) /\ Calm(r) /\ LikesBut(t, r, i) /\ i \in Lives(r)
      /\ r.conn[i].closed = t.conn[i].closed /\ r \in States
  BY <1>2, ReceiveMild DEF Good
<1>4. CASE t.conn[i].act = <<>>
  <2>1. PICK c \in Conns : c = t.conn[i]
    BY <1>1, Fields
  <2>2. PICK d : d = [c EXCEPT !.readcb = "NULL"]
    OBVIOUS
  <2>3. d \in Conns /\ d.sub = c.sub /\ d.act = c.act /\ d.st = c.st /\ d.host = c.host
    <3>1. d \in Conns
      BY <2>2, Zenon DEF Conns, CbNames
    <3> QED BY <2>2, <3>1 DEF Conns
  <2>4. PICK v : v = PutConn(t, i, d)
    OBVIOUS
  <2>5. OnRead(t, i) = Unusable(v, i)
    BY <1>4, <2>1, <2>2, <2>4, Zenon DEF OnRead, PutConn
  <2>6. ConnIs(t, v, i, d)
    BY <1>1, <2>3, <2>4, ConnPut
  <2>7. /\ v \in States /\ v.conn[i] = d /\ \A j \in ConnIds : j # i => v.conn[j] = t.conn[j]
        /\ v.srv = t.srv /\ Lives(v) = Lives(t) /\ \A j \in Lives(t) : j \in ConnIds
    BY <2>6 DEF ConnIs, Lives
  <2>8. Listing(v)
    <3>1. \A j \in ConnIds : v.conn[j].st = t.conn[j].st /\ v.conn[j].host = t.conn[j].host
      BY <2>1, <2>3, <2>7
    <3>2. \A h \in Hosts : \A j \in In(t.srv[h].conns) : j \in ConnIds
      BY Fields, InEmpty
    <3> QED BY <2>7, <3>1, <3>2 DEF Listing, Good, Sound
  <2>9. d.sub = <<>>
    BY <1>1, <1>4, <2>1, <2>3 DEF Calm, Mild, Neats, Flushed
  <2>10. Spared(v, i)
    <3>1. \A h \in Hosts : \A j \in In(t.srv[h].conns) :
              j \in ConnIds /\ (t.conn[j].act # <<>> => v.conn[j].act # <<>>)
      BY <2>1, <2>3, <2>7, Fields, InEmpty
    <3>2. Busy(v, 0) /\ Aside(t, v) /\ Spared(t, i)
      BY <2>6, <2>7, <3>1, CalmSpares DEF Busy, Calm, Mild, ConnIs, Aside
    <3> QED BY <2>7, <3>2, AsideStage DEF Spared, Aside
  <2>11. CalmBut(v, Unusable(v, i), i)
    BY <1>4, <2>1, <2>3, <2>7, <2>8, <2>9, <2>10, UnusableIdle
  <2>12. LikesBut(t, v, i)
    BY <2>7 DEF LikesBut, Like
  <2> QED BY <2>5, <2>11, <2>12, LikesButOn DEF CalmBut
<1>5. CASE t.conn[i].act # <<>> /\ t.conn[i].closed
  <2>1. OnRead(t, i) = Unusable(r, i)
    BY <1>2, <1>3, <1>5 DEF OnRead, Calm, Mild
  <2>2. r.conn[i].sub = <<>>
    BY <1>3, <1>5 DEF Calm, Mild, Neats, Neat
  <2>3. CalmBut(r, Unusable(r, i), i)
    BY <1>3, <2>2, CalmSpares, UnusableMild
  <2> QED BY <1>3, <2>1, <2>3, LikesButOn DEF CalmBut
<1>6. CASE t.conn[i].act # <<>> /\ ~t.conn[i].closed
  BY <1>2, <1>3, <1>6 DEF OnRead, CalmBut
<1> QED BY <1>4, <1>5, <1>6

\* A connection changes.
LEMMA ConnCalm ==
    ASSUME NEW t \in States, Calm(t), NEW i \in Lives(t), NEW d, NEW r, ConnIs(t, r, i, d),
           Neat(d), Flushed(d), Begins(d.inp), t.conn[i].act # <<>> => d.act # <<>>
    PROVE  CalmBut(t, r, i) /\ r.conn[i] = d /\ Lives(r) = Lives(t)
<1>1. /\ i \in ConnIds /\ r.conn[i] = d /\ r.srv = t.srv
      /\ \A j \in ConnIds : j # i => r.conn[j] = t.conn[j]
  BY DEF ConnIs, Lives
<1>2. Lives(r) = Lives(t) /\ \A j \in Lives(t) : j \in ConnIds
  BY <1>1 DEF Lives
<1>3. Aside(t, r)
  BY DEF ConnIs, Aside
<1>4. Neats(r, 0)
  BY <1>1, <1>2 DEF Neats, Calm, Mild
<1>5. Busy(r, 0)
  <2>1. \A h \in Hosts : \A j \in In(t.srv[h].conns) : j \in ConnIds
    BY Fields, InEmpty
  <2>2. \A j \in ConnIds : t.conn[j].act # <<>> => r.conn[j].act # <<>>
    BY <1>1
  <2> QED BY <1>1, <2>1, <2>2 DEF Busy, Calm, Mild
<1>6. Calm(r)
  BY <1>3, <1>4, <1>5, AsideStage DEF Calm, Mild, Aside
<1>7. LikesBut(t, r, i)
  BY <1>1, <1>2 DEF LikesBut, Like
<1> QED BY <1>1, <1>2, <1>6, <1>7 DEF CalmBut

\* A connection that shakes hands with the proxy.
LEMMA ShakesNeat ==
    ASSUME NEW c, NEW d, Neat(c), Flushed(c), Begins(c.inp),
           Messaged(c, d) \/ Answered(c, d) \/ Granted(c, d)
    PROVE  Neat(d) /\ Flushed(d) /\ Begins(d.inp) /\ d.act = c.act
<1>1. /\ c.out /\ c.sub = <<>> /\ ~c.closed /\ ~c.wen /\ c.st = "CONNECTING"
      /\ d.sub = c.sub /\ d.act = c.act /\ d.out = c.out /\ d.closed = c.closed
  BY DEF Messaged, Answered, Granted, Shakes, Shaking, Neat
<1>2. Flushed(d)
  BY <1>1 DEF Flushed
<1>3. Begins(<<>>)
  BY DEF Begins
<1>4. CASE Messaged(c, d)
  <2>1. Begins(d.todo) /\ d.inp = c.inp /\ d.st = "CONNECTING"
    BY <1>1, <1>4 DEF Messaged, Begins
  <2>2. Neat(d)
    BY <1>1, <1>4, <2>1 DEF Messaged, Neat
  <2> QED BY <1>1, <1>2, <2>1, <2>2
<1>5. CASE Answered(c, d)
  <2>1. Neat(d)
    BY <1>1, <1>3, <1>5 DEF Answered, Neat
  <2> QED BY <1>1, <1>2, <1>3, <1>5, <2>1 DEF Answered
<1>6. CASE Granted(c, d)
  <2>1. Neat(d)
    BY <1>1, <1>3, <1>6 DEF Granted, Neat
  <2> QED BY <1>1, <1>2, <1>3, <1>6, <2>1 DEF Granted
<1> QED BY <1>4, <1>5, <1>6

\* A connection of a calm process.
LEMMA CalmConn ==
    ASSUME NEW t \in States, Good(t, t.b.pending), Calm(t), NEW i \in Lives(t)
    PROVE  /\ i \in ConnIds /\ i # 0 /\ t.conn[i] \in Conns
           /\ Neat(t.conn[i]) /\ Flushed(t.conn[i]) /\ Begins(t.conn[i].inp)
           /\ Steady(t.conn[i], t.req, t.proxy)
<1>1. i \in ConnIds /\ i # 0
  BY Constants DEF Lives
<1> QED BY <1>1, Fields DEF Calm, Mild, Neats, Good, Flows

\* The proxy has answered.
LEMMA SocksMild ==
    ASSUME NEW t \in States, Good(t, t.b.pending), Rested(t), Calm(t), NEW i \in Lives(t),
           t.conn[i].readcb = "socks", t.conn[i].inp # <<>>, NamedOnce,
           ConnIds = Nat \ {0}
    PROVE  CalmBut(t, OnSocksReadable(t, i), i)
<1>1. PICK c \in Conns : c = t.conn[i]
  BY CalmConn
<1>2. Neat(c) /\ Flushed(c) /\ Begins(c.inp) /\ Shaking(c)
  BY <1>1, CalmConn DEF Steady
<1>3. PICK q \in Seq(Units) : q = c.inp
  BY ConnFields
<1>4. q # <<>> /\ Head(q).kind \in {"greet", "grant", "refuse"}
  <2>1. Head(q) = q[1] /\ 1 \in 1..Len(q)
    BY <1>1, <1>3, InTail
  <2> QED BY <1>1, <1>2, <1>3, <2>1 DEF Shaking
<1>5. CASE Head(q).kind = "greet"
  <2>1. OnSocksReadable(t, i) = OnSocksGreeted(t, i)
    BY <1>1, <1>3, <1>4, <1>5 DEF OnSocksReadable
  <2>2. PICK d \in Conns : ConnIs(t, OnSocksGreeted(t, i), i, d) /\ Answered(c, d)
    BY <1>1, SocksGreetedKeeps
  <2> QED BY <1>1, <1>2, <2>1, <2>2, ShakesNeat, ConnCalm
<1>6. CASE Head(q).kind = "grant"
  <2>1. OnSocksReadable(t, i) = OnSocksGranted(t, i)
    BY <1>1, <1>3, <1>4, <1>6 DEF OnSocksReadable
  <2>2. ~c.wen
    BY <1>2 DEF Neat, Shaking
  <2>3. PICK d \in Conns : ConnIs(t, OnSocksGranted(t, i), i, d) /\ Granted(c, d)
    BY <1>1, <2>2, SocksGrantedKeeps
  <2> QED BY <1>1, <1>2, <2>1, <2>3, ShakesNeat, ConnCalm
<1>7. CASE Head(q).kind = "refuse"
  <2>1. OnSocksReadable(t, i) = Unusable(t, i)
    BY <1>1, <1>3, <1>4, <1>7 DEF OnSocksReadable
  <2>2. c.sub = <<>>
    BY <1>2 DEF Neat, Shaking
  <2> QED BY <1>1, <2>1, <2>2, CalmSpares, UnusableMild
<1> QED BY <1>4, <1>5, <1>6, <1>7

\* There is something to read, or the other side has closed.
Waking(c) == c.readcb # "NULL" /\ (c.inp # <<>> \/ c.closed)

\* EPOLLIN.
LEMMA InMild ==
    ASSUME NEW t \in States, Good(t, t.b.pending), Rested(t), Calm(t), NEW i \in Lives(t),
           Waking(t.conn[i]), NamedOnce, ConnIds = Nat \ {0}
    PROVE  CalmBut(t, OnIn(t, i), i)
<1>1. CASE t.conn[i].readcb = "http"
  BY <1>1, ReadMild DEF OnIn
<1>2. CASE t.conn[i].readcb = "socks"
  <2>1. OnIn(t, i) = OnSocksReadable(t, i)
    BY <1>2 DEF OnIn
  <2>2. t.conn[i].inp # <<>>
    BY <1>2, CalmConn DEF Waking, Steady, Shaking, Neat
  <2> QED BY <1>2, <2>1, <2>2, SocksMild
<1>3. t.conn[i].readcb \in CbNames
  BY CalmConn DEF Conns
<1> QED BY <1>1, <1>2, <1>3 DEF CbNames, Waking

\* A response begins with its status and ends with the last piece of the body.
LEMMA ResponseEnds ==
    ASSUME NEW u \in Urls, NEW f \in Nat, f < Size[u]
    PROVE  Begins(Response(u, f)) /\ Ends(Response(u, f), u)
<1>1. PICK z \in Nat, h \in Nat : z = Size[u] /\ h = Header(f) /\ h >= 3
  BY Constants DEF Header
<1>2. PICK l \in Nat : l = Lasts(u, f) /\ l = h + z - f /\ l > h /\ l >= 1
  BY <1>1 DEF Lasts
<1>3. PICK q \in Seq(Units) : q = Response(u, f)
  BY ResponseIs
<1>4. Len(q) = l /\ \A p \in 1..l : q[p] = At(u, f, p)
  BY <1>2, <1>3, ResponseIs
<1>5. q # <<>> /\ q[1] = At(u, f, 1) /\ q[Len(q)] = At(u, f, l)
  BY <1>2, <1>4
<1>6. At(u, f, 1) = Unit("status", 0)
  BY DEF At
<1>7. At(u, f, l) = Unit("body", Size[u] - 1)
  <2>1. l # 1 /\ l # 2 /\ ~(l < h) /\ l # h /\ f + l - h - 1 = z - 1
    BY <1>1, <1>2
  <2> QED BY <1>1, <2>1 DEF At
<1>8. Unit("status", 0).kind = "status"
  BY UnitIs DEF Kinds
<1> QED BY <1>3, <1>5, <1>6, <1>7, <1>8 DEF Begins, Ends

\* d is read when c is.
Stirs(c, d) ==
    d.inp = c.inp /\ d.closed = c.closed /\ (c.readcb # "NULL" => d.readcb # "NULL")

\* A connection to the server that sends its request, or has sent it.
LEMMA SentNeat ==
    ASSUME NEW c \in Conns, Neat(c), Flushed(c), Begins(c.inp), c.st # "CONNECTING",
           c.readcb = "http", NEW e \in Conns, NEW req, Sent(c, e, req)
    PROVE  Neat(e) /\ Flushed(e) /\ Begins(e.inp) /\ e.act = c.act /\ Stirs(c, e)
<1>1. CASE ~c.out /\ e = DisableWrite(c)
  <2>1. /\ e.st = c.st /\ e.readcb = c.readcb /\ e.mev = c.mev /\ e.inp = c.inp
        /\ e.todo = c.todo /\ e.sub = c.sub /\ e.act = c.act /\ e.out = c.out
    BY <1>1, DisableWriteIs
  <2>2. e.closed = c.closed /\ (e.wen <=> e.writecb = "http")
    BY <1>1 DEF DisableWrite, Neat, Conns
  <2>3. Neat(e)
    BY <1>1, <2>1, <2>2 DEF Neat
  <2> QED BY <2>1, <2>2, <2>3 DEF Flushed, Stirs
<1>2. CASE c.out /\ c.inp = <<>> /\ c.todo = <<>> /\ Unsent(c, req) /\ Sends(c, e)
  <2>1. /\ e.st = c.st /\ e.readcb = "http" /\ e.mev = c.mev /\ e.inp = <<>>
        /\ e.sub = c.sub /\ e.act = c.act /\ ~e.out /\ e.closed = c.closed
        /\ e.wen = c.wen /\ e.writecb = c.writecb
    BY <1>2 DEF Sends
  <2>2. PICK u \in Urls : u = c.act[1] /\ u = Head(c.act)
    BY <1>2, ConnFields, InTail DEF Unsent
  <2>3. PICK f \in Nat : f = c.first /\ f < Size[u]
    BY <1>2, <2>2, ConnFields DEF Unsent, Asks
  <2>4. PICK q \in Seq(Units) : q = Response(u, f) /\ Begins(q) /\ Ends(q, u)
    BY <2>3, ResponseIs, ResponseEnds
  <2>5. e.todo = IF c.closed THEN <<>> ELSE q
    <3>1. <<>> \o q = q
      OBVIOUS
    <3> QED BY <1>2, <2>2, <2>3, <2>4, <3>1 DEF Sends
  <2>6. Begins(e.todo) /\ (~e.closed => Ends(e.inp \o e.todo, u))
    <3>1. <<>> \o q = q /\ Begins(<<>>)
      BY DEF Begins
    <3> QED BY <2>1, <2>4, <2>5, <3>1
  <2>7. Neat(e)
    BY <1>2, <2>1, <2>2, <2>5, <2>6 DEF Neat
  <2> QED BY <1>2, <2>1, <2>7 DEF Flushed, Stirs
<1> QED BY <1>1, <1>2 DEF Sent

\* send_.
LEMMA SendMild ==
    ASSUME NEW t \in States, Good(t, t.b.pending), Rested(t), Calm(t), NEW i \in Lives(t),
           t.conn[i].readcb = "http", t.conn[i].st # "CONNECTING"
    PROVE  LET r == Send(t, i)
           IN  CalmBut(t, r, i) /\ Stirs(t.conn[i], r.conn[i])
<1>1. PICK c \in Conns : c = t.conn[i]
  BY CalmConn
<1>2. Neat(c) /\ Flushed(c) /\ Begins(c.inp)
  BY <1>1, CalmConn
<1>3. HttpWriteToOutbuf(t, i) = t
  BY <1>1, <1>2 DEF HttpWriteToOutbuf, Flushed
<1>4. PICK e \in Conns : ConnIs(t, Send(t, i), i, e) /\ Sent(c, e, t.req)
  BY <1>1, <1>3, SendKeeps
<1>5. Neat(e) /\ Flushed(e) /\ Begins(e.inp) /\ e.act = c.act /\ Stirs(c, e)
  BY <1>1, <1>2, <1>4, SentNeat
<1> QED BY <1>1, <1>4, <1>5, ConnCalm

\* The server is connected.
LEMMA ConnectMild ==
    ASSUME NEW t \in States, Good(t, t.b.pending), Rested(t), Calm(t), NEW i \in Lives(t),
           t.conn[i].mev = "CONNECTING", ~t.proxy
    PROVE  LET r == OnConnect([t EXCEPT !.conn[i].mev = "CONNECTED"], i)
           IN  CalmBut(t, r, i) /\ Stirs(t.conn[i], r.conn[i])
<1>1. PICK c \in Conns : c = t.conn[i]
  BY CalmConn
<1>2. Neat(c) /\ Flushed(c) /\ Begins(c.inp)
  BY <1>1, CalmConn
<1>3. c.st = "CONNECTING" /\ c.out /\ c.sub = <<>> /\ ~c.closed
  BY <1>1, <1>2 DEF Neat
<1>4. PICK r : r = OnConnect([t EXCEPT !.conn[i].mev = "CONNECTED"], i)
  OBVIOUS
<1>5. PICK d \in Conns, w \in States :
          /\ ConnIs(t, w, i, d) /\ Connected(c, d) /\ r = Send(w, i)
          /\ Good(w, w.b.pending) /\ Rested(w) /\ d.readcb = "http"
  BY <1>1, <1>3, <1>4, ConnectKeeps
<1>6. Neat(d) /\ Flushed(d) /\ Begins(d.inp) /\ Stirs(c, d)
  <2>1. Neat(d)
    BY <1>2, <1>3, <1>5 DEF Connected, Neat
  <2> QED BY <1>2, <1>5, <2>1 DEF Connected, Flushed, Stirs
<1>7. CalmBut(t, w, i) /\ w.conn[i] = d /\ Lives(w) = Lives(t)
  <2>1. c.act # <<>> => d.act # <<>>
    BY <1>5 DEF Connected
  <2> QED BY <1>1, <1>5, <1>6, <2>1, ConnCalm
<1>8. CalmBut(w, r, i) /\ Stirs(d, r.conn[i])
  <2>1. Calm(w) /\ w.conn[i].st # "CONNECTING" /\ w.conn[i].readcb = "http"
    BY <1>5, <1>7 DEF Connected, CalmBut
  <2> QED BY <1>5, <1>7, <2>1, SendMild
<1>9. CalmBut(t, r, i)
  BY <1>7, <1>8, LikesButOn DEF CalmBut
<1> QED BY <1>1, <1>4, <1>6, <1>8, <1>9 DEF Stirs

\* The proxy is connected, or written to.
LEMMA MessagedMild ==
    ASSUME NEW t \in States, Good(t, t.b.pending), Calm(t), NEW i \in Lives(t),
           NEW r, r = t \/ \E d \in Conns : ConnIs(t, r, i, d) /\ Messaged(t.conn[i], d)
    PROVE  CalmBut(t, r, i) /\ Stirs(t.conn[i], r.conn[i])
<1>1. PICK c \in Conns : c = t.conn[i]
  BY CalmConn
<1>2. Neat(c) /\ Flushed(c) /\ Begins(c.inp)
  BY <1>1, CalmConn
<1>3. CASE r = t
  BY <1>3 DEF CalmBut, LikesBut, Like, Stirs
<1>4. CASE \E d \in Conns : ConnIs(t, r, i, d) /\ Messaged(t.conn[i], d)
  <2>1. PICK d \in Conns : ConnIs(t, r, i, d) /\ Messaged(c, d)
    BY <1>1, <1>4
  <2>2. Stirs(c, d)
    BY <2>1 DEF Messaged, Shakes, Stirs
  <2> QED BY <1>1, <1>2, <2>1, <2>2, ShakesNeat, ConnCalm
<1> QED BY <1>3, <1>4

\* EPOLLOUT.
LEMMA OutMild ==
    ASSUME NEW t \in States, Good(t, t.b.pending), Rested(t), Calm(t), NEW i \in Lives(t)
    PROVE  LET r == OnOut(t, i)
           IN  CalmBut(t, r, i) /\ Stirs(t.conn[i], r.conn[i])
<1>1. PICK v : v = [t EXCEPT !.conn[i].mev = "CONNECTED"]
  OBVIOUS
<1>2. t.proxy \in BOOLEAN
  BY Fields
<1>3. CASE t.conn[i].mev = "CONNECTING" /\ t.proxy
  <2>1. OnOut(t, i) = OnSocksConnected(v, i)
    BY <1>1, <1>3 DEF OnOut
  <2> QED BY <1>1, <1>3, <2>1, SocksConnectedKeeps, MessagedMild
<1>4. CASE t.conn[i].mev = "CONNECTING" /\ ~t.proxy
  <2>1. OnOut(t, i) = OnConnect(v, i)
    BY <1>1, <1>4 DEF OnOut
  <2> QED BY <1>1, <1>4, <2>1, ConnectMild
<1>5. CASE t.conn[i].mev # "CONNECTING" /\ t.conn[i].writecb = "http"
  <2>1. OnOut(t, i) = Send(t, i)
    BY <1>5 DEF OnOut
  <2>2. t.conn[i].readcb = "http" /\ t.conn[i].st # "CONNECTING"
    BY <1>5, CalmConn DEF Steady, Shaking, Neat
  <2> QED BY <2>1, <2>2, SendMild
<1>6. CASE t.conn[i].mev # "CONNECTING" /\ t.conn[i].writecb = "socks"
  <2>1. OnOut(t, i) = OnSocksWritable(t, i)
    BY <1>6 DEF OnOut
  <2> QED BY <1>6, <2>1, SocksWritableKeeps, MessagedMild
<1>7. CASE t.conn[i].mev # "CONNECTING" /\ t.conn[i].writecb # "http"
           /\ t.conn[i].writecb # "socks"
  <2>1. OnOut(t, i) = t
    BY <1>7 DEF OnOut
  <2> QED BY <2>1, MessagedMild
<1> QED BY <1>2, <1>3, <1>4, <1>5, <1>6, <1>7

\* What an event says of its connection is still so.
Due(t, e) == "IN" \in e.what => Waking(t.conn[e.i])

LEMMA TriggeredMild ==
    ASSUME NEW t \in States, Good(t, t.b.pending), Rested(t), Calm(t),
           NEW e, e.i \in Lives(t), Due(t, e), NamedOnce, ConnIds = Nat \ {0}
    PROVE  CalmBut(t, Triggered(t, e), e.i)
<1>1. PICK i \in Lives(t) : i = e.i
  OBVIOUS
<1>2. PICK x : x = IF "OUT" \in e.what THEN OnOut(t, i) ELSE t
  OBVIOUS
<1>3. CalmBut(t, x, i) /\ Stirs(t.conn[i], x.conn[i]) /\ Stays(t, x)
  <2>1. CASE "OUT" \in e.what
    BY <1>2, <2>1, OutMild, OutKeeps
  <2>2. CASE "OUT" \notin e.what
    <3>1. x = t
      BY <1>2, <2>2
    <3>2. Stays(t, x)
      BY <3>1 DEF Stays, Good
    <3> QED BY <3>1, <3>2, MessagedMild
  <2> QED BY <2>1, <2>2
<1>4. /\ x \in States /\ Good(x, x.b.pending) /\ Rested(x) /\ Calm(x) /\ i \in Lives(x)
      /\ x.abort = "no"
  BY <1>3 DEF CalmBut, Calm, Mild, Stays
<1>5. CASE "IN" \in e.what
  <2>1. Triggered(t, e) = OnIn(x, i)
    BY <1>1, <1>2, <1>4, <1>5, Zenon DEF Triggered
  <2>2. Waking(x.conn[i])
    BY <1>1, <1>3, <1>5 DEF Due, Waking, Stirs
  <2>3. CalmBut(x, OnIn(x, i), i)
    BY <1>4, <2>2, InMild
  <2> QED BY <1>1, <1>3, <2>1, <2>3, LikesButOn DEF CalmBut
<1>6. CASE "IN" \notin e.what
  <2>1. Triggered(t, e) = x
    BY <1>1, <1>2, <1>6, Zenon DEF Triggered
  <2> QED BY <1>1, <1>3, <2>1
<1> QED BY <1>5, <1>6

-----------------------------------------------------------------------------
(* The browser's callbacks.                                                *)

LEMMA NextLoadTurns ==
    ASSUME NEW t \in States
    PROVE  LET r == NextLoad(t)
           IN  /\ Turns(t, r) /\ r.b.state = t.b.state /\ r.b.notified = t.b.notified
               /\ r.b.loadnum = t.b.loadnum + 1 /\ r.b.pending = t.b.pending
               /\ r.b.embedded = t.b.embedded /\ r.b.received = t.b.received
BY Fields DEF NextLoad, States, Browsers, Turns, Same

LEMMA ReportTurns ==
    ASSUME NEW t \in States, NEW x
    PROVE  Turns(t, PutReport(t, x)) /\ PutReport(t, x).b = t.b
BY DEF PutReport, States, Turns, Same

\* Connection objects have other numbers than the notification.
LEMMA IdsAre ==
    ASSUME NEW q \in Seq(ConnIds)
    PROVE  q \in Seq(Nat) /\ 0 \notin In(q)
<1>1. q \in Seq(Nat)
  <2>1. Len(q) \in Nat /\ q \in [1..Len(q) -> ConnIds]
    OBVIOUS
  <2>2. q \in [1..Len(q) -> Nat]
    BY <2>1, Constants
  <2> QED BY <2>1, <2>2
<1>2. In(q) \subseteq ConnIds
  BY InEmpty
<1> QED BY <1>1, <1>2, Constants

\* A load is over: nothing is waited for, and nothing is notified.
Spent(t) ==
    /\ t.abort = "no" /\ t.persist # 0 /\ t.b.pending = {}
    /\ Rung(t.cbs) /\ 0 \notin In(t.cbs) /\ ~t.nap
    /\ \A n \in In(t.timers) : n <= t.b.loadnum

LEMMA OverMild ==
    ASSUME NEW t \in States, NEW P, Good(t, P), Spent(t), NEW when \in {"now", "nap"}
    PROVE  Calm(Notify(NextLoad(Reset(t)), when))
<1>1. PICK x \in States : x = Reset(t) /\ Resets(t, x)
  BY ResetKeeps DEF Spent
<1>2. PICK q \in Seq(Nat) : x.cbs = t.cbs \o q /\ 0 \notin In(q)
  <2>1. PICK q \in Seq(ConnIds) : x.cbs = t.cbs \o q
    BY <1>1 DEF Resets
  <2> QED BY <2>1, IdsAre
<1>3. Rung(x.cbs) /\ 0 \notin In(x.cbs)
  BY <1>2, Fields, RungAppend DEF Spent
<1>4. PICK y : y = NextLoad(x)
  OBVIOUS
<1>5. /\ Turns(x, y) /\ y.b.state = "SB_INIT" /\ ~y.b.notified
      /\ y.b.loadnum = t.b.loadnum + 1 /\ Nothing(y.b)
  BY <1>1, <1>4, NextLoadTurns DEF Resets, Nothing
<1>6. y \in States
  BY <1>1, <1>4, NextLoadIs, BrowserPut DEF Noted, Notes
<1>7. Bell(y)
  BY <1>1, <1>3, <1>5 DEF Bell, Turns, Resets, Spent
<1>8. PICK r : r = Notify(y, when)
  OBVIOUS
<1>9. /\ Same(y, r) /\ Bell(r) /\ r.timers = y.timers /\ r.b.notified
      /\ r.b.state = "SB_INIT" /\ r.b.loadnum = y.b.loadnum /\ Nothing(r.b)
  BY <1>5, <1>6, <1>7, <1>8, NotifyRings DEF Nothing
<1>10. Mild(r, 0)
  <2>1. \A h \in Hosts : r.srv[h].conns = <<>> /\ r.srv[h].reqs = <<>>
    BY <1>1, <1>5, <1>9 DEF Same, Turns, Resets, NoServer
  <2>2. Lives(r) = {}
    BY <2>1, InEmpty DEF Lives
  <2>3. r.abort = "no" /\ r.persist # 0
    BY <1>1, <1>5, <1>9 DEF Same, Turns, Resets, Spent
  <2> QED BY <2>1, <2>2, <2>3 DEF Mild, Neats, Busy
<1>11. Clock(r)
  <2>1. r.timers = t.timers /\ t.b.loadnum \in Nat /\ r.b.loadnum = t.b.loadnum + 1
    BY <1>1, <1>5, <1>9, Fields DEF Turns, Resets, Browsers
  <2>2. \A n \in In(t.timers) : n \in Nat
    BY InEmpty DEF States
  <2> QED BY <1>9, <2>1, <2>2 DEF Clock, Spent
<1>12. Phase(r)
  BY <1>9 DEF Phase
<1> QED BY <1>1, <1>4, <1>8, <1>9, <1>10, <1>11, <1>12 DEF Calm, Stage

LEMMA PageDoneMild ==
    ASSUME NEW t \in States, NEW P, Good(t, P), Spent(t)
    PROVE  Calm(PageDone(t))
<1>1. PICK x \in Reports : x = IF t.b.vr = "VR_SUCCESS" /\ t.b.expected = {}
                               THEN "success" ELSE "FAILED"
  BY DEF Reports
<1>2. PICK v : v = PutReport(t, x)
  OBVIOUS
<1>3. Report(t) = v
  BY <1>1, <1>2, Zenon DEF Report, PutReport
<1>4. Good(v, P) /\ v \in States
  BY <1>2, ReportPut, NotesKeep DEF Notes
<1>5. Spent(v)
  BY <1>2, ReportTurns DEF Turns, Same, Spent
<1>6. Calm(Notify(NextLoad(Reset(v)), "nap"))
  BY <1>4, <1>5, OverMild
<1> QED BY <1>3, <1>6, Zenon DEF PageDone

\* The document is asked for.
LEMMA LoadMild ==
    ASSUME NEW t \in States, Good(t, {}), Mild(t, 0), Spent(t), ~t.b.notified, Nothing(t.b),
           ConnIds = Nat \ {0}
    PROVE  Calm(Load(t))
<1>1. PICK v \in States : /\ Good(v, {}) /\ Clocked(t, v)
                          /\ Begun(SubmitRequest(v, Doc), Load(t))
  BY LoadKeeps
<1>2. PICK w : w = SubmitRequest(v, Doc)
  OBVIOUS
<1>3. PICK r : r = Load(t) /\ Begun(w, r)
  BY <1>1, <1>2
<1>4. Mild(v, 0)
  BY <1>1, SameMild DEF Clocked
<1>5. Mild(w, 0) /\ Aside(v, w)
  <2>1. Doc \in Urls
    BY BrowserAssumption
  <2> QED BY <1>1, <1>2, <1>4, <2>1, SubmitMild
<1>6. Mild(r, 0)
  BY <1>3, <1>5, TurnsMild DEF Begun
<1>7. /\ r.cbs = t.cbs /\ r.nap = t.nap /\ r.timed = t.timed /\ r.timers = v.timers
      /\ ~r.b.notified /\ r.b.loadnum = t.b.loadnum /\ r.b.state = "SB_FETCHING_DOCUMENT"
      /\ r.b.pending = {Doc} /\ r.b.embedded = {} /\ r.b.received = {}
  BY <1>1, <1>3, <1>5 DEF Begun, Turns, Aside, Clocked, Nothing
<1>8. Bell(r)
  BY <1>7 DEF Bell, Spent
<1>9. Clock(r)
  <2>1. PICK q \in Seq(Nat), n \in Nat : q = t.timers /\ n = t.b.loadnum
    BY DEF States, Browsers
  <2>2. \A m \in In(q) : m <= n
    BY <2>1 DEF Spent
  <2>3. In(Append(q, n)) = In(q) \cup {n}
    BY InAppend
  <2>4. r.timers = IF t.timed THEN Append(q, n) ELSE q
    BY <1>1, <1>7, <2>1 DEF Clocked
  <2>5. \A m \in In(r.timers) : m <= n
    BY <2>2, <2>3, <2>4
  <2>6. t.timed => n \in In(r.timers)
    BY <2>3, <2>4
  <2> QED BY <1>7, <2>1, <2>5, <2>6 DEF Clock
<1>10. Phase(r)
  BY <1>7 DEF Phase
<1> QED BY <1>3, <1>6, <1>8, <1>9, <1>10 DEF Calm, Stage

\* The document is there.
LEMMA DocumentDoneMild ==
    ASSUME NEW t \in States, Good(t, t.b.pending), Mild(t, 0), Spent(t), ~t.b.notified,
           Clock(t), t.b.state = "SB_DONE_DOCUMENT", Nothing(t.b), NamedOnce,
           ConnIds = Nat \ {0}
    PROVE  Calm(DocumentDone(t))
<1>1. PICK x : x = IF t.b.html THEN RequestNamed(t, Doc) ELSE t
  OBVIOUS
<1>2. Wants(t.b, {}) /\ Wants(t.b, {Doc})
  <2>1. IsFiniteSet({})
    BY FS_EmptySet
  <2> QED BY <2>1 DEF Wants, Nothing
<1>3. /\ x \in States /\ Good(x, x.b.pending) /\ Mild(x, 0) /\ Aloof(t, x)
      /\ Wants(x.b, {Doc})
  <2>1. CASE t.b.html
    <3>1. {} \cup {Doc} = {Doc} /\ Doc \notin {}
      OBVIOUS
    <3>2. LET r == RequestNamed(t, Doc)
          IN  /\ Good(r, r.b.pending) /\ Keeps(t, r) /\ Mild(r, 0) /\ Aloof(t, r)
              /\ Wants(r.b, {Doc})
      BY <1>2, <3>1, RequestNamedMild
    <3> QED BY <1>1, <2>1, <3>2 DEF Keeps
  <2>2. CASE ~t.b.html
    BY <1>1, <1>2, <2>2 DEF Aloof
  <2> QED BY <2>1, <2>2
<1>4. IsPageDone(x) <=> x.b.pending = {}
  BY <1>3, PageDoneIs
<1>5. PICK state \in LoadStates :
          state = IF IsPageDone(x) THEN "SB_DONE" ELSE "SB_FETCHING_EMBEDDED"
  BY DEF LoadStates
<1>a. PICK y : y = [x EXCEPT !.b.state = state]
  OBVIOUS
<1>6. /\ Turns(x, y) /\ y.b.notified = x.b.notified /\ y.b.loadnum = x.b.loadnum
      /\ y.b.pending = x.b.pending /\ y.b.embedded = x.b.embedded
      /\ y.b.received = x.b.received
      /\ y.b.state = state
  BY <1>3, <1>a, StateTurns
<1>7. Mild(y, 0)
  BY <1>3, <1>6, TurnsMild
<1>8. CASE IsPageDone(x)
  <2>1. Good(y, x.b.pending) /\ y \in States
    BY <1>3, <1>a, StateIs, NotedKeep
  <2>2. Spent(y)
    BY <1>3, <1>4, <1>6, <1>7, <1>8 DEF Spent, Aloof, Turns, Mild
  <2>3. DocumentDone(t) = PageDone(y)
    BY <1>1, <1>5, <1>a, <1>8, Zenon DEF DocumentDone
  <2> QED BY <2>1, <2>2, <2>3, PageDoneMild
<1>9. CASE ~IsPageDone(x)
  <2>1. DocumentDone(t) = y
    BY <1>1, <1>5, <1>a, <1>9, Zenon DEF DocumentDone
  <2>2. Bell(y)
    BY <1>3, <1>6 DEF Bell, Spent, Aloof, Turns
  <2>3. Clock(y)
    BY <1>3, <1>5, <1>6, <1>9 DEF Clock, Aloof, Turns
  <2>4. Phase(y)
    <3>1. Wanted(y.b)
      <4>1. y.b.received \cap Scripts = {}
        BY <1>3, <1>6 DEF Aloof, Nothing
      <4>2. {Doc} \cup {} = {Doc}
        OBVIOUS
      <4> QED BY <1>3, <1>6, <4>1, <4>2 DEF Wanted, Wants
    <3> QED BY <1>3, <1>4, <1>5, <1>6, <1>9, <3>1 DEF Phase, Aloof
  <2> QED BY <1>7, <2>1, <2>2, <2>3, <2>4 DEF Calm, Stage
<1> QED BY <1>8, <1>9

\* A flag of the browser is cleared, or the requests are forgotten.
LEMMA ClearedTurns ==
    ASSUME NEW t \in States
    PROVE  /\ LET r == [t EXCEPT !.b.notified = FALSE]
              IN  /\ Turns(t, r) /\ r.b.state = t.b.state /\ ~r.b.notified
                  /\ r.b.loadnum = t.b.loadnum /\ r.b.pending = t.b.pending
                  /\ r.b.embedded = t.b.embedded /\ r.b.received = t.b.received
           /\ LET r == [t EXCEPT !.b.pending = {}]
              IN  Turns(t, r) /\ r.b.loadnum = t.b.loadnum /\ r.b.pending = {}
BY Fields DEF States, Browsers, Turns, Same

\* on_notified, when its callback has been taken.
LEMMA NotifiedMild ==
    ASSUME NEW t \in States, Good(t, t.b.pending), Mild(t, 0), Clock(t), Phase(t),
           t.b.notified, Rung(t.cbs), 0 \notin In(t.cbs), ~t.nap, NamedOnce,
           ConnIds = Nat \ {0}
    PROVE  Calm(OnNotified(t))
<1>1. PICK v : v = [t EXCEPT !.b.notified = FALSE]
  OBVIOUS
<1>2. /\ Turns(t, v) /\ v.b.state = t.b.state /\ ~v.b.notified
      /\ v.b.loadnum = t.b.loadnum /\ v.b.pending = t.b.pending
      /\ v.b.embedded = t.b.embedded /\ v.b.received = t.b.received
  BY <1>1, ClearedTurns
<1>3. Good(v, v.b.pending) /\ v \in States
  <2>1. Noted(t, v, t.b.pending, t.b.state)
    BY <1>1, UnnotifiedIs
  <2> QED BY <1>2, <2>1, NotedKeep
<1>4. Mild(v, 0) /\ Clock(v)
  BY <1>2, TurnsMild DEF Clock, Turns
<1>5. v.b.pending = {} => Spent(v)
  BY <1>2, <1>4 DEF Spent, Turns, Mild, Clock
<1>6. t.b.state \in {"SB_INIT", "SB_DONE_DOCUMENT", "SB_DONE"}
  <2>1. t.b.state \in LoadStates
    BY Fields, BrowserFields DEF Browsers
  <2> QED BY <2>1 DEF LoadStates, Phase
<1>7. CASE t.b.state = "SB_INIT"
  <2>1. OnNotified(t) = Load(v)
    BY <1>1, <1>7 DEF OnNotified
  <2>2. Nothing(v.b) /\ v.b.pending = {}
    BY <1>2, <1>7 DEF Phase, Nothing
  <2> QED BY <1>2, <1>3, <1>4, <1>5, <2>1, <2>2, LoadMild
<1>8. CASE t.b.state = "SB_DONE_DOCUMENT"
  <2>1. OnNotified(t) = DocumentDone(v)
    BY <1>1, <1>8 DEF OnNotified
  <2>2. Nothing(v.b) /\ v.b.pending = {}
    BY <1>2, <1>8 DEF Phase, Nothing
  <2> QED BY <1>2, <1>3, <1>4, <1>5, <1>8, <2>1, <2>2, DocumentDoneMild
<1>9. CASE t.b.state = "SB_DONE"
  <2>1. OnNotified(t) = PageDone(v)
    BY <1>1, <1>9 DEF OnNotified
  <2>2. Spent(v)
    BY <1>2, <1>5, <1>9 DEF Phase
  <2> QED BY <1>3, <2>1, <2>2, PageDoneMild
<1> QED BY <1>6, <1>7, <1>8, <1>9

\* on_timeout_timer_fired, when the timer has been taken.
LEMMA TimeoutMild ==
    ASSUME NEW t \in States, Good(t, t.b.pending), Mild(t, 0), Bell(t), Phase(t),
           t.cbs = <<>>, NEW n,
           \A m \in In(t.timers) \cup {n} :
               m <= t.b.loadnum /\ (m = t.b.loadnum => t.b.state # "SB_INIT"),
           t.timed /\ t.b.state # "SB_INIT" => t.b.loadnum \in In(t.timers) \cup {n}
    PROVE  Calm(OnTimeout(t, n))
<1>1. CASE ~OwnTimer(t, n)
  <2>1. OnTimeout(t, n) = t
    BY <1>1 DEF OnTimeout
  <2>2. Clock(t)
    BY <1>1 DEF Clock, OwnTimer
  <2> QED BY <2>1, <2>2 DEF Calm, Stage
<1>2. CASE OwnTimer(t, n)
  <2>1. PICK v : v = PutReport(t, "timedout")
    OBVIOUS
  <2>2. Good(v, t.b.pending) /\ v \in States
    BY <2>1, ReportPut, NotesKeep DEF Reports, Notes
  <2>3. PICK w : w = [v EXCEPT !.b.pending = {}]
    OBVIOUS
  <2>4. Good(w, t.b.pending) /\ w \in States
    <3>1. Noted(v, w, {}, v.b.state)
      BY <2>2, <2>3, ForgottenIs
    <3> QED BY <2>2, <3>1, NotedKeep
  <2>5. Turns(t, v) /\ v.b = t.b
    BY <2>1, ReportTurns
  <2>6. Turns(v, w) /\ w.b.loadnum = v.b.loadnum /\ w.b.pending = {}
    BY <2>2, <2>3, ClearedTurns
  <2>7. 0 \notin In(t.cbs) /\ Rung(t.cbs)
    BY InEmpty DEF Rung
  <2>8. ~t.nap
    <3>1. t.b.state # "SB_INIT" /\ t.b.state \in LoadStates
      BY <1>2, Fields, BrowserFields DEF OwnTimer, Browsers
    <3> QED BY <3>1, <2>7 DEF Bell, Phase, LoadStates
  <2>9. Spent(w)
    BY <2>5, <2>6, <2>7, <2>8 DEF Spent, Turns, Same, Mild
  <2>10. OnTimeout(t, n) = Notify(NextLoad(Reset(w)), "now")
    BY <1>2, <2>1, <2>3, Zenon DEF OnTimeout, PutReport, StopLoad
  <2> QED BY <2>4, <2>9, <2>10, OverMild
<1> QED BY <1>1, <1>2


-----------------------------------------------------------------------------
(* The invariant, when nothing odd has happened and a page names each      *)
(* object once.                                                            *)

\* Nothing has failed, and what the events not yet handled say is still so.
CalmInv == Calm(s) /\ \A e \in batch : Due(s, e)

\* A connection of a process that has nothing else to do.
LEMMA QuietLives ==
    ASSUME WebInv, Quiet, NEW i \in ConnIds, s.conn[i].st # "none"
    PROVE  i \in Lives(s)
<1>1. In(s.cbs) = {}
  BY InEmpty DEF Quiet
<1> QED BY <1>1 DEF WebInv, Quiet, Running, Good, Sound, Doomed

LEMMA CallbackCalm ==
    ASSUME WebInv, CalmInv, Callback, NamedOnce, ConnIds = Nat \ {0}
    PROVE  CalmInv'
<1>1. /\ Good(s, s.b.pending) /\ Rested(s) /\ s \in States /\ s.cbs # <<>>
      /\ batch' = {} /\ s.abort = "no" /\ Mild(s, 0) /\ Bell(s) /\ Clock(s) /\ Phase(s)
  BY DEF WebInv, CalmInv, Calm, Stage, Callback, Running
<1>2. PICK t : t = [s EXCEPT !.cbs = Tail(@)]
  OBVIOUS
<1>3. /\ t \in States /\ t.cbs = Tail(s.cbs) /\ t.b = s.b /\ t.conn = s.conn
      /\ t.srv = s.srv /\ t.req = s.req /\ t.proxy = s.proxy /\ t.lost = s.lost
      /\ t.misplaced = s.misplaced /\ t.abort = s.abort
  BY <1>1, <1>2, TakenIs
<1>4. /\ t.persist = s.persist /\ t.nap = s.nap /\ t.timers = s.timers
      /\ t.timed = s.timed
  BY <1>1, <1>2 DEF States
<1>5. Clock(t) /\ Phase(t)
  BY <1>1, <1>3, <1>4 DEF Clock, Phase
<1>6. PICK q \in Seq(Nat) : q = s.cbs
  BY <1>1, Fields
<1>7. /\ Rung(t.cbs) /\ (Head(q) = 0 => 0 \notin In(t.cbs))
      /\ Head(q) # 0 => (0 \in In(t.cbs) <=> 0 \in In(q))
  BY <1>1, <1>3, <1>6, RungTail DEF Bell
<1>8. CASE Head(q) = 0
  <2>1. Notes(s, t)
    BY <1>1, <1>2, <1>6, <1>8, TakenIs
  <2>2. Good(t, t.b.pending)
    BY <1>1, <1>3, <2>1, NotesKeep
  <2>3. Mild(t, 0)
    BY <1>1, <1>3, <1>4, SameMild DEF Same
  <2>4. 0 \in In(q)
    BY <1>1, <1>6, <1>8, InTail
  <2>5. t.b.notified /\ ~t.nap
    BY <1>1, <1>3, <1>4, <1>6, <2>4 DEF Bell
  <2>6. Calm(OnNotified(t))
    BY <1>3, <1>5, <1>7, <1>8, <2>2, <2>3, <2>5, NotifiedMild
  <2>7. s' = OnNotified(t)
    BY <1>2, <1>6, <1>8 DEF Callback
  <2> QED BY <1>1, <2>6, <2>7 DEF CalmInv
<1>9. CASE Head(q) # 0
  <2>1. PICK k : k = Head(q)
    OBVIOUS
  <2>2. k \in In(q)
    BY <1>1, <1>6, <2>1, InTail
  <2>3. k \in ConnIds /\ k \notin Lives(s)
    BY <1>1, <1>6, <1>9, <2>1, <2>2 DEF Good, Sound, Doomed
  <2>4. PICK r : r = PutConn(t, k, NoConn)
    OBVIOUS
  <2>5. ConnIs(t, r, k, NoConn) /\ Aside(t, r)
    BY <1>3, <2>3, <2>4, NoConnIs, ConnPut, AsidePut
  <2>6. r.srv = s.srv /\ \A j \in ConnIds : j # k => r.conn[j] = s.conn[j]
    BY <1>3, <2>5 DEF ConnIs
  <2>7. \A h \in Hosts : \A j \in In(s.srv[h].conns) : j \in Lives(s)
    BY <1>1, Fields, InEmpty DEF Lives
  <2>8. Lives(r) = Lives(s) /\ \A j \in Lives(s) : r.conn[j] = s.conn[j]
    BY <2>3, <2>6 DEF Lives
  <2>9. Neats(r, 0) /\ Busy(r, 0)
    BY <1>1, <2>6, <2>7, <2>8 DEF Mild, Neats, Busy
  <2>10. Mild(r, 0)
    BY <1>1, <1>3, <1>4, <2>5, <2>9 DEF Mild, Aside
  <2>11. Bell(t)
    BY <1>1, <1>3, <1>4, <1>6, <1>7, <1>9 DEF Bell
  <2>12. Stage(r)
    BY <1>5, <2>5, <2>11, AsideStage DEF Stage
  <2>13. s' = r
    BY <1>2, <1>6, <1>9, <2>1, <2>4 DEF Callback, PutConn
  <2> QED BY <1>1, <2>10, <2>12, <2>13 DEF CalmInv, Calm
<1> QED BY <1>8, <1>9

LEMMA NapEndsCalm ==
    ASSUME WebInv, CalmInv, NapEnds
    PROVE  CalmInv'
<1>1. /\ s \in States /\ s.cbs = <<>> /\ s.nap /\ batch' = {}
      /\ Mild(s, 0) /\ Bell(s) /\ Clock(s) /\ Phase(s)
  BY DEF WebInv, CalmInv, Calm, Stage, NapEnds, Quiet
<1>2. PICK q \in Seq(Nat) : q = <<0>> /\ In(q) = {0} /\ Len(q) = 1
  BY InOne
<1>3. s' = [s EXCEPT !.nap = FALSE, !.cbs = q]
  BY <1>2 DEF NapEnds
<1>4. /\ s'.cbs = q /\ ~s'.nap /\ s'.b = s.b /\ s'.timers = s.timers
      /\ s'.timed = s.timed /\ Same(s, s')
  BY <1>1, <1>3 DEF States, Same
<1>5. Mild(s', 0)
  BY <1>1, <1>4, SameMild
<1>6. Bell(s')
  <2>1. Rung(q)
    BY <1>2 DEF Rung
  <2> QED BY <1>1, <1>2, <1>4, <2>1 DEF Bell
<1>7. Clock(s') /\ Phase(s')
  BY <1>1, <1>4 DEF Clock, Phase
<1> QED BY <1>1, <1>5, <1>6, <1>7 DEF CalmInv, Calm, Stage

LEMMA TimerFiresCalm ==
    ASSUME WebInv, CalmInv, TimerFires, odd' = {}
    PROVE  CalmInv'
<1>0. s.cbs = <<>>
  BY TakesEven DEF TimerFires
<1>1. /\ Good(s, s.b.pending) /\ s \in States /\ s.cbs = <<>> /\ s.timers # <<>>
      /\ batch' = {} /\ s.abort = "no" /\ Mild(s, 0) /\ Bell(s) /\ Clock(s) /\ Phase(s)
  BY <1>0 DEF WebInv, CalmInv, Calm, Stage, TimerFires, Running
<1>2. PICK p \in Seq(Nat) : p = s.timers
  BY <1>1 DEF States
<1>3. PICK q \in Seq(Nat), n \in Nat : q = Tail(p) /\ n = Head(p) /\ In(p) = {n} \cup In(q)
  <2>1. Head(p) \in Nat /\ Tail(p) \in Seq(Nat)
    BY <1>1, <1>2
  <2>2. In(p) = {Head(p)} \cup In(Tail(p))
    BY <1>1, <1>2, InTail
  <2> QED BY <2>1, <2>2
<1>4. PICK t : t = PutTimers(s, q)
  OBVIOUS
<1>5. Notes(s, t) /\ t.b = s.b /\ t.abort = s.abort
  BY <1>1, <1>4, TimersPut
<1>6. /\ t.cbs = s.cbs /\ t.nap = s.nap /\ t.timed = s.timed /\ t.timers = q /\ Same(s, t)
  BY <1>1, <1>4 DEF States, PutTimers, Same
<1>7. Good(t, t.b.pending) /\ t \in States
  BY <1>1, <1>5, NotesKeep DEF Notes
<1>8. Mild(t, 0)
  BY <1>1, <1>6, SameMild
<1>9. Bell(t) /\ Phase(t)
  BY <1>1, <1>5, <1>6 DEF Bell, Phase
<1>10. /\ \A m \in In(t.timers) \cup {n} :
             m <= t.b.loadnum /\ (m = t.b.loadnum => t.b.state # "SB_INIT")
       /\ t.timed /\ t.b.state # "SB_INIT" => t.b.loadnum \in In(t.timers) \cup {n}
  BY <1>1, <1>2, <1>3, <1>5, <1>6 DEF Clock
<1>11. Calm(OnTimeout(t, n))
  BY <1>1, <1>6, <1>7, <1>8, <1>9, <1>10, TimeoutMild
<1>12. s' = OnTimeout(t, n)
  BY <1>2, <1>3, <1>4 DEF TimerFires, PutTimers
<1> QED BY <1>1, <1>11, <1>12 DEF CalmInv

LEMMA ActivateCalm ==
    ASSUME WebInv, CalmInv, Activate
    PROVE  CalmInv'
<1>1. Calm(s) /\ s' = s
  BY DEF CalmInv, Activate
<1>2. ASSUME NEW e \in batch' PROVE Due(s, e)
  <2>1. PICK i \in ConnIds : e = [i |-> i, what |-> Ready(s.conn[i])]
    BY DEF Activate
  <2>2. e.i = i /\ e.what = Ready(s.conn[i])
    BY <2>1
  <2> QED BY <2>2 DEF Due, Waking, Ready
<1> QED BY <1>1, <1>2 DEF CalmInv

LEMMA TriggerCalm ==
    ASSUME WebInv, CalmInv, Trigger, NamedOnce, ConnIds = Nat \ {0}
    PROVE  CalmInv'
<1>1. /\ Good(s, s.b.pending) /\ Rested(s) /\ s \in States /\ Calm(s)
      /\ \A d \in batch : d.i \in Lives(s) /\ Due(s, d)
      /\ \A c, d \in batch : c.i = d.i => c = d
  BY DEF WebInv, CalmInv, Trigger, Running
<1>2. PICK e \in batch : s' = Triggered(s, e) /\ batch' = batch \ {e}
  BY DEF Trigger
<1>3. Calm(s') /\ LikesBut(s, s', e.i)
  BY <1>1, <1>2, TriggeredMild DEF CalmBut
<1>4. \A d \in batch' : Due(s', d)
  BY <1>1, <1>2, <1>3 DEF LikesBut, Like, Due, Waking
<1> QED BY <1>3, <1>4 DEF CalmInv

LEMMA EstablishCalm ==
    ASSUME WebInv, CalmInv, Establish
    PROVE  CalmInv'
<1>1. s \in States /\ Quiet /\ batch' = {} /\ Mild(s, 0) /\ Stage(s)
  BY DEF WebInv, CalmInv, Calm, Establish, Quiet
<1>2. PICK i \in ConnIds, d \in Conns :
          s.conn[i].st # "none" /\ Looks(s.conn[i], d) /\ ConnIs(s, s', i, d)
  BY EstablishIs
<1>3. i \in Lives(s)
  BY <1>1, <1>2, QuietLives
<1>4. Mild(s', 0) /\ Aside(s, s')
  BY <1>1, <1>2, <1>3, SeemsMild DEF Looks
<1>5. Stage(s')
  BY <1>1, <1>4, AsideStage
<1> QED BY <1>1, <1>4, <1>5 DEF CalmInv, Calm

\* What the network does to a connection.
LEMMA NetworkCalm ==
    ASSUME WebInv, CalmInv, Quiet, batch' = batch, NEW i \in Lives(s), NEW d \in Conns,
           Carries(s.conn[i], d), ConnIs(s, s', i, d), Neat(d), Begins(d.inp)
    PROVE  CalmInv'
<1>1. s \in States /\ batch' = {} /\ Calm(s) /\ Good(s, s.b.pending)
  BY DEF WebInv, CalmInv, Quiet, Running
<1>2. Flushed(s.conn[i])
  BY <1>1, CalmConn
<1>3. Flushed(d) /\ d.act = s.conn[i].act
  BY <1>2 DEF Carries, Flushed
<1>4. Calm(s')
  BY <1>1, <1>3, ConnCalm DEF CalmBut
<1> QED BY <1>1, <1>4 DEF CalmInv

\* Some of it, with the first of what follows a body, if anything.
LEMMA DeliveredNeat ==
    ASSUME NEW c \in Conns, Neat(c), Begins(c.inp), NEW d \in Conns, Carries(c, d),
           NEW k, Delivered(c, d, k), k < Len(c.todo) => c.todo[k + 1].kind = "body"
    PROVE  Neat(d) /\ Begins(d.inp)
<1>1. PICK p \in Seq(Units), q \in Seq(Units) : p = c.inp /\ q = c.todo
  BY ConnFields
<1>2. k \in 1..Len(q) /\ d.inp = p \o SubSeq(q, 1, k) /\ d.todo = SubSeq(q, k + 1, Len(q))
      /\ d.closed = c.closed /\ d.inp \o d.todo = c.inp \o c.todo
  BY <1>1, DeliveredIs DEF Delivered
<1>3. Begins(d.todo)
  <2> SUFFICES ASSUME d.todo # <<>> PROVE d.todo[1].kind = "body"
    BY DEF Begins
  <2>1. k < Len(q)
    <3>1. k <= Len(q) /\ k \in Nat /\ Len(q) \in Nat
      BY <1>2
    <3>2. k # Len(q)
      BY <1>2
    <3> QED BY <3>1, <3>2
  <2>2. SubSeq(q, k + 1, Len(q))[1] = q[k + 1]
    BY <1>2, <2>1
  <2> QED BY <1>1, <1>2, <2>1, <2>2
<1>4. PICK w \in Seq(Units) : w = SubSeq(q, 1, k) /\ w # <<>> /\ w[1] = q[1]
  <2>1. SubSeq(q, 1, k) \in Seq(Units) /\ Len(SubSeq(q, 1, k)) = k /\ k >= 1
        /\ SubSeq(q, 1, k)[1] = q[1]
    BY <1>2
  <2>2. PICK v \in Seq(Units) : v = SubSeq(q, 1, k) /\ Len(v) = k /\ v[1] = q[1]
    BY <2>1
  <2>3. Len(v) >= 1
    BY <2>1, <2>2
  <2>4. v # <<>>
    BY <2>3
  <2> QED BY <2>2, <2>4
<1>5. q # <<>>
  BY <1>2
<1>6. d.inp # <<>> /\ Begins(d.inp)
  <2>1. Len(p) \in Nat /\ Len(w) \in Nat /\ Len(w) # 0
    BY <1>4
  <2>2. Len(p \o w) = Len(p) + Len(w) /\ (p \o w)[1] = IF 1 <= Len(p) THEN p[1] ELSE w[1 - Len(p)]
    BY <2>1, ConcatIs
  <2>3. p # <<>> <=> 1 <= Len(p)
    BY <2>1
  <2>4. p \o w # <<>>
    BY <2>1, <2>2
  <2>5. p = <<>> => (p \o w)[1] = q[1]
    BY <1>4, <2>2, <2>3
  <2>6. p # <<>> => (p \o w)[1] = p[1]
    BY <2>2, <2>3
  <2> QED BY <1>1, <1>2, <1>4, <1>5, <2>4, <2>5, <2>6 DEF Neat, Begins
<1>7. ~c.closed
  BY <1>1, <1>5 DEF Neat
<1> QED BY <1>2, <1>3, <1>6, <1>7 DEF Neat, Carries

LEMMA ArriveCalm ==
    ASSUME WebInv, CalmInv, Arrive, odd' = {}
    PROVE  CalmInv'
<1>1. s \in States /\ Quiet /\ batch' = batch /\ Calm(s) /\ Good(s, s.b.pending)
  BY DEF WebInv, CalmInv, Arrive, Quiet, Running
<1>2. PICK i \in ConnIds, d \in Conns : \E k : Arrives(i, k, d)
  BY ArriveIs
<1>3. PICK k : Arrives(i, k, d)
  BY <1>2
<1>4. i \in Lives(s)
  BY <1>1, <1>3, QuietLives DEF Arrives
<1>5. PICK c \in Conns : c = s.conn[i] /\ Neat(c) /\ Begins(c.inp)
  BY <1>1, <1>4, CalmConn
<1>6. Delivered(c, d, k) /\ Carries(c, d) /\ (k < Len(c.todo) => c.todo[k + 1].kind = "body")
  <2>1. k \in 1..Len(c.todo) /\ ~Splits(c.todo, k)
    BY <1>3, <1>5 DEF Arrives
  <2> QED BY <1>3, <1>5, <2>1 DEF Arrives, Splits
<1>7. Neat(d) /\ Begins(d.inp)
  BY <1>5, <1>6, DeliveredNeat
<1> QED BY <1>1, <1>3, <1>4, <1>7, NetworkCalm DEF Arrives

LEMMA CloseCalm ==
    ASSUME WebInv, CalmInv, Close, odd' = {}
    PROVE  CalmInv'
<1>1. s \in States /\ Quiet /\ batch' = batch /\ Calm(s) /\ Good(s, s.b.pending)
  BY DEF WebInv, CalmInv, Close, Quiet, Running
<1>2. PICK i \in ConnIds, d \in Conns : Shuts(i, d)
  BY CloseIs
<1>3. i \in Lives(s)
  BY <1>1, <1>2, QuietLives DEF Shuts
<1>4. PICK c \in Conns :
          c = s.conn[i] /\ Neat(c) /\ Begins(c.inp) /\ Steady(c, s.req, s.proxy)
  BY <1>1, <1>3, CalmConn
<1>5. Carries(c, d) /\ Closes(c, d) /\ c.st = "CONNECTED" /\ ~MayQueue(c)
  BY <1>2, <1>4 DEF Shuts
<1>6. c.sub = <<>> /\ In(c.act) \cap Scripts = {}
  BY <1>5 DEF MayQueue, Contains, In
<1>7. c.readcb = "http"
  BY <1>4, <1>5 DEF Steady, Shaking
<1>8. Neat(d) /\ Begins(d.inp)
  BY <1>4, <1>5, <1>6, <1>7 DEF Neat, Carries, Closes, Begins
<1> QED BY <1>1, <1>2, <1>3, <1>8, NetworkCalm DEF Shuts

LEMMA RefuseCalm ==
    ASSUME WebInv, CalmInv, Refuse
    PROVE  CalmInv'
<1>1. s \in States /\ Quiet /\ batch' = batch /\ Calm(s) /\ Good(s, s.b.pending)
  BY DEF WebInv, CalmInv, Refuse, Quiet, Running
<1>2. PICK i \in ConnIds, d \in Conns :
              /\ Carries(s.conn[i], d) /\ Refuses(s.conn[i], d)
              /\ ConnIs(s, s', i, d) /\ s.conn[i].st # "none"
  BY RefuseIs
<1>3. i \in Lives(s)
  BY <1>1, <1>2, QuietLives
<1>4. PICK c \in Conns : c = s.conn[i] /\ Neat(c) /\ Begins(c.inp)
  BY <1>1, <1>3, CalmConn
<1>5. Carries(c, d) /\ Refuses(c, d)
  BY <1>2, <1>4
<1>6. PICK q \in Seq(Units), w \in Seq(Units) :
          /\ q = <<Unit("grant", 0)>> /\ Len(q) = 1 /\ q # <<>> /\ q[1].kind = "grant"
          /\ w = <<Unit("refuse", 0)>> /\ w # <<>> /\ w[1].kind = "refuse"
  BY OneUnit DEF Kinds
<1>7. c.todo = q /\ d.todo = w /\ d.inp = c.inp /\ d.closed = c.closed
  BY <1>5, <1>6 DEF Refuses
<1>8. ~Ends(c.inp \o q, c.act[1])
  <2>1. PICK p \in Seq(Units) : p = c.inp
    BY ConnFields
  <2>2. Len(p \o q) = Len(p) + 1 /\ (p \o q)[Len(p) + 1] = q[1]
    <3>1. Len(p) \in Nat
      OBVIOUS
    <3>2. (p \o q)[Len(p) + 1] = q[Len(p) + 1 - Len(p)] /\ Len(p \o q) = Len(p) + 1
      BY <1>6, <3>1, ConcatIs
    <3> QED BY <3>1, <3>2
  <2>3. \A v : Unit("body", v).kind = "body"
    BY DEF Unit
  <2> QED BY <1>6, <2>1, <2>2, <2>3 DEF Ends
<1>9. Neat(d) /\ Begins(d.inp)
  BY <1>4, <1>5, <1>6, <1>7, <1>8 DEF Neat, Carries, Begins
<1> QED BY <1>1, <1>2, <1>3, <1>9, NetworkCalm

LEMMA WebInitCalm ==
    ASSUME WebInit, ConnIds = Nat \ {0}
    PROVE  CalmInv
<1>1. batch = {}
  BY DEF WebInit
<1>2. PICK g \in Settings :
          s = Load([Start0 EXCEPT !.timed = g.timed, !.proxy = g.proxy, !.persist = g.persist])
  BY Zenon DEF WebInit
<1>3. PICK t : t = [Start0 EXCEPT !.timed = g.timed, !.proxy = g.proxy, !.persist = g.persist]
  OBVIOUS
<1>4. t \in States /\ Good(t, {})
  BY <1>3, StartIs, Zenon
<1>5. g.persist # 0
  BY ClientAssumption
<1>6. /\ t.srv = [h \in Hosts |-> NoServer] /\ t.cbs = <<>> /\ t.timers = <<>> /\ ~t.nap
      /\ t.abort = "no" /\ t.persist = g.persist /\ t.b = Browser
  BY <1>3 DEF Start0
<1>7. In(<<>>) = {} /\ Rung(<<>>)
  BY InEmpty DEF Rung
<1>8. \A h \in Hosts : t.srv[h].conns = <<>> /\ t.srv[h].reqs = <<>>
  BY <1>6 DEF NoServer
<1>9. Lives(t) = {}
  BY <1>7, <1>8 DEF Lives
<1>10. Mild(t, 0)
  BY <1>5, <1>6, <1>8, <1>9 DEF Mild, Neats, Busy
<1>11. Nothing(t.b) /\ ~t.b.notified
  BY <1>6 DEF Browser, Nothing
<1>12. Spent(t)
  BY <1>5, <1>6, <1>7, <1>11 DEF Spent, Nothing
<1>13. Calm(Load(t))
  BY <1>4, <1>10, <1>11, <1>12, LoadMild
<1> QED BY <1>1, <1>2, <1>3, <1>13 DEF CalmInv

LEMMA WebNextCalm ==
    ASSUME WebInv, CalmInv, [WebNext]_webVars, NamedOnce, odd' = {},
           ConnIds = Nat \ {0}
    PROVE  CalmInv'
<1>1. CASE Callback
  BY <1>1, CallbackCalm
<1>2. CASE NapEnds
  BY <1>2, NapEndsCalm
<1>3. CASE TimerFires
  BY <1>3, TimerFiresCalm
<1>4. CASE Activate
  BY <1>4, ActivateCalm
<1>5. CASE Trigger
  BY <1>5, TriggerCalm
<1>6. CASE Establish
  BY <1>6, EstablishCalm
<1>7. CASE Arrive
  BY <1>7, ArriveCalm
<1>8. CASE Close
  BY <1>8, CloseCalm
<1>9. CASE Refuse
  BY <1>9, RefuseCalm
<1>10. CASE UNCHANGED webVars
  BY <1>10 DEF webVars, CalmInv
<1> QED BY <1>1, <1>2, <1>3, <1>4, <1>5, <1>6, <1>7, <1>8, <1>9, <1>10
        DEF WebNext, Plugin, Network

\* A connection with a request under way has something to do, or something is on its
\* way to it.
LEMMA NoneAsleep ==
    ASSUME NEW c \in Conns, Neat(c), c.act # <<>>, c.up, c.todo = <<>>
    PROVE  Ready(c) # {}
<1> SUFFICES ASSUME Ready(c) = {} PROVE FALSE
  OBVIOUS
<1>1. c.mev # "CONNECTING" /\ c.writecb = "NULL"
      /\ (c.readcb = "NULL" \/ (c.inp = <<>> /\ ~c.closed))
  BY DEF Ready
<1>2. c.inp = <<>> /\ ~c.closed /\ c.readcb # "NULL" /\ c.readcb # "socks"
  BY <1>1 DEF Neat
<1>3. c.readcb = "http"
  BY <1>2 DEF Conns, CbNames
<1>4. ~c.out
  BY <1>1, <1>3 DEF Neat
<1>5. c.inp \o c.todo = <<>>
  <2>1. <<>> \o <<>> = <<>>
    OBVIOUS
  <2> QED BY <1>2, <2>1
<1> QED BY <1>2, <1>4, <1>5 DEF Neat, Ends

LEMMA Awake ==
    ASSUME WebInv, CalmInv
    PROVE  NeverStuck
<1> SUFFICES ASSUME Idle PROVE s.lost # {} /\ ~s.timed
  BY DEF NeverStuck
<1>1. /\ Good(s, s.b.pending) /\ Counted(s, s.b.pending) /\ s \in States /\ Calm(s)
      /\ Mild(s, 0) /\ Bell(s) /\ Clock(s) /\ Phase(s)
  BY DEF WebInv, CalmInv, Calm, Mild, Stage, Good
<1>2. s.cbs = <<>> /\ ~s.nap /\ s.timers = <<>> /\ s.abort = "no"
  BY DEF Idle, Quiet, Running
<1>3. In(<<>>) = {}
  BY InEmpty
<1>4. ~s.b.notified
  BY <1>1, <1>2, <1>3 DEF Bell
<1>5. s.b.state \in LoadStates
  BY <1>1 DEF States, Browsers
<1>6. s.b.state # "SB_INIT" /\ s.b.pending # {}
  BY <1>1, <1>4, <1>5 DEF Phase, LoadStates
<1>7. ~s.timed
  BY <1>1, <1>2, <1>3, <1>6 DEF Clock
<1>8. ASSUME s.lost = {} PROVE FALSE
  <2>1. PICK u \in s.b.pending : TRUE
    BY <1>6
  <2>2. u \in Waits(s) \/ u \in Rides(s)
    BY <1>1, <1>2, <1>8 DEF Counted, Under
  <2>3. \E j \in Lives(s) : s.conn[j].act # <<>>
    <3>1. CASE u \in Waits(s)
      <4>1. PICK h \in Hosts : s.srv[h].reqs # <<>>
        BY <3>1, <1>3, Constants DEF Waits
      <4>2. PICK q \in Seq(ConnIds) : q = s.srv[h].conns /\ q # <<>>
        BY <1>1, <4>1, Fields DEF Mild, Busy
      <4>3. PICK j \in In(q) : j \in ConnIds
        BY <4>2, InTail, InEmpty
      <4>4. s.conn[j].act # <<>>
        BY <1>1, <4>1, <4>2, <4>3, Constants DEF Mild, Busy
      <4> QED BY <4>2, <4>3, <4>4 DEF Lives
    <3>2. CASE u \in Rides(s)
      <4>1. PICK j \in Lives(s) : u \in On(s.conn[j])
        BY <3>2 DEF Rides
      <4>2. Flushed(s.conn[j])
        BY <1>1, CalmConn
      <4> QED BY <1>3, <4>1, <4>2 DEF On, Flushed
    <3> QED BY <2>2, <3>1, <3>2
  <2>4. PICK j \in Lives(s) : s.conn[j].act # <<>>
    BY <2>3
  <2>5. j \in ConnIds /\ s.conn[j] \in Conns /\ Neat(s.conn[j])
    BY <1>1, CalmConn
  <2>6. s.conn[j].st # "none"
    BY <1>1, LiveConn DEF Good, Sound
  <2>7. s.conn[j].up /\ s.conn[j].todo = <<>> /\ Ready(s.conn[j]) = {}
    BY <2>5, <2>6 DEF Idle
  <2> QED BY <2>4, <2>5, <2>7, NoneAsleep
<1> QED BY <1>7, <1>8

-----------------------------------------------------------------------------
(* The theorems.                                                           *)

\* What is odd is not forgotten.
LEMMA OddStays ==
    ASSUME [WebNext]_webVars, odd' = {}
    PROVE  odd = {}
<1>1. CASE TimerFires \/ Refuse
  BY <1>1, TakesEven DEF TimerFires, Refuse
<1>2. CASE Arrive
  <2>1. PICK i \in ConnIds : \E k \in 1..Len(s.conn[i].todo) :
            Takes(0, "split", Splits(s.conn[i].todo, k))
    BY <1>2 DEF Arrive
  <2> QED BY <2>1, TakesEven
<1>3. CASE Close
  <2>1. PICK i \in ConnIds : Takes(1, "pending", MayQueue(s.conn[i]))
    BY <1>3 DEF Close
  <2> QED BY <2>1, TakesEven
<1>4. CASE Callback \/ NapEnds \/ Activate \/ Trigger \/ Establish
  BY <1>4 DEF Callback, NapEnds, Activate, Trigger, Establish, faultVars
<1>5. CASE UNCHANGED webVars
  BY <1>5 DEF webVars
<1> QED BY <1>1, <1>2, <1>3, <1>4, <1>5 DEF WebNext, Plugin, Network

\* Until something odd happens, all is calm.
CalmUntil == odd = {} => CalmInv

\* The invariant holds in every state before something odd happens, when a page names
\* each object once.
THEOREM CalmInvariant ==
    ASSUME ConnIds = Nat \ {0}, NamedOnce
    PROVE  WebSpec => [](WebInv /\ CalmUntil)
<1>1. WebInit => WebInv /\ CalmUntil
  BY WebInitInv, WebInitCalm DEF CalmUntil
<1>2. WebInv /\ CalmUntil /\ [WebNext]_webVars => WebInv' /\ CalmUntil'
  <2> SUFFICES ASSUME WebInv, CalmUntil, [WebNext]_webVars
               PROVE  WebInv' /\ CalmUntil'
    OBVIOUS
  <2>1. WebInv'
    BY WebInvNext
  <2>2. ASSUME odd' = {} PROVE CalmInv'
    <3>1. odd = {}
      BY <2>2, OddStays
    <3> QED BY <2>2, <3>1, WebNextCalm DEF CalmUntil
  <2> QED BY <2>1, <2>2 DEF CalmUntil
<1> QED BY <1>1, <1>2, PTL DEF WebSpec

\* A myassert of the connections, their manager or the browser fails only after a header
\* arrived in pieces, a connection closed that may get a second request, or a load's
\* timer fired between a notification and its callback: nothing else that is closed,
\* refused, retried or timed out makes one fail (handle_unusable_conn and
\* cnx_first_response_byte_cb in connection_manager.cc, http_receive in connection.cc,
\* on_timeout_timer_fired in browser.cc).
THEOREM AssertionsHold ==
    ASSUME ConnIds = Nat \ {0}, NamedOnce
    PROVE  WebSpec => [](s.abort # "no" => odd # {})
<1>1. CalmUntil => (s.abort # "no" => odd # {})
  BY DEF CalmUntil, CalmInv, Calm, Mild
<1> QED BY <1>1, CalmInvariant, PTL

\* Before any of the three, a load never waits for nothing, except when no timeout is
\* set and a request was lost that waited at a server whose last connection was closed
\* (release_conn in connection_manager.cc, on_timeout_timer_fired in browser.cc).
THEOREM LoadsGoOn ==
    ASSUME ConnIds = Nat \ {0}, NamedOnce
    PROVE  WebSpec => [](odd = {} => NeverStuck)
<1>1. WebInv /\ CalmUntil => (odd = {} => NeverStuck)
  BY Awake DEF CalmUntil
<1> QED BY <1>1, CalmInvariant, PTL
=============================================================================
