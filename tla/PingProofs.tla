----------------------------- MODULE PingProofs -----------------------------
(***************************************************************************)
(* Proofs about the ping client, for all values of the constants: there is *)
(* one chain of ping timers, pings follow a granted request only, and the  *)
(* server counts no ping, but for counting one twice, of which the time    *)
(* stamp was not handed over whole.                                        *)
(*                                                                         *)
(* The invariant PingInv says, next to the two properties, what makes them *)
(* inductive: to which states SEND and RECEIVE can return, and that while  *)
(* the proxy has not granted the request, no grant is on its way to the    *)
(* client nor in its buffer when it reads from there, although the buffer  *)
(* may hold what an earlier connection left.                               *)
(***************************************************************************)
EXTENDS Ping, TLAPS, SequenceTheorems, FiniteSetTheorems

\* No unit of s belongs to message m.
Without(m, s) == \A i \in 1..Len(s) : s[i][1] # m

Reading == {"SOCKS_TOREPLY_INIT", "SOCKS_REPLY_INIT", "SOCKS_TOREPLY_CONN",
            "SOCKS_REPLY_CONN", "RECEIVE"}

Types ==
    /\ pend \in Seq(PingUnits) /\ up \in Seq(PingUnits) /\ down \in Seq(PingUnits)
    /\ Len(up) <= PingCap
    /\ clientNextstate # "IDLE"

Returns ==
    /\ clientState = "SEND" =>
          clientNextstate \in {"SOCKS_TOREPLY_INIT", "SOCKS_TOREPLY_CONN"}
    /\ clientState = "RECEIVE" =>
          clientNextstate \in {"SOCKS_REPLY_INIT", "SOCKS_REPLY_CONN"}

NoGrantYet ==
    phase \in {"init", "conn"} =>
        /\ clientState \notin {"PING", "IDLE"}
        /\ Without("ping", up)
        /\ Without("granted", down)
        /\ clientState \in Reading => Without("granted", pend)

PingInv ==
    /\ Types /\ Returns /\ OneChain /\ NoGrantYet
    /\ Without("ping", pend) /\ Without("ping", down)

Sized == pingSize \in Nat \ {0}

-----------------------------------------------------------------------------

\* The units of a message, and what Without says of the sequences built from it.
LEMMA WholeMessage ==
    ASSUME NEW m \in Messages
    PROVE  /\ Whole(m) \in Seq(PingUnits)
           /\ \A n : n # m => Without(n, Whole(m))
  <1>1. 1 \in 1..StampLen /\ 2 \in 1..StampLen
    BY DEF StampLen
  <1>2. <<m, 1>> \in PingUnits /\ <<m, 2>> \in PingUnits
    BY <1>1 DEF PingUnits
  <1> HIDE DEF Messages
  <1> QED
    BY <1>2 DEF Whole, Without

\* A text is sent from its beginning, as far as the socket takes it.
LEMMA TextSent ==
    ASSUME Sized, NEW n \in 0..pingSize
    PROVE  /\ SubSeq(PingText, 1, n) \in Seq(PingUnits)
           /\ Len(SubSeq(PingText, 1, n)) = n
           /\ \A i \in 1..n :
                 SubSeq(PingText, 1, n)[i] = <<"ping", 1 + ((i - 1) % StampLen)>>
  <1>1. ASSUME NEW i \in 1..pingSize
        PROVE  <<"ping", 1 + ((i - 1) % StampLen)>> \in PingUnits
    <2>1. 1 + ((i - 1) % StampLen) \in 1..StampLen
      BY DEF Sized, StampLen
    <2> QED
      BY <2>1 DEF PingUnits
  <1>2. /\ PingText \in Seq(PingUnits) /\ Len(PingText) = pingSize
        /\ \A i \in 1..pingSize : PingText[i] = <<"ping", 1 + ((i - 1) % StampLen)>>
    BY <1>1, Zenon, SMT DEF PingText, Sized
  <1> HIDE DEF PingText
  <1> QED
    BY <1>2, SubSeqProperties DEF Sized

LEMMA WithoutConcat ==
    ASSUME NEW s \in Seq(PingUnits), NEW r \in Seq(PingUnits), NEW m,
           Without(m, s), Without(m, r)
    PROVE  s \o r \in Seq(PingUnits) /\ Without(m, s \o r)
  BY DEF Without

LEMMA WithoutSubSeq ==
    ASSUME NEW s \in Seq(PingUnits), NEW a \in Nat \ {0}, NEW b \in 0..Len(s), NEW m,
           Without(m, s)
    PROVE  SubSeq(s, a, b) \in Seq(PingUnits) /\ Without(m, SubSeq(s, a, b))
  <1>1. SubSeq(s, a, b) \in Seq(PingUnits)
    BY SubSeqProperties
  <1>2. ASSUME NEW i \in 1..Len(SubSeq(s, a, b))
        PROVE  SubSeq(s, a, b)[i][1] # m
    <2>1. a <= b /\ SubSeq(s, a, b)[i] = s[a + i - 1] /\ a + i - 1 \in 1..Len(s)
      BY <1>2, SubSeqProperties
    <2> QED
      BY <2>1 DEF Without
  <1> QED
    BY <1>1, <1>2 DEF Without

-----------------------------------------------------------------------------
(* Restarts and returns.                                                   *)

\* A restart begins with empty sockets and before the first ping, whatever the
\* buffer still holds.
LEMMA RestartKeeps ==
    ASSUME PingInv, Restart, pingTimers' = 0
    PROVE  PingInv'
  <1>1. /\ pend' = pend /\ clientNextstate' = clientNextstate
        /\ up' = <<>> /\ down' = <<>>
        /\ clientState' \in {"SOCKS_REQUEST_INIT", "PING"}
        /\ phase' \in {"init", "relay"}
        /\ phase' = "init" => clientState' = "SOCKS_REQUEST_INIT"
    BY DEF Restart, FirstPingState, FirstPhase
  <1>2. Types'
    BY <1>1, PingAssumption DEF PingInv, Types
  <1>3. Returns'
    BY <1>1 DEF Returns
  <1>4. OneChain'
    BY <1>1 DEF OneChain
  <1>5. NoGrantYet'
    BY <1>1 DEF NoGrantYet, Without, Reading
  <1>6. Without("ping", pend)' /\ Without("ping", down)'
    BY <1>1 DEF PingInv, Without
  <1> QED
    BY <1>2, <1>3, <1>4, <1>5, <1>6 DEF PingInv

\* The end of an activation, of a client that is not idle or without a restart.
LEMMA EndsWithKeeps ==
    ASSUME PingInv, NEW code, EndsWith(code),
           clientState # "IDLE" \/ ~RestartsOn(code)
    PROVE  PingInv'
  <1>1. CASE /\ by = "event" /\ RestartsOn(code)
             /\ Restart /\ UNCHANGED pingTimers
    <2>1. pingTimers' = 0
      BY <1>1 DEF PingInv, OneChain
    <2> QED
      BY <1>1, <2>1, RestartKeeps
  <1>2. CASE UNCHANGED <<clientVars, sock, events, timerVars, countVars, up, down,
                         phase, peerVars, faults>>
    BY <1>2 DEF PingInv, Types, Returns, OneChain, NoGrantYet, Without, Reading,
                clientVars, timerVars
  <1> QED
    BY <1>1, <1>2 DEF EndsWith

-----------------------------------------------------------------------------
(* The steps of an activation.                                             *)

\* A request is appended to the buffer, and SEND is to come back to wait for the
\* answer.
LEMMA SocksRequestKeeps ==
    ASSUME PingInv, SocksRequest
    PROVE  PingInv'
  <1> DEFINE Wait == {"SOCKS_TOREPLY_INIT", "SOCKS_TOREPLY_CONN"}
  <1>1. PICK m \in {"init", "request"}, next \in Wait :
           /\ clientState \in {"SOCKS_REQUEST_INIT", "SOCKS_REQUEST_CONN"}
           /\ Goto("SEND", next, rd, pend \o Whole(m), "OUT") /\ UNCHANGED up
    BY DEF SocksRequest, Running
  <1>2. /\ clientState' = "SEND" /\ clientNextstate' \in Wait
        /\ pend' = pend \o Whole(m)
        /\ UNCHANGED <<up, down, phase, pingTimers>>
    BY <1>1 DEF Goto, timerVars
  <1>3. pend' \in Seq(PingUnits) /\ Without("ping", pend')
    BY <1>2, WholeMessage, WithoutConcat DEF PingInv, Types, Messages
  <1>4. Types' /\ Returns' /\ OneChain'
    BY <1>1, <1>2, <1>3 DEF PingInv, Types, Returns, OneChain
  <1>5. NoGrantYet'
    BY <1>1, <1>2 DEF PingInv, NoGrantYet, Without, Reading
  <1>6. Without("ping", pend)' /\ Without("ping", down)'
    BY <1>2, <1>3 DEF PingInv, Without
  <1> QED
    BY <1>4, <1>5, <1>6 DEF PingInv

\* Waiting for an answer leaves the buffer as it is.
LEMMA SocksToReplyKeeps ==
    ASSUME PingInv, SocksToReply
    PROVE  PingInv'
  <1>1. /\ clientState \in {"SOCKS_TOREPLY_INIT", "SOCKS_TOREPLY_CONN"}
        /\ clientState' = "RECEIVE"
        /\ clientNextstate' \in {"SOCKS_REPLY_INIT", "SOCKS_REPLY_CONN"}
        /\ UNCHANGED <<pend, up, down, phase, pingTimers>>
    BY DEF SocksToReply, Running, Goto, timerVars
  <1> QED
    BY <1>1 DEF PingInv, Types, Returns, OneChain, NoGrantYet, Without, Reading

\* The answer to the first request: nothing in it grants anything.
LEMMA SocksReplyInitKeeps ==
    ASSUME PingInv, SocksReplyInit
    PROVE  PingInv'
  <1>1. clientState = "SOCKS_REPLY_INIT"
    BY DEF SocksReplyInit, Running
  <1>2. CASE /\ Len(pend) < 2
             /\ Goto("SOCKS_TOREPLY_INIT", clientNextstate, rd, pend, events)
             /\ UNCHANGED up
    BY <1>1, <1>2 DEF PingInv, Types, Returns, OneChain, NoGrantYet, Without, Reading,
                      Goto, timerVars
  <1>3. CASE /\ Len(pend) >= 2
             /\ Goto("SOCKS_REQUEST_CONN", clientNextstate, rd + 2,
                     SubSeq(pend, 3, Len(pend)), events)
             /\ UNCHANGED up
    <2>1. /\ clientState' = "SOCKS_REQUEST_CONN" /\ clientNextstate' = clientNextstate
          /\ pend' = SubSeq(pend, 3, Len(pend))
          /\ UNCHANGED <<up, down, phase, pingTimers>>
      BY <1>3 DEF Goto, timerVars
    <2>2. pend' \in Seq(PingUnits) /\ Without("ping", pend')
      BY <2>1, WithoutSubSeq, LenProperties DEF PingInv, Types
    <2>3. Types' /\ Returns' /\ OneChain'
      BY <1>1, <2>1, <2>2 DEF PingInv, Types, Returns, OneChain
    <2>4. NoGrantYet'
      BY <1>1, <2>1 DEF PingInv, NoGrantYet, Without, Reading
    <2>5. Without("ping", pend)' /\ Without("ping", down)'
      BY <2>1, <2>2 DEF PingInv, Without
    <2> QED
      BY <2>3, <2>4, <2>5 DEF PingInv
  <1>4. CASE EndsWith("SOCKSINIT")
    BY <1>1, <1>4, EndsWithKeeps
  <1> QED
    BY <1>2, <1>3, <1>4 DEF SocksReplyInit

\* The answer to the second request: a grant in the buffer came over this
\* connection, so the proxy has granted.
LEMMA SocksReplyConnKeeps ==
    ASSUME PingInv, SocksReplyConn
    PROVE  PingInv'
  <1>1. clientState = "SOCKS_REPLY_CONN"
    BY DEF SocksReplyConn, Running
  <1>2. CASE /\ Len(pend) < 2
             /\ Goto("SOCKS_TOREPLY_CONN", clientNextstate, rd, pend, events)
             /\ UNCHANGED up
    BY <1>1, <1>2 DEF PingInv, Types, Returns, OneChain, NoGrantYet, Without, Reading,
                      Goto, timerVars
  <1>3. CASE /\ Len(pend) >= 2 /\ pend[1][1] = "granted"
             /\ Goto("PING", "PING", rd + 2, SubSeq(pend, 3, Len(pend)), "OUT")
             /\ UNCHANGED up
    <2>1. /\ clientState' = "PING" /\ clientNextstate' = "PING"
          /\ pend' = SubSeq(pend, 3, Len(pend))
          /\ UNCHANGED <<up, down, phase, pingTimers>>
      BY <1>3 DEF Goto, timerVars
    <2>2. pend' \in Seq(PingUnits) /\ Without("ping", pend')
      BY <2>1, WithoutSubSeq, LenProperties DEF PingInv, Types
    <2>3. Types' /\ Returns' /\ OneChain'
      BY <1>1, <2>1, <2>2 DEF PingInv, Types, Returns, OneChain
    <2>4. phase \notin {"init", "conn"}
      <3>1. ~Without("granted", pend)
        BY <1>3, LenProperties DEF PingInv, Types, Without
      <3> QED
        BY <1>1, <3>1 DEF PingInv, NoGrantYet, Reading
    <2>5. NoGrantYet'
      BY <2>1, <2>4 DEF NoGrantYet
    <2>6. Without("ping", pend)' /\ Without("ping", down)'
      BY <2>1, <2>2 DEF PingInv, Without
    <2> QED
      BY <2>3, <2>5, <2>6 DEF PingInv
  <1>4. CASE EndsWith("SOCKSCONN")
    BY <1>1, <1>4, EndsWithKeeps
  <1> QED
    BY <1>2, <1>3, <1>4 DEF SocksReplyConn

\* A drained buffer is empty when the client starts to read into it.
LEMMA SendUnitsKeeps ==
    ASSUME PingInv, SendUnits
    PROVE  PingInv'
  <1> DEFINE room == PingCap - Len(up)
             n == IF room < Len(pend) THEN room ELSE Len(pend)
  <1>1. /\ clientState = "SEND" /\ n > 0
        /\ up' = up \o SubSeq(pend, 1, n)
        /\ pend' = SubSeq(pend, n + 1, Len(pend))
        /\ clientState' = IF n = Len(pend) THEN clientNextstate ELSE "SEND"
        /\ clientNextstate' = clientNextstate
        /\ UNCHANGED <<down, phase, pingTimers>>
    BY DEF SendUnits, Running, Goto, timerVars
  <1>2. n \in 1..Len(pend) /\ Len(pend) \in Nat
    BY <1>1, PingAssumption, LenProperties DEF PingInv, Types
  <1>3. /\ SubSeq(pend, 1, n) \in Seq(PingUnits) /\ Without("ping", SubSeq(pend, 1, n))
        /\ SubSeq(pend, n + 1, Len(pend)) \in Seq(PingUnits)
        /\ Without("ping", SubSeq(pend, n + 1, Len(pend)))
    BY <1>2, WithoutSubSeq DEF PingInv, Types
  <1>4. up' \in Seq(PingUnits)
    BY <1>1, <1>3 DEF PingInv, Types
  <1>5. Types'
    <2>1. Len(SubSeq(pend, 1, n)) = n
      BY <1>2, SubSeqProperties DEF PingInv, Types
    <2>2. Len(up') = Len(up) + n
      BY <1>1, <1>3, <2>1, ConcatProperties DEF PingInv, Types
    <2>3. Len(up') <= PingCap
      BY <1>2, <2>2, PingAssumption, LenProperties DEF PingInv, Types
    <2> QED
      BY <1>1, <1>3, <1>4, <2>3 DEF PingInv, Types
  <1>6. /\ clientNextstate \in {"SOCKS_TOREPLY_INIT", "SOCKS_TOREPLY_CONN"}
        /\ clientState' \in {"SEND", clientNextstate}
    BY <1>1 DEF PingInv, Returns
  <1>7. Returns' /\ OneChain'
    BY <1>1, <1>6 DEF PingInv, Returns, OneChain
  <1>8. NoGrantYet'
    <2>1. ASSUME phase \in {"init", "conn"}  PROVE  Without("ping", up')
      BY <1>1, <1>3, <2>1, WithoutConcat DEF PingInv, Types, NoGrantYet
    <2>2. ASSUME clientState' # "SEND"  PROVE  Without("granted", pend')
      <3>1. n = Len(pend)
        BY <1>1, <2>2
      <3>2. Len(pend') = 0
        BY <1>1, <1>2, <3>1, SubSeqProperties DEF PingInv, Types
      <3> QED
        BY <3>2 DEF Without
    <2> QED
      BY <1>1, <1>6, <2>1, <2>2 DEF PingInv, NoGrantYet, Without, Reading
  <1>9. Without("ping", pend)' /\ Without("ping", down)'
    BY <1>1, <1>3 DEF PingInv, Without
  <1> QED
    BY <1>5, <1>7, <1>8, <1>9 DEF PingInv

\* A send that has to wait, or fails.
LEMMA SendWaitsOrFails ==
    ASSUME PingInv, SendLater \/ SendFails
    PROVE  PingInv'
  <1>1. clientState = "SEND"
    BY DEF SendLater, SendFails, Running
  <1>2. EndsWith("WOULDBLOCK") \/ EndsWith("FATAL")
    BY DEF SendLater, SendFails
  <1> QED
    BY <1>1, <1>2, EndsWithKeeps

\* What is read comes from this connection.
LEMMA ReceiveKeeps ==
    ASSUME PingInv, Receive
    PROVE  PingInv'
  <1>1. clientState = "RECEIVE"
    BY DEF Receive, Running
  <1>2. ASSUME NEW n \in 1..Len(down),
               clientState' = clientNextstate,
               pend' = pend \o SubSeq(down, 1, n),
               down' = SubSeq(down, n + 1, Len(down)),
               UNCHANGED <<clientNextstate, up, phase, timerVars>>
        PROVE  PingInv'
    <2>1. n \in 0..Len(down) /\ n + 1 \in Nat \ {0} /\ Len(down) \in 0..Len(down)
      BY LenProperties DEF PingInv, Types
    <2>2. clientNextstate \in {"SOCKS_REPLY_INIT", "SOCKS_REPLY_CONN"}
      BY <1>1 DEF PingInv, Returns
    <2>3. ASSUME NEW m, Without(m, down)
          PROVE  /\ SubSeq(down, 1, n) \in Seq(PingUnits) /\ Without(m, SubSeq(down, 1, n))
                 /\ down' \in Seq(PingUnits) /\ Without(m, down')
      BY <1>2, <2>1, <2>3, WithoutSubSeq DEF PingInv, Types
    <2>4. pend' \in Seq(PingUnits) /\ Without("ping", pend') /\ Without("ping", down')
      BY <1>2, <2>3, WithoutConcat DEF PingInv, Types
    <2>5. Types'
      BY <1>2, <2>3 , <2>4 DEF PingInv, Types
    <2>6. Returns' /\ OneChain'
      BY <1>1, <1>2, <2>2 DEF PingInv, Returns, OneChain, timerVars
    <2>7. NoGrantYet'
      <3>1. ASSUME phase \in {"init", "conn"}
            PROVE  Without("granted", down') /\ Without("granted", pend')
        <4>1. Without("granted", down) /\ Without("granted", pend)
          BY <1>1, <3>1 DEF PingInv, NoGrantYet, Reading
        <4> QED
          BY <1>2, <2>3, <4>1, WithoutConcat DEF PingInv, Types
      <3> QED
        BY <1>1, <1>2, <2>2, <3>1 DEF PingInv, NoGrantYet, Without, Reading
    <2> QED
      BY <2>4, <2>5, <2>6, <2>7 DEF PingInv, Without
  <1>3. CASE EndsWith("WOULDBLOCK") \/ EndsWith("FATAL")
    BY <1>1, <1>3, EndsWithKeeps
  <1> QED
    BY <1>2, <1>3 DEF Receive

\* The first timer is set when the client leaves PING, where no timer was pending.
LEMMA PingCaseKeeps ==
    ASSUME PingInv, PingCase \/ IdleCase
    PROVE  PingInv'
  <1>1. CASE PingCase
    <2>1. /\ clientState = "PING" /\ clientState' = "IDLE"
          /\ pingTimers' = pingTimers + 1
          /\ UNCHANGED <<clientNextstate, pend, up, down, phase>>
      BY <1>1 DEF PingCase, AfterPing, Running
    <2> QED
      BY <2>1 DEF PingInv, Types, Returns, OneChain, NoGrantYet, Without, Reading
  <1>2. CASE IdleCase
    BY <1>2, EndsWithKeeps DEF IdleCase, RestartsOn
  <1> QED
    BY <1>1, <1>2

-----------------------------------------------------------------------------
(* Timers, events and the other end.                                       *)

\* A ping timer fires in an idle client only, which the proxy has granted.
LEMMA SendPingKeeps ==
    ASSUME PingInv, Sized, SendPing
    PROVE  PingInv'
  <1> DEFINE room == PingCap - Len(up)
             n == IF sock # "up" THEN 0 ELSE IF room < pingSize THEN room ELSE pingSize
             part == SubSeq(PingText, 1, n)
  <1>1. /\ pingTimers > 0 /\ up' = up \o part
        /\ UNCHANGED <<clientVars, timerVars, down, phase>>
    BY DEF SendPing
  <1>2. n \in 0..pingSize /\ Len(up) + n <= PingCap
    BY PingAssumption, LenProperties DEF PingInv, Types, Sized
  <1>3. part \in Seq(PingUnits) /\ Len(part) = n
    BY <1>2, TextSent
  <1>4. up' \in Seq(PingUnits) /\ Len(up') <= PingCap
    BY <1>1, <1>2, <1>3 DEF PingInv, Types
  <1>5. clientState = "IDLE"
    BY <1>1 DEF PingInv, OneChain
  <1> QED
    BY <1>1, <1>4, <1>5 DEF PingInv, Types, Returns, OneChain, NoGrantYet, Without,
                            clientVars, timerVars

\* The failing ping gives up its timer.
LEMMA SendPingFailsKeeps ==
    ASSUME PingInv, SendPingFails
    PROVE  PingInv'
  <1>1. pingTimers' = 0 /\ Restart
    BY DEF SendPingFails, PingInv, OneChain
  <1> QED
    BY <1>1, RestartKeeps

\* Wake-ups, events and the connection change nothing the invariant reads.
LEMMA CallsKeep ==
    ASSUME PingInv, Wakeup \/ ClientEvent \/ NetConnect \/ ServerActivate
    PROVE  PingInv'
  <1>1. UNCHANGED <<clientVars, pingTimers, up, down, phase>>
    BY DEF Wakeup, ClientEvent, NetConnect, ServerActivate, timerVars, exceptPeer
  <1> QED
    BY <1>1 DEF PingInv, Types, Returns, OneChain, NoGrantYet, Without, Reading, clientVars

\* The proxy grants a request when it leaves the phases before that.
LEMMA ProxyKeeps ==
    ASSUME PingInv, Proxy
    PROVE  PingInv'
  <1>1. ASSUME NEW from \in {"init", "conn"}, NEW ask, NEW to,
               NEW yes \in Messages, NEW no \in Messages,
               NEW fault,
               ProxyAnswers(from, ask, to, yes, no, fault),
               yes # "ping", no # "ping", to = "conn" => yes # "granted", to # "init"
        PROVE  PingInv'
    <2>1. /\ Len(up) >= 2 /\ up' = SubSeq(up, 3, Len(up)) /\ phase = from
          /\ \/ phase' = to /\ down' = down \o Whole(yes)
             \/ phase' = "closed" /\ down' = down \o Whole(no)
             \/ phase' = "closed" /\ down' = down
          /\ UNCHANGED <<clientVars, pingTimers>>
      BY <1>1 DEF ProxyAnswers, exceptPeer, timerVars
    <2>2. Without("ping", up) => Without("ping", up')
      BY <2>1, WithoutSubSeq, LenProperties DEF PingInv, Types
    <2>6. up' \in Seq(PingUnits) /\ Len(up') <= PingCap
      <3>1. up \in Seq(PingUnits) /\ Len(up) \in Nat /\ Len(up) <= PingCap
        BY LenProperties DEF PingInv, Types
      <3>2. \A i \in 3..Len(up) : up[i] \in PingUnits
        BY <3>1
      <3>3. up' \in Seq(PingUnits) /\ Len(up') <= Len(up)
        BY <2>1, <3>1, <3>2, SubSeqProperties
      <3> QED
        BY <3>1, <3>3, PingAssumption
    <2>3. down' \in Seq(PingUnits) /\ Without("ping", down')
      BY <1>1, <2>1, WholeMessage, WithoutConcat DEF PingInv, Types
    <2>4. Types' /\ Returns' /\ OneChain'
      BY <2>1, <2>6, <2>3 DEF PingInv, Types, Returns, OneChain, clientVars
    <2>5. NoGrantYet'
      <3>1. /\ clientState \notin {"PING", "IDLE"} /\ Without("ping", up')
            /\ Without("granted", down)
            /\ clientState \in Reading => Without("granted", pend)
        BY <2>1, <2>2 DEF PingInv, NoGrantYet
      <3>2. ASSUME phase' \in {"init", "conn"}  PROVE  Without("granted", down')
        BY <1>1, <2>1, <3>1, <3>2, WholeMessage, WithoutConcat DEF PingInv, Types
      <3> QED
        BY <2>1, <3>1, <3>2 DEF NoGrantYet, Without, Reading, clientVars
    <2> QED
      BY <2>1, <2>3, <2>4, <2>5 DEF PingInv, Without, clientVars
  <1> QED
    BY <1>1 DEF Proxy, Messages

\* A connection that is gone, or relayed, has no handshake to keep.
LEMMA NetworkKeeps ==
    ASSUME PingInv, HangUp \/ Relay
    PROVE  PingInv'
  <1>1. /\ phase' \in {"closed", "relay"}
        /\ up' = <<>> \/ (up # <<>> /\ up' = Tail(up))
        /\ UNCHANGED <<clientVars, down, pingTimers>>
    BY DEF HangUp, Relay, exceptPeer, timerVars
  <1>2. up' \in Seq(PingUnits) /\ Len(up') <= PingCap
    <2>1. up \in Seq(PingUnits) /\ Len(up) <= PingCap
      BY DEF PingInv, Types
    <2>2. CASE up' = <<>>
      BY <2>2, PingAssumption
    <2>3. CASE up # <<>> /\ up' = Tail(up)
      <3>1. up' \in Seq(PingUnits) /\ Len(up') = Len(up) - 1 /\ Len(up) \in Nat
        BY <2>1, <2>3, HeadTailProperties, LenProperties
      <3> QED
        BY <2>1, <3>1, PingAssumption
    <2> QED
      BY <1>1, <2>2, <2>3
  <1> QED
    BY <1>1, <1>2 DEF PingInv, Types, Returns, OneChain, NoGrantYet, Without, clientVars

-----------------------------------------------------------------------------
(* The theorems.                                                           *)

LEMMA PingInitially ==
    ASSUME PingInit
    PROVE  PingInv /\ Sized
  <1>1. /\ up = <<>> /\ down = <<>> /\ pend = <<>> /\ pingTimers = 0
        /\ clientNextstate = "SOCKS_REQUEST_INIT"
        /\ clientState \in {"SOCKS_REQUEST_INIT", "PING"}
        /\ phase \in {"init", "relay"}
        /\ phase = "init" => clientState = "SOCKS_REQUEST_INIT"
    BY DEF PingInit, FirstPingState, FirstPhase
  <1>2. Types
    BY <1>1, PingAssumption DEF Types
  <1>3. Returns /\ OneChain /\ NoGrantYet
    BY <1>1 DEF Returns, OneChain, NoGrantYet, Without, Reading
  <1>4. Without("ping", pend) /\ Without("ping", down)
    BY <1>1 DEF Without
  <1>5. Sized
    BY PingAssumption DEF PingInit, Sized
  <1> QED
    BY <1>2, <1>3, <1>4, <1>5 DEF PingInv

LEMMA PingStep ==
    ASSUME PingInv, Sized, [PingNext]_pingVars
    PROVE  PingInv'
  <1>1. CASE ActivateStep
    BY <1>1, SocksRequestKeeps, SocksToReplyKeeps, SocksReplyInitKeeps,
       SocksReplyConnKeeps, SendUnitsKeeps, SendWaitsOrFails, ReceiveKeeps,
       PingCaseKeeps DEF ActivateStep
  <1>2. CASE SendPing \/ SendPingFails
    BY <1>2, SendPingKeeps, SendPingFailsKeeps
  <1>3. CASE Wakeup \/ ClientEvent \/ NetConnect \/ ServerActivate
    BY <1>3, CallsKeep
  <1>4. CASE Proxy \/ HangUp \/ Relay
    BY <1>4, ProxyKeeps, NetworkKeeps
  <1>5. CASE UNCHANGED pingVars
    BY <1>5 DEF PingInv, Types, Returns, OneChain, NoGrantYet, Without, Reading,
                pingVars, clientVars, timerVars
  <1> QED
    BY <1>1, <1>2, <1>3, <1>4, <1>5 DEF PingNext

\* The size of a ping is an argument of the client.
LEMMA SizeKept ==
    ASSUME Sized, [PingNext]_pingVars
    PROVE  Sized'
  <1>1. pingSize' = pingSize
    BY DEF PingNext, pingVars, ActivateStep, SocksRequest, SocksToReply, SocksReplyInit,
           SocksReplyConn, SendUnits, SendLater, SendFails, Receive, PingCase, IdleCase,
           Goto, EndsWith, Restart, SendPing, SendPingFails, Wakeup, ClientEvent,
           NetConnect, Proxy, ProxyAnswers, HangUp, Relay, ServerActivate, exceptPeer,
           peerVars, optVars
  <1> QED
    BY <1>1 DEF Sized

\* Whatever fails and however often the client restarts, one ping timer is pending
\* while it is idle and none otherwise (ping-client.c:77, 108, 321).
THEOREM OneTimerChain == PingSpec => []OneChain
  <1>1. PingInit => PingInv /\ Sized
    BY PingInitially
  <1>2. PingInv /\ Sized /\ [PingNext]_pingVars => (PingInv /\ Sized)'
    BY PingStep, SizeKept
  <1>3. PingInv => OneChain
    BY DEF PingInv
  <1> QED
    BY <1>1, <1>2, <1>3, PTL DEF PingSpec

\* For any size of the buffer and whatever a failed connection left in it, no ping
\* is written to a proxy that has not granted the request (ping-client.c:231).
THEOREM PingsFollowGrants == PingSpec => []PingAfterGrant
  <1>1. PingInit => PingInv /\ Sized
    BY PingInitially
  <1>2. PingInv /\ Sized /\ [PingNext]_pingVars => (PingInv /\ Sized)'
    BY PingStep, SizeKept
  <1>3. PingInv => PingAfterGrant
    BY DEF PingInv, NoGrantYet, PingAfterGrant, Without
  <1> QED
    BY <1>1, <1>2, <1>3, PTL DEF PingSpec
-----------------------------------------------------------------------------
(* Counting time stamps.                                                   *)

\* Where the whole time stamps of a text begin.
Begins(us) == {i \in 1..Len(us) - 1 : us[i] = <<"ping", 5>> /\ us[i + 1] = <<"ping", 6>>}

LEMMA StampsBegin ==
    ASSUME NEW us \in Seq(PingUnits)
    PROVE  /\ StampsIn(us) = Cardinality(Begins(us))
           /\ IsFiniteSet(Begins(us)) /\ StampsIn(us) \in Nat
           /\ Begins(us) \subseteq 1..Len(us)
  <1>1. Len(us) \in Nat
    BY LenProperties
  <1>2. {i \in 1..Len(us) - 1 : WordAt(us, i, TimeUnit)} = Begins(us)
    BY <1>1 DEF Begins, WordAt, TimeUnit
  <1>3. Begins(us) \subseteq 1..Len(us)
    BY <1>1 DEF Begins
  <1>4. IsFiniteSet(Begins(us)) /\ Cardinality(Begins(us)) \in Nat
    <2>1. IsFiniteSet(1..Len(us))
      BY <1>1, FS_Interval
    <2> QED
      BY <1>3, <2>1, FS_Subset, FS_CardinalityType
  <1> QED
    BY <1>2, <1>3, <1>4 DEF StampsIn

\* Places moved by a distance are as many.
LEMMA Shifted ==
    ASSUME NEW S \in SUBSET Nat, IsFiniteSet(S), NEW k \in Nat
    PROVE  /\ IsFiniteSet({i + k : i \in S})
           /\ Cardinality({i + k : i \in S}) = Cardinality(S)
  <1>1. [i \in S |-> i + k] \in Bijection(S, {i + k : i \in S})
    BY DEF Bijection, Injection, Surjection, IsInjective
  <1>2. ExistsBijection(S, {i + k : i \in S})
    BY <1>1 DEF ExistsBijection
  <1> QED
    BY <1>2, FS_Bijection

\* Two texts in a row have the time stamps of both, and one more only where the
\* second begins with the rest of one.
LEMMA JoinedStamps ==
    ASSUME NEW s \in Seq(PingUnits), NEW r \in Seq(PingUnits)
    PROVE  /\ StampsIn(s) + StampsIn(r) <= StampsIn(s \o r)
           /\ (Len(r) > 0 => r[1] # <<"ping", 6>>) =>
                 StampsIn(s \o r) <= StampsIn(s) + StampsIn(r)
  <1> DEFINE w == s \o r
             k == Len(s)
             Moved == {i + k : i \in Begins(r)}
  <1>1. /\ w \in Seq(PingUnits) /\ Len(w) = k + Len(r)
        /\ \A i \in 1..k + Len(r) : w[i] = IF i <= k THEN s[i] ELSE r[i - k]
        /\ k \in Nat /\ Len(r) \in Nat
    BY ConcatProperties, LenProperties
  <1> HIDE DEF w, k
  <1>2. Begins(s) \subseteq Begins(w) /\ \A i \in Begins(s) : i <= k
    <2> SUFFICES ASSUME NEW i \in Begins(s)  PROVE  i \in Begins(w) /\ i <= k
      OBVIOUS
    <2>1. i \in 1..k - 1 /\ s[i] = <<"ping", 5>> /\ s[i + 1] = <<"ping", 6>>
      BY DEF Begins, k
    <2>2. /\ i \in 1..k + Len(r) /\ i + 1 \in 1..k + Len(r)
          /\ i <= k /\ i + 1 <= k /\ i \in 1..Len(w) - 1
      BY <1>1, <2>1
    <2>3. w[i] = s[i] /\ w[i + 1] = s[i + 1]
      BY <1>1, <2>2
    <2> QED
      BY <2>1, <2>2, <2>3 DEF Begins
  <1>3. Moved \subseteq Begins(w) /\ \A i \in Moved : i > k
    <2> SUFFICES ASSUME NEW i \in Begins(r)  PROVE  i + k \in Begins(w) /\ i + k > k
      OBVIOUS
    <2>1. i \in 1..Len(r) - 1 /\ r[i] = <<"ping", 5>> /\ r[i + 1] = <<"ping", 6>>
      BY DEF Begins
    <2>2. /\ i + k \in 1..k + Len(r) /\ (i + k) + 1 \in 1..k + Len(r)
          /\ ~(i + k <= k) /\ i + k > k /\ ~((i + k) + 1 <= k)
          /\ (i + k) - k = i /\ ((i + k) + 1) - k = i + 1
          /\ i + k \in 1..Len(w) - 1
      BY <1>1, <2>1
    <2>3. w[i + k] = r[i]
      BY <1>1, <2>2
    <2>4. w[(i + k) + 1] = r[i + 1]
      BY <1>1, <2>2
    <2> QED
      BY <2>1, <2>2, <2>3, <2>4 DEF Begins
  <1>4. /\ IsFiniteSet(Begins(s)) /\ IsFiniteSet(Begins(r)) /\ IsFiniteSet(Begins(w))
        /\ StampsIn(s) = Cardinality(Begins(s)) /\ StampsIn(s) \in Nat
        /\ StampsIn(r) = Cardinality(Begins(r)) /\ StampsIn(r) \in Nat
        /\ StampsIn(w) = Cardinality(Begins(w)) /\ StampsIn(w) \in Nat
    BY <1>1, StampsBegin
  <1>5. IsFiniteSet(Moved) /\ Cardinality(Moved) = Cardinality(Begins(r))
    <2>1. Begins(r) \in SUBSET Nat
      BY <1>1 DEF Begins
    <2> QED
      BY <1>1, <1>4, <2>1, Shifted
  <1>6. ASSUME Len(r) > 0 => r[1] # <<"ping", 6>>
        PROVE  Begins(w) \subseteq Begins(s) \cup Moved
    <2> SUFFICES ASSUME NEW i \in Begins(w), i \notin Begins(s)  PROVE  i \in Moved
      OBVIOUS
    <2>1. /\ i \in 1..k + Len(r) - 1 /\ i \in 1..k + Len(r) /\ i + 1 \in 1..k + Len(r)
          /\ w[i] = <<"ping", 5>> /\ w[i + 1] = <<"ping", 6>>
      BY <1>1 DEF Begins
    <2>2. w[i + 1] = IF i + 1 <= k THEN s[i + 1] ELSE r[(i + 1) - k]
      BY <1>1, <2>1
    <2>3. w[i] = IF i <= k THEN s[i] ELSE r[i - k]
      BY <1>1, <2>1
    <2>4. ~(i + 1 <= k)
      BY <1>1, <2>1, <2>2, <2>3 DEF Begins, k
    <2>5. i # k
      <3> SUFFICES ASSUME i = k  PROVE  FALSE
        OBVIOUS
      <3>1. (i + 1) - k = 1 /\ Len(r) > 0
        BY <1>1, <2>1
      <3> QED
        BY <1>6, <2>1, <2>2, <2>4, <3>1
    <2>6. PICK j \in 1..Len(r) - 1 : i = j + k /\ i - k = j /\ (i + 1) - k = j + 1
                                     /\ ~(i <= k)
      BY <1>1, <2>1, <2>4, <2>5
    <2>7. j \in Begins(r)
      BY <2>1, <2>2, <2>3, <2>4, <2>6 DEF Begins
    <2> QED
      BY <2>6, <2>7
  <1> HIDE DEF Moved
  <1>7. Begins(s) \cap Moved = {}
    <2> SUFFICES ASSUME NEW i \in Begins(s), i \in Moved  PROVE  FALSE
      OBVIOUS
    <2>1. i \in Nat /\ i <= k /\ i > k
      BY <1>2, <1>3, StampsBegin
    <2> QED
      BY <1>1, <2>1
  <1>8. /\ IsFiniteSet(Begins(s) \cup Moved)
        /\ Cardinality(Begins(s) \cup Moved) = StampsIn(s) + StampsIn(r)
    <2>1. Cardinality(Begins(s) \cap Moved) = 0
      BY <1>7, FS_EmptySet
    <2>2. /\ IsFiniteSet(Begins(s) \cup Moved)
          /\ Cardinality(Begins(s) \cup Moved) =
                Cardinality(Begins(s)) + Cardinality(Moved)
                - Cardinality(Begins(s) \cap Moved)
      BY <1>4, <1>5, FS_Union
    <2> QED
      BY <1>4, <1>5, <2>1, <2>2
  <1>9. StampsIn(s) + StampsIn(r) <= StampsIn(w)
    BY <1>2, <1>3, <1>4, <1>8, FS_Subset
  <1>10. ASSUME Len(r) > 0 => r[1] # <<"ping", 6>>
         PROVE  StampsIn(w) <= StampsIn(s) + StampsIn(r)
    BY <1>4, <1>6, <1>8, <1>10, FS_Subset
  <1> QED
    BY <1>9, <1>10 DEF w

\* What is no ping holds no time stamp.
LEMMA NoStamps ==
    ASSUME NEW r \in Seq(PingUnits), Without("ping", r)
    PROVE  StampsIn(r) = 0
  <1>1. Begins(r) = {}
    <2> SUFFICES ASSUME NEW i \in Begins(r)  PROVE  FALSE
      OBVIOUS
    <2>1. i \in 1..Len(r) /\ r[i] = <<"ping", 5>>
      BY StampsBegin DEF Begins
    <2> QED
      BY <2>1 DEF Without
  <1> QED
    BY <1>1, StampsBegin, FS_EmptySet

-----------------------------------------------------------------------------
(* The order of a text's units.                                            *)

\* A unit inside a ping's text follows the one before it, but at the beginning of
\* what was received, which may begin anywhere.
Shape(us) ==
    \A i \in 2..Len(us) :
        us[i][1] = "ping" /\ us[i][2] > 1 => us[i - 1] = <<"ping", us[i][2] - 1>>

\* A unit with which something else than the rest of a text begins.
Fresh(u) == u[1] # "ping" \/ u[2] = 1

LEMMA ShapeConcat ==
    ASSUME NEW s \in Seq(PingUnits), NEW r \in Seq(PingUnits),
           Shape(s), Shape(r), Len(r) > 0 => Fresh(r[1])
    PROVE  Shape(s \o r)
  <1> DEFINE w == s \o r
             k == Len(s)
  <1>1. /\ Len(w) = k + Len(r) /\ k \in Nat /\ Len(r) \in Nat
        /\ \A i \in 1..k + Len(r) : w[i] = IF i <= k THEN s[i] ELSE r[i - k]
    BY ConcatProperties, LenProperties
  <1> HIDE DEF w
  <1>2. ASSUME NEW i \in 2..Len(w), w[i][1] = "ping", w[i][2] > 1
        PROVE  w[i - 1] = <<"ping", w[i][2] - 1>>
    <2>1. /\ i \in 1..k + Len(r) /\ i - 1 \in 1..k + Len(r)
          /\ w[i] = IF i <= k THEN s[i] ELSE r[i - k]
          /\ w[i - 1] = IF i - 1 <= k THEN s[i - 1] ELSE r[(i - 1) - k]
      BY <1>1
    <2>2. CASE i <= k
      <3>1. i \in 2..Len(s) /\ w[i] = s[i] /\ w[i - 1] = s[i - 1]
        BY <1>1, <2>1, <2>2
      <3> QED
        BY <1>2, <3>1 DEF Shape
    <2>3. CASE i = k + 1
      <3>1. w[i] = r[1] /\ Len(r) > 0
        <4>1. i - k = 1 /\ ~(i <= k) /\ Len(r) > 0
          BY <1>1, <2>1, <2>3
        <4> QED
          BY <2>1, <4>1
      <3> QED
        BY <1>2, <3>1 DEF Fresh
    <2>4. CASE i > k + 1
      <3>1. PICK j \in 2..Len(r) : i - k = j /\ (i - 1) - k = j - 1
                                   /\ ~(i <= k) /\ ~(i - 1 <= k)
        BY <1>1, <2>1, <2>4
      <3>2. w[i] = r[j] /\ w[i - 1] = r[j - 1]
        BY <2>1, <3>1
      <3> QED
        BY <1>2, <3>2 DEF Shape
    <2>5. i <= k \/ i = k + 1 \/ i > k + 1
      BY <1>1, <2>1
    <2> QED
      BY <2>2, <2>3, <2>4, <2>5
  <1> QED
    BY <1>2 DEF Shape, w

\* Both parts of a text are in order.
LEMMA ShapeParts ==
    ASSUME NEW s \in Seq(PingUnits), NEW r \in Seq(PingUnits), Shape(s \o r)
    PROVE  Shape(s) /\ Shape(r)
  <1> DEFINE w == s \o r
             k == Len(s)
  <1>1. /\ Len(w) = k + Len(r) /\ k \in Nat /\ Len(r) \in Nat
        /\ \A i \in 1..k + Len(r) : w[i] = IF i <= k THEN s[i] ELSE r[i - k]
    BY ConcatProperties, LenProperties
  <1>2. Shape(w)
    OBVIOUS
  <1> HIDE DEF w, k
  <1>3. ASSUME NEW i \in 2..k, s[i][1] = "ping", s[i][2] > 1
        PROVE  s[i - 1] = <<"ping", s[i][2] - 1>>
    <2>1. i \in 1..k + Len(r) /\ i - 1 \in 1..k + Len(r) /\ i <= k /\ i - 1 <= k
          /\ i \in 2..Len(w)
      BY <1>1
    <2>2. w[i] = s[i] /\ w[i - 1] = s[i - 1]
      BY <1>1, <2>1
    <2> QED
      BY <1>2, <1>3, <2>1, <2>2 DEF Shape
  <1>4. ASSUME NEW i \in 2..Len(r), r[i][1] = "ping", r[i][2] > 1
        PROVE  r[i - 1] = <<"ping", r[i][2] - 1>>
    <2>1. PICK j \in 2..Len(w) : /\ j - k = i /\ (j - 1) - k = i - 1
                                 /\ ~(j <= k) /\ ~(j - 1 <= k)
                                 /\ j \in 1..k + Len(r) /\ j - 1 \in 1..k + Len(r)
      <3>1. i + k \in 2..Len(w) /\ (i + k) - k = i /\ ((i + k) - 1) - k = i - 1
            /\ ~(i + k <= k) /\ ~((i + k) - 1 <= k)
            /\ i + k \in 1..k + Len(r) /\ (i + k) - 1 \in 1..k + Len(r)
        BY <1>1
      <3> QED
        BY <3>1
    <2>2. w[j] = r[i] /\ w[j - 1] = r[i - 1]
      BY <1>1, <2>1
    <2> QED
      BY <1>2, <1>4, <2>1, <2>2 DEF Shape
  <1> QED
    BY <1>3, <1>4 DEF Shape, k

LEMMA ShapeWithout ==
    ASSUME NEW r \in Seq(PingUnits), Without("ping", r)
    PROVE  Shape(r) /\ (Len(r) > 0 => Fresh(r[1]))
  <1>1. Len(r) \in Nat
    BY LenProperties
  <1> QED
    BY <1>1 DEF Without, Shape, Fresh

LEMMA ShapeText ==
    ASSUME Sized, NEW n \in 0..pingSize, NEW text, text = SubSeq(PingText, 1, n)
    PROVE  /\ text \in Seq(PingUnits) /\ Len(text) = n
           /\ Shape(text) /\ (Len(text) > 0 => text[1] = <<"ping", 1>>)
  <1>1. /\ text \in Seq(PingUnits) /\ Len(text) = n /\ n \in Nat
        /\ \A i \in 1..n : text[i] = <<"ping", 1 + ((i - 1) % 10)>>
    BY TextSent DEF StampLen, Sized
  <1>2. ASSUME NEW i \in 2..n, text[i][2] > 1
        PROVE  text[i - 1] = <<"ping", text[i][2] - 1>>
    <2>1. /\ i \in 1..n /\ i - 1 \in 1..n
          /\ text[i] = <<"ping", 1 + ((i - 1) % 10)>>
          /\ text[i - 1] = <<"ping", 1 + (((i - 1) - 1) % 10)>>
      BY <1>1
    <2>2. 1 + ((i - 1) % 10) > 1
      BY <1>2, <2>1
    <2>3. 1 + (((i - 1) - 1) % 10) = (1 + ((i - 1) % 10)) - 1
      <3>1. \A m \in Nat : 1 + (m % 10) > 1 => 1 + ((m - 1) % 10) = (1 + (m % 10)) - 1
        OBVIOUS
      <3>2. i - 1 \in Nat
        BY <1>1
      <3> QED
        BY <2>2, <3>1, <3>2
    <2>4. text[i][2] = 1 + ((i - 1) % 10)
      BY <2>1
    <2> QED
      BY <2>1, <2>3, <2>4, Zenon
  <1>3. ASSUME n > 0  PROVE  text[1] = <<"ping", 1>>
    <2>1. 1 \in 1..n /\ 1 + ((1 - 1) % 10) = 1
      BY <1>1, <1>3
    <2> QED
      BY <1>1, <2>1
  <1> QED
    BY <1>1, <1>2, <1>3 DEF Shape

-----------------------------------------------------------------------------
(* What the parser counts.                                                 *)

\* The parts at which pingServer_activate counts a ping.
CountedAt(us) ==
    {i \in PartsOf(us) :
        /\ Empty(us, i)
        /\ \E a \in PartsOf(us) : a < i /\ WordAt(us, a, CookieUnit)
        /\ \E b \in PartsOf(us) : b < i /\ WordAt(us, b, TimeUnit)}

\* An empty part in the middle is the second of two line ends in a row, and what
\* stands before them is the time of a ping whose cookie is there as well.
LEMMA StampBefore ==
    ASSUME NEW us \in Seq(PingUnits), Shape(us),
           NEW i \in CountedAt(us), i # Len(us) + 1
    PROVE  i - 4 \in Begins(us)
  <1>1. Len(us) \in Nat
    BY LenProperties
  <1>2. PICK a \in PartsOf(us) : a < i /\ WordAt(us, a, 1)
    BY DEF CountedAt, CookieUnit
  <1>3. a \in 1..Len(us) - 1 /\ us[a] = <<"ping", 1>> /\ us[a + 1] = <<"ping", 2>>
    BY <1>2 DEF WordAt
  <1>4. i \in PartsOf(us) /\ i \in Nat /\ i # 1
    <2>1. i \in PartsOf(us)
      BY DEF CountedAt
    <2>2. \A j \in PartsOf(us) : j \in Nat
      BY <1>1 DEF PartsOf
    <2>3. \A x \in 1..Len(us) - 1 : x \in Nat /\ x > 0
      BY <1>1
    <2>4. i \in Nat /\ a \in Nat /\ a > 0 /\ a < i
      BY <1>2, <1>3, <2>1, <2>2, <2>3, Zenon
    <2> QED
      BY <2>1, <2>4
  <1>5. PICK j \in 1..Len(us), k \in {3, 7, 9} : i = j + 2 /\ WordAt(us, j, k)
    BY <1>4 DEF PartsOf, LineEndUnits
  <1>6. PICK k2 \in {3, 7, 9} : WordAt(us, i, k2)
    BY DEF CountedAt, Empty, LineEndUnits
  <1>7. /\ i \in 1..Len(us) - 1 /\ us[i] = <<"ping", k2>>
        /\ i - 2 \in 1..Len(us) - 1 /\ us[i - 2] = <<"ping", k>>
        /\ us[i - 1] = <<"ping", k + 1>>
    <2>1. i \in 1..Len(us) - 1 /\ us[i] = <<"ping", k2>>
      BY <1>6 DEF WordAt
    <2>2. j \in 1..Len(us) - 1 /\ us[j] = <<"ping", k>> /\ us[j + 1] = <<"ping", k + 1>>
      BY <1>5 DEF WordAt
    <2>3. j = i - 2 /\ j + 1 = i - 1
      BY <1>1, <1>5
    <2> QED
      BY <2>1, <2>2, <2>3
  <1>8. us[i - 1] = <<"ping", k2 - 1>>
    <2>1. i \in 2..Len(us) /\ us[i][1] = "ping" /\ us[i][2] = k2
      BY <1>1, <1>4, <1>7
    <2> QED
      BY <2>1 DEF Shape
  <1>9. k = 7 /\ k2 = 9
    BY <1>7, <1>8
  <1>10. a <= i - 4
    <2>1. a # i - 2 /\ a # i - 1 /\ a + 1 # i - 2
      BY <1>3, <1>7, <1>9
    <2> QED
      BY <1>1, <1>2, <1>3, <1>4, <2>1
  <1>11. us[i - 3] = <<"ping", 6>>
    <2>1. PICK p \in 2..Len(us) : p = i - 2 /\ p - 1 = i - 3
      BY <1>1, <1>3, <1>4, <1>7, <1>10
    <2>2. us[p][1] = "ping" /\ us[p][2] = 7 /\ 7 > 1 /\ 7 - 1 = 6
      BY <1>7, <1>9, <2>1
    <2>3. us[p - 1] = <<"ping", us[p][2] - 1>>
      BY <2>2 DEF Shape
    <2> QED
      BY <2>1, <2>2, <2>3
  <1>12. us[i - 4] = <<"ping", 5>>
    <2>1. PICK p \in 2..Len(us) : p = i - 3 /\ p - 1 = i - 4
      BY <1>1, <1>3, <1>4, <1>7, <1>10
    <2>2. us[p][1] = "ping" /\ us[p][2] = 6 /\ 6 > 1 /\ 6 - 1 = 5
      BY <1>11, <2>1
    <2>3. us[p - 1] = <<"ping", us[p][2] - 1>>
      BY <2>2 DEF Shape
    <2> QED
      BY <2>1, <2>2, <2>3
  <1>13. i - 4 \in 1..Len(us) - 1 /\ (i - 4) + 1 = i - 3
    BY <1>1, <1>3, <1>4, <1>7, <1>10
  <1> QED
    BY <1>11, <1>12, <1>13 DEF Begins

\* So a text is counted at most once for every time stamp that stands whole in it,
\* and once more at its end, if there is one.
LEMMA ParsedBound ==
    ASSUME NEW us \in Seq(PingUnits), Shape(us)
    PROVE  Parsed(us) \in Nat /\ Parsed(us) <= 2 * StampsIn(us)
  <1> DEFINE Places == {i + 4 : i \in Begins(us)}
  <1>1. /\ StampsIn(us) = Cardinality(Begins(us)) /\ StampsIn(us) \in Nat
        /\ IsFiniteSet(Begins(us)) /\ Begins(us) \in SUBSET Nat
    <2>1. Begins(us) \subseteq 1..Len(us) /\ Len(us) \in Nat
      BY StampsBegin, LenProperties
    <2> QED
      BY <2>1, StampsBegin
  <1>2. IsFiniteSet(Places) /\ Cardinality(Places) = StampsIn(us)
    BY <1>1, Shifted
  <1>3. CountedAt(us) \subseteq Places \cup {Len(us) + 1}
    <2> SUFFICES ASSUME NEW i \in CountedAt(us), i # Len(us) + 1  PROVE  i \in Places
      OBVIOUS
    <2>1. i - 4 \in Begins(us)
      BY StampBefore
    <2>2. i \in Nat /\ (i - 4) + 4 = i
      <3>1. i \in PartsOf(us) /\ Len(us) \in Nat
        BY LenProperties DEF CountedAt
      <3>2. i \in Nat
        BY <3>1 DEF PartsOf
      <3> QED
        BY <3>2
    <2> QED
      BY <2>1, <2>2
  <1> HIDE DEF Places
  <1>4. /\ IsFiniteSet(Places \cup {Len(us) + 1})
        /\ Cardinality(Places \cup {Len(us) + 1}) <= StampsIn(us) + 1
        /\ Cardinality(Places \cup {Len(us) + 1}) \in Nat
    <2> DEFINE x == Len(us) + 1
    <2> HIDE DEF x
    <2>1. /\ IsFiniteSet(Places \cup {x})
          /\ Cardinality(Places \cup {x}) =
                IF x \in Places THEN Cardinality(Places) ELSE Cardinality(Places) + 1
      BY <1>2, FS_AddElement
    <2> QED
      BY <1>1, <1>2, <2>1 DEF x
  <1>5. /\ Parsed(us) = Cardinality(CountedAt(us)) /\ Parsed(us) \in Nat
        /\ IsFiniteSet(CountedAt(us)) /\ Parsed(us) <= StampsIn(us) + 1
    <2>1. Parsed(us) = Cardinality(CountedAt(us))
      BY DEF Parsed, CountedAt
    <2>2. IsFiniteSet(CountedAt(us)) /\ Cardinality(CountedAt(us)) \in Nat
      BY <1>3, <1>4, FS_Subset, FS_CardinalityType
    <2>3. Cardinality(CountedAt(us)) <= Cardinality(Places \cup {Len(us) + 1})
      BY <1>3, <1>4, FS_Subset
    <2> QED
      BY <1>1, <1>4, <2>1, <2>2, <2>3
  <1>6. CASE CountedAt(us) = {}
    <2>1. Parsed(us) = 0
      BY <1>5, <1>6, FS_EmptySet
    <2> QED
      BY <1>1, <2>1
  <1>7. CASE CountedAt(us) # {}
    <2>1. PICK b \in PartsOf(us) : WordAt(us, b, TimeUnit)
      BY <1>7 DEF CountedAt
    <2>2. b \in Begins(us)
      BY <2>1 DEF Begins, WordAt, TimeUnit
    <2>3. StampsIn(us) # 0
      BY <1>1, <2>2, FS_EmptySet
    <2> QED
      BY <1>1, <1>5, <2>3
  <1> QED
    BY <1>6, <1>7

-----------------------------------------------------------------------------
(* No ping is reported that was not handed to a socket whole.              *)

\* NoPhantomPing, strengthened by the time stamps that are not read yet, and the
\* order in which the units of a text stand there.
Counted ==
    /\ arrived \in Seq(PingUnits) /\ pingsTransfered \in Nat /\ handed \in Nat
    /\ Shape(arrived \o up)
    /\ pingsTransfered + 2 * StampsIn(arrived \o up) <= 2 * handed

\* What it takes for a step that counts nothing.
LEMMA UncountedKeeps ==
    ASSUME PingInv, Counted, up' \in Seq(PingUnits), arrived' \in Seq(PingUnits),
           UNCHANGED <<pingsTransfered, handed>>,
           Shape(arrived' \o up'),
           StampsIn(arrived' \o up') <= StampsIn(arrived \o up)
    PROVE  Counted'
  <1>1. up \in Seq(PingUnits) /\ arrived \in Seq(PingUnits)
    BY DEF PingInv, Types, Counted
  <1>2. StampsIn(arrived \o up) \in Nat /\ StampsIn(arrived' \o up') \in Nat
    BY <1>1, ConcatProperties, StampsBegin
  <1>3. pingsTransfered + 2 * StampsIn(arrived' \o up') <= 2 * handed
    BY <1>2 DEF Counted
  <1>4. StampsIn(arrived \o up)' = StampsIn(arrived' \o up')
    BY DEF StampsIn, WordAt, TimeUnit
  <1>5. Shape(arrived \o up)'
    BY DEF Shape
  <1> QED
    BY <1>3, <1>4, <1>5 DEF Counted

\* The units on the way to a connection's end are lost with it, and its end may be
\* marked.
LEMMA LostKeeps ==
    ASSUME PingInv, Counted, up' = <<>>, arrived' = arrived \/ arrived' = Ended(arrived),
           UNCHANGED <<pingsTransfered, handed>>
    PROVE  Counted'
  <1>1. up \in Seq(PingUnits) /\ arrived \in Seq(PingUnits) /\ <<>> \in Seq(PingUnits)
    BY EmptySeq DEF PingInv, Types, Counted
  <1>2. StampsIn(arrived) <= StampsIn(arrived \o up) /\ Shape(arrived)
        /\ StampsIn(arrived) \in Nat /\ StampsIn(arrived \o up) \in Nat
    <2>1. StampsIn(arrived) + StampsIn(up) <= StampsIn(arrived \o up)
      BY <1>1, JoinedStamps
    <2>2. /\ StampsIn(arrived) \in Nat /\ StampsIn(up) \in Nat
          /\ StampsIn(arrived \o up) \in Nat
      BY <1>1, ConcatProperties, StampsBegin
    <2>3. Shape(arrived \o up)
      BY DEF Counted
    <2>4. Shape(arrived)
      BY <1>1, <2>3, ShapeParts
    <2> QED
      BY <2>1, <2>2, <2>4
  <1>3. /\ arrived' \in Seq(PingUnits) /\ Shape(arrived')
        /\ StampsIn(arrived') <= StampsIn(arrived)
    <2>1. CASE arrived' = arrived
      BY <1>1, <1>2, <2>1
    <2>2. CASE arrived' = Append(arrived, End)
      <3> DEFINE r == <<End>>
      <3>1. r \in Seq(PingUnits) /\ Without("ping", r)
        BY DEF End, PingUnits, StampLen, Without
      <3>2. arrived' = arrived \o r
        BY <1>1, <2>2, AppendIsConcat, <3>1
      <3> HIDE DEF r
      <3>3. Shape(r) /\ (Len(r) > 0 => Fresh(r[1])) /\ StampsIn(r) = 0
        BY <3>1, ShapeWithout, NoStamps
      <3>4. Len(r) > 0 => r[1] # <<"ping", 6>>
        BY <3>3 DEF Fresh
      <3>5. arrived \o r \in Seq(PingUnits) /\ Shape(arrived \o r)
        BY <1>1, <1>2, <3>1, <3>3, ShapeConcat, ConcatProperties
      <3>6. StampsIn(arrived \o r) <= StampsIn(arrived) + StampsIn(r)
        BY <1>1, <3>1, <3>4, JoinedStamps
      <3>7. StampsIn(arrived \o r) \in Nat
        BY <3>5, StampsBegin
      <3> QED
        BY <1>2, <3>2, <3>3, <3>5, <3>6, <3>7
    <2> QED
      BY <2>1, <2>2 DEF Ended
  <1>4. arrived' \o up' = arrived'
    BY <1>3, ConcatEmptySeq
  <1>5. StampsIn(arrived') \in Nat
    BY <1>3, StampsBegin
  <1> QED
    BY <1>1, <1>2, <1>3, <1>4, <1>5, UncountedKeeps

LEMMA ConcatAssociates ==
    \A x, y, z \in Seq(PingUnits) : (x \o y) \o z = x \o (y \o z)
  BY ConcatAssociative

\* What the client sends adds the time stamps that stand in it.
LEMMA SentKeeps ==
    ASSUME PingInv, Counted, NEW r \in Seq(PingUnits), up' = up \o r,
           Shape(r), Len(r) > 0 => Fresh(r[1]),
           UNCHANGED <<arrived, pingsTransfered>>, handed' = handed + StampsIn(r)
    PROVE  Counted'
  <1>1. up \in Seq(PingUnits) /\ arrived \in Seq(PingUnits)
    BY DEF PingInv, Types, Counted
  <1>2. /\ arrived \o up \in Seq(PingUnits)
        /\ (arrived \o up) \o r = arrived \o up' /\ (arrived \o up) \o r \in Seq(PingUnits)
    <2>1. \A x, y, z \in Seq(PingUnits) : (x \o y) \o z = x \o (y \o z)
      BY ConcatAssociates
    <2>2. arrived \o up \in Seq(PingUnits)
      BY <1>1, ConcatProperties
    <2>3. (arrived \o up) \o r \in Seq(PingUnits)
      BY <2>2, ConcatProperties
    <2> QED
      BY <1>1, <2>1, <2>2, <2>3
  <1>3. StampsIn(arrived \o up') <= StampsIn(arrived \o up) + StampsIn(r)
    <2>1. Len(r) > 0 => r[1] # <<"ping", 6>>
      BY DEF Fresh
    <2> QED
      BY <1>2, <2>1, JoinedStamps
  <1>4. Shape(arrived \o up')
    <2>1. Shape(arrived \o up)
      BY DEF Counted
    <2> QED
      BY <1>2, <2>1, ShapeConcat
  <1>5. /\ StampsIn(arrived \o up) \in Nat /\ StampsIn(arrived \o up') \in Nat
        /\ StampsIn(r) \in Nat
    BY <1>2, StampsBegin
  <1>6. pingsTransfered + 2 * StampsIn(arrived \o up') <= 2 * (handed + StampsIn(r))
    <2>1. PICK before, after, sent \in Nat :
             /\ before = StampsIn(arrived \o up) /\ after = StampsIn(arrived \o up')
             /\ sent = StampsIn(r)
      BY <1>5
    <2>2. after <= before + sent
      BY <1>3, <2>1
    <2>3. /\ pingsTransfered \in Nat /\ handed \in Nat
          /\ pingsTransfered + 2 * before <= 2 * handed
      BY <2>1 DEF Counted
    <2>4. pingsTransfered + 2 * after <= 2 * (handed + sent)
      BY <2>2, <2>3
    <2> QED
      BY <2>1, <2>4
  <1>7. arrived' \o up' = arrived \o up'
    OBVIOUS
  <1>8. StampsIn(arrived \o up)' = StampsIn(arrived \o up')
    BY <1>7 DEF StampsIn, WordAt, TimeUnit
  <1>9. Shape(arrived \o up)'
    BY <1>4, <1>7 DEF Shape
  <1>10. handed + StampsIn(r) \in Nat
    BY <1>5 DEF Counted
  <1> QED
    BY <1>6, <1>8, <1>9, <1>10 DEF Counted

\* Steps of the client and its timers, but for the ping itself.
LEMMA ClientCounts ==
    ASSUME PingInv, Counted, ActivateStep \/ SendPingFails \/ Wakeup \/ ClientEvent
    PROVE  Counted'
  <1>1. CASE UNCHANGED <<up, arrived, pingsTransfered, handed>>
    BY <1>1 DEF Counted, StampsIn, WordAt, Shape
  <1>2. CASE SendUnits
    <2> DEFINE room == PingCap - Len(up)
               n == IF room < Len(pend) THEN room ELSE Len(pend)
               r == SubSeq(pend, 1, n)
    <2>1. /\ n > 0 /\ up' = up \o r
          /\ UNCHANGED <<arrived, pingsTransfered, handed>>
      BY <1>2 DEF SendUnits, Goto, peerVars, countVars
    <2>2. n \in 0..Len(pend) /\ pend \in Seq(PingUnits) /\ Without("ping", pend)
      BY <2>1, PingAssumption, LenProperties DEF PingInv, Types
    <2> HIDE DEF n
    <2>3. r \in Seq(PingUnits) /\ Without("ping", r)
      BY <2>2, WithoutSubSeq
    <2> HIDE DEF r
    <2>4. Shape(r) /\ (Len(r) > 0 => Fresh(r[1])) /\ StampsIn(r) = 0
      BY <2>3, ShapeWithout, NoStamps
    <2>5. handed' = handed + StampsIn(r)
      BY <2>1, <2>4 DEF Counted
    <2> QED
      BY <2>1, <2>3, <2>4, <2>5, SentKeeps
  <1>3. CASE Restart
    BY <1>3, LostKeeps DEF Restart
  <1>4. ASSUME NEW code, EndsWith(code)  PROVE  Counted'
    BY <1>1, <1>3, <1>4 DEF EndsWith, countVars, peerVars
  <1>5. CASE SocksRequest \/ SocksToReply \/ PingCase \/ Wakeup \/ ClientEvent
    BY <1>1, <1>5 DEF SocksRequest, SocksToReply, PingCase, Wakeup, ClientEvent, Goto,
                      countVars, peerVars
  <1>6. CASE SocksReplyInit \/ SocksReplyConn
    BY <1>1, <1>4, <1>6 DEF SocksReplyInit, SocksReplyConn, Goto, countVars, peerVars
  <1>7. CASE SendLater \/ SendFails \/ IdleCase
    BY <1>4, <1>7 DEF SendLater, SendFails, IdleCase
  <1>8. CASE Receive
    BY <1>1, <1>4, <1>8 DEF Receive, countVars, peerVars
  <1>9. CASE SendPingFails
    BY <1>3, <1>9 DEF SendPingFails
  <1> QED
    BY <1>2, <1>5, <1>6, <1>7, <1>8, <1>9 DEF ActivateStep

\* A ping's time stamps are counted as they are handed over.
LEMMA SendPingCounts ==
    ASSUME PingInv, Sized, Counted, SendPing
    PROVE  Counted'
  <1> DEFINE room == PingCap - Len(up)
             n == IF sock # "up" THEN 0 ELSE IF room < pingSize THEN room ELSE pingSize
  <1>1. PICK text : /\ text = SubSeq(PingText, 1, n) /\ up' = up \o text
                    /\ handed' = handed + StampsIn(text)
                    /\ UNCHANGED <<arrived, pingsTransfered>>
    BY DEF SendPing, peerVars
  <1>2. n \in 0..pingSize
    BY PingAssumption, LenProperties DEF PingInv, Types, Sized
  <1>3. /\ text \in Seq(PingUnits) /\ Shape(text)
        /\ Len(text) > 0 => Fresh(text[1])
    <2> HIDE DEF n
    <2>1. /\ text \in Seq(PingUnits) /\ Shape(text)
          /\ Len(text) > 0 => text[1] = <<"ping", 1>>
      BY <1>1, <1>2, ShapeText
    <2> QED
      BY <2>1 DEF Fresh
  <1> QED
    BY <1>1, <1>3, SentKeeps

\* The proxy takes no ping away, as there is none on the way to it.
LEMMA ProxyCounts ==
    ASSUME PingInv, Counted, Proxy
    PROVE  Counted'
  <1>1. /\ Len(up) >= 2 /\ up' = SubSeq(up, 3, Len(up)) /\ phase \in {"init", "conn"}
        /\ UNCHANGED <<arrived, pingsTransfered, handed>>
    BY DEF Proxy, ProxyAnswers, exceptPeer, peerVars, countVars
  <1>2. up \in Seq(PingUnits) /\ arrived \in Seq(PingUnits) /\ Without("ping", up)
    BY <1>1 DEF PingInv, Types, NoGrantYet, Counted
  <1>3. up' \in Seq(PingUnits) /\ Without("ping", up')
    BY <1>1, <1>2, WithoutSubSeq, LenProperties
  <1>4. Shape(arrived) /\ Shape(up') /\ (Len(up') > 0 => Fresh(up'[1]))
        /\ StampsIn(up') = 0
    <2>1. Shape(arrived \o up)
      BY DEF Counted
    <2> QED
      BY <1>2, <1>3, <2>1, ShapeParts, ShapeWithout, NoStamps
  <1>5. Shape(arrived \o up')
    BY <1>2, <1>3, <1>4, ShapeConcat
  <1>6. StampsIn(arrived \o up') <= StampsIn(arrived)
    <2>1. Len(up') > 0 => up'[1] # <<"ping", 6>>
      BY <1>4 DEF Fresh
    <2>2. StampsIn(arrived \o up') <= StampsIn(arrived) + StampsIn(up')
      BY <1>2, <1>3, <2>1, JoinedStamps
    <2> QED
      BY <1>2, <1>4, <2>2, StampsBegin
  <1>7. StampsIn(arrived) <= StampsIn(arrived \o up)
    <2>1. StampsIn(arrived) + StampsIn(up) <= StampsIn(arrived \o up)
      BY <1>2, JoinedStamps
    <2>2. /\ StampsIn(arrived) \in Nat /\ StampsIn(up) \in Nat
          /\ StampsIn(arrived \o up) \in Nat
      BY <1>2, ConcatProperties, StampsBegin
    <2> QED
      BY <2>1, <2>2
  <1>8. StampsIn(arrived \o up') <= StampsIn(arrived \o up)
    <2>1. /\ StampsIn(arrived) \in Nat /\ StampsIn(arrived \o up') \in Nat
          /\ StampsIn(arrived \o up) \in Nat
      BY <1>2, <1>3, ConcatProperties, StampsBegin
    <2> QED
      BY <1>6, <1>7, <2>1
  <1>9. arrived' \in Seq(PingUnits) /\ arrived' \o up' = arrived \o up'
    BY <1>1, <1>2
  <1> QED
    BY <1>1, <1>3, <1>5, <1>8, <1>9, UncountedKeeps

\* The relay only moves the border between what is on its way and what has arrived.
LEMMA RelayCounts ==
    ASSUME PingInv, Counted, Relay
    PROVE  Counted'
  <1>1. /\ up # <<>> /\ arrived' = Append(arrived, Head(up)) /\ up' = Tail(up)
        /\ UNCHANGED <<pingsTransfered, handed>>
    BY DEF Relay, exceptPeer, countVars
  <1>2. up \in Seq(PingUnits) /\ arrived \in Seq(PingUnits)
    BY DEF PingInv, Types, Counted
  <1>3. /\ Head(up) \in PingUnits /\ Head(up) = up[1] /\ Tail(up) \in Seq(PingUnits)
        /\ Len(Tail(up)) = Len(up) - 1 /\ Len(up) \in Nat \ {0}
        /\ \A i \in 1..Len(Tail(up)) : Tail(up)[i] = up[i + 1]
    BY <1>1, <1>2, HeadTailProperties, EmptySeq
  <1>4. /\ arrived' \in Seq(PingUnits) /\ Len(arrived') = Len(arrived) + 1
        /\ \A i \in 1..Len(arrived) : arrived'[i] = arrived[i]
        /\ arrived'[Len(arrived) + 1] = up[1] /\ Len(arrived) \in Nat
    BY <1>1, <1>2, <1>3, AppendProperties, LenProperties
  <1>5. arrived' \o up' = arrived \o up
    <2>1. /\ arrived' \o up' \in Seq(PingUnits) /\ Len(arrived' \o up') = Len(arrived) + Len(up)
          /\ \A i \in 1..Len(arrived) + Len(up) :
                (arrived' \o up')[i] = IF i <= Len(arrived) + 1 THEN arrived'[i]
                                       ELSE up'[i - (Len(arrived) + 1)]
      BY <1>1, <1>3, <1>4, ConcatProperties
    <2>2. /\ arrived \o up \in Seq(PingUnits) /\ Len(arrived \o up) = Len(arrived) + Len(up)
          /\ \A i \in 1..Len(arrived) + Len(up) :
                (arrived \o up)[i] = IF i <= Len(arrived) THEN arrived[i]
                                     ELSE up[i - Len(arrived)]
      BY <1>2, ConcatProperties
    <2>3. ASSUME NEW i \in 1..Len(arrived) + Len(up)
          PROVE  (arrived' \o up')[i] = (arrived \o up)[i]
      <3>1. CASE i <= Len(arrived)
        BY <1>4, <2>1, <2>2, <3>1
      <3>2. CASE i = Len(arrived) + 1
        BY <1>4, <2>1, <2>2, <3>2
      <3>3. CASE i > Len(arrived) + 1
        <4>1. i - (Len(arrived) + 1) \in 1..Len(Tail(up))
          BY <1>3, <1>4, <3>3
        <4>2. up'[i - (Len(arrived) + 1)] = up[(i - (Len(arrived) + 1)) + 1]
          BY <1>1, <1>3, <4>1
        <4>3. (i - (Len(arrived) + 1)) + 1 = i - Len(arrived)
          BY <1>4
        <4> QED
          BY <1>4, <2>1, <2>2, <3>3, <4>2, <4>3
      <3>4. i <= Len(arrived) \/ i = Len(arrived) + 1 \/ i > Len(arrived) + 1
        BY <1>3, <1>4
      <3> QED
        BY <3>1, <3>2, <3>3, <3>4
    <2> QED
      BY <2>1, <2>2, <2>3, SeqEqual
  <1>6. /\ Shape(arrived' \o up') /\ StampsIn(arrived' \o up') = StampsIn(arrived \o up)
        /\ StampsIn(arrived \o up) \in Nat
    BY <1>2, <1>5, ConcatProperties, StampsBegin DEF Counted
  <1> QED
    BY <1>1, <1>3, <1>4, <1>6, UncountedKeeps

\* The server counts time stamps of what it reads, each twice at most, which are gone
\* from what it has not read.
LEMMA ServerCounts ==
    ASSUME PingInv, Counted, ServerActivate
    PROVE  Counted'
  <1>1. PICK n \in 1..Len(arrived) :
           /\ \/ pingsTransfered' = pingsTransfered + Parsed(SubSeq(arrived, 1, n))
              \/ pingsTransfered' = pingsTransfered
           /\ arrived' = SubSeq(arrived, n + 1, Len(arrived))
           /\ UNCHANGED <<up, handed>>
    BY DEF ServerActivate, exceptPeer, countVars
  <1> DEFINE a == SubSeq(arrived, 1, n)
             b == SubSeq(arrived, n + 1, Len(arrived))
  <1>2. up \in Seq(PingUnits) /\ arrived \in Seq(PingUnits) /\ Len(arrived) \in Nat
    BY LenProperties DEF PingInv, Types, Counted
  <1>3. \A i \in 1..Len(arrived) : arrived[i] \in PingUnits
    BY <1>2, ElementOfSeq
  <1>4. a \in Seq(PingUnits) /\ b \in Seq(PingUnits)
    BY <1>2, <1>3, SubSeqProperties
  <1>5. a \o b = arrived
    <2>1. /\ 1 \in 1..Len(arrived) + 1 /\ n \in 1 - 1..Len(arrived)
          /\ Len(arrived) \in n..Len(arrived)
      BY <1>2
    <2>2. a \o b = SubSeq(arrived, 1, Len(arrived))
      BY <1>2, <2>1, ConcatAdjacentSubSeq
    <2> QED
      BY <1>2, <2>2, SubSeqFull
  <1>6. /\ \/ pingsTransfered' = pingsTransfered + Parsed(a)
           \/ pingsTransfered' = pingsTransfered
        /\ arrived' = b
    BY <1>1
  <1> HIDE DEF a, b
  <1>7. arrived \o up = a \o (b \o up) /\ b \o up \in Seq(PingUnits)
    <2>1. (a \o b) \o up = a \o (b \o up)
      BY <1>2, <1>4, ConcatAssociates
    <2>2. b \o up \in Seq(PingUnits)
      BY <1>2, <1>4, ConcatProperties
    <2> QED
      BY <1>5, <2>1, <2>2
  <1>8. Shape(a) /\ Shape(b \o up)
    <2>1. Shape(a \o (b \o up))
      BY <1>7 DEF Counted
    <2> QED
      BY <1>4, <1>7, <2>1, ShapeParts
  <1>9. PICK all, read, left, new \in Nat :
           /\ all = StampsIn(arrived \o up) /\ read = StampsIn(a)
           /\ left = StampsIn(b \o up) /\ new = Parsed(a)
    <2>1. /\ StampsIn(arrived \o up) \in Nat /\ StampsIn(a) \in Nat
          /\ StampsIn(b \o up) \in Nat
      BY <1>2, <1>4, <1>7, StampsBegin, ConcatProperties
    <2>2. Parsed(a) \in Nat
      BY <1>4, <1>8, ParsedBound
    <2> QED
      BY <2>1, <2>2
  <1>10. read + left <= all
    <2>1. StampsIn(a) + StampsIn(b \o up) <= StampsIn(a \o (b \o up))
      BY <1>4, <1>7, JoinedStamps
    <2> QED
      BY <1>7, <1>9, <2>1
  <1>11. new <= 2 * read
    <2>1. Parsed(a) <= 2 * StampsIn(a)
      BY <1>4, <1>8, ParsedBound
    <2> QED
      BY <1>9, <2>1
  <1>12. /\ pingsTransfered \in Nat /\ handed \in Nat
         /\ pingsTransfered + 2 * all <= 2 * handed
    BY <1>9 DEF Counted
  <1>13. pingsTransfered' \in Nat /\ pingsTransfered' + 2 * left <= 2 * handed
    <2>1. pingsTransfered' = pingsTransfered + new \/ pingsTransfered' = pingsTransfered
      BY <1>6, <1>9
    <2> QED
      BY <1>10, <1>11, <1>12, <2>1
  <1>14. arrived' \o up' = b \o up
    BY <1>1, <1>6
  <1>15. StampsIn(arrived \o up)' = left
    <2>1. StampsIn(arrived \o up)' = StampsIn(arrived' \o up')
      BY DEF StampsIn, WordAt, TimeUnit
    <2> QED
      BY <1>9, <1>14, <2>1
  <1>16. Shape(arrived \o up)'
    BY <1>8, <1>14 DEF Shape
  <1> QED
    BY <1>1, <1>4, <1>6, <1>12, <1>13, <1>15, <1>16 DEF Counted

LEMMA CountsKept ==
    ASSUME PingInv, Sized, Counted, [PingNext]_pingVars
    PROVE  Counted'
  <1>1. CASE ActivateStep \/ SendPingFails \/ Wakeup \/ ClientEvent
    BY <1>1, ClientCounts
  <1>2. CASE SendPing
    BY <1>2, SendPingCounts
  <1>3. CASE Proxy
    BY <1>3, ProxyCounts
  <1>4. CASE HangUp
    BY <1>4, LostKeeps DEF HangUp, exceptPeer, peerVars, countVars
  <1>5. CASE Relay \/ ServerActivate
    BY <1>5, RelayCounts, ServerCounts
  <1>6. CASE UNCHANGED <<up, arrived, pingsTransfered, handed>>
    BY <1>6 DEF Counted, StampsIn, WordAt, Shape
  <1>7. CASE NetConnect \/ UNCHANGED pingVars
    BY <1>6, <1>7 DEF NetConnect, exceptPeer, pingVars, peerVars, countVars
  <1> QED
    BY <1>1, <1>2, <1>3, <1>4, <1>5, <1>7 DEF PingNext

\* Whatever is cut, lost or read in pieces, and for any size of a ping and of the
\* server's buffer, no ping is reported without a time stamp that was handed to a
\* socket whole, and none more than twice (ping-server.c, pingServer_activate).
THEOREM NoPingFromNowhere == PingSpec => []NoPhantomPing
  <1>1. PingInit => PingInv /\ Sized /\ Counted
    <2> SUFFICES ASSUME PingInit  PROVE  Counted
      BY PingInitially
    <2>1. up = <<>> /\ arrived = <<>> /\ pingsTransfered = 0 /\ handed = 0
      BY DEF PingInit
    <2>2. <<>> \o <<>> = <<>> /\ <<>> \in Seq(PingUnits)
      BY ConcatEmptySeq, EmptySeq
    <2>3. StampsIn(<<>>) = 0 /\ Shape(<<>>)
      <3>1. Without("ping", <<>>)
        BY DEF Without
      <3> QED
        BY <2>2, <3>1, NoStamps, ShapeWithout
    <2> QED
      BY <2>1, <2>2, <2>3 DEF Counted
  <1>2. PingInv /\ Sized /\ Counted /\ [PingNext]_pingVars => (PingInv /\ Sized /\ Counted)'
    BY PingStep, SizeKept, CountsKept
  <1>3. PingInv /\ Counted => NoPhantomPing
    <2> SUFFICES ASSUME PingInv, Counted  PROVE  NoPhantomPing
      OBVIOUS
    <2>1. StampsIn(arrived \o up) \in Nat
      <3>1. arrived \o up \in Seq(PingUnits)
        BY ConcatProperties DEF PingInv, Types, Counted
      <3> QED
        BY <3>1, StampsBegin
    <2> QED
      BY <2>1 DEF Counted, NoPhantomPing
  <1> QED
    BY <1>1, <1>2, <1>3, PTL DEF PingSpec
=============================================================================
