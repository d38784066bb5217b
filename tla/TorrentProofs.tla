--------------------------- MODULE TorrentProofs ----------------------------
(***************************************************************************)
(* Proofs about the torrent plug-in, for any clients, servers, block and    *)
(* buffer sizes and failures: blocks are conserved, and one is counted only *)
(* when both ends of its connection have all of it.                         *)
(*                                                                         *)
(* TorrentInv relates the two ends of every connection of a running client *)
(* and what is on its way between them: Handshake up to the first request  *)
(* and between two blocks, Asked until the server has read a request, and  *)
(* then one of three stages of the exchange.  A connection that was reset  *)
(* is empty, and what is left of one that the client gave up matters to    *)
(* nobody.                                                                 *)
(***************************************************************************)
EXTENDS Torrent, TLAPS, SequenceTheorems, FiniteSetTheorems

Units == {"init", "choice", "noauth", "request", "granted", "failed", "block",
          "FILE_REQUEST", "FINISHED"} \X {1, 2}

Asking == {"TC_SOCKS_REQUEST_INIT", "TC_SOCKS_REQUEST_CONN"}
ToReply == {"TC_SOCKS_TOREPLY_INIT", "TC_SOCKS_TOREPLY_CONN"}
Replied == {"TC_SOCKS_REPLY_INIT", "TC_SOCKS_REPLY_CONN"}
AtServerStates == {"TC_SERVER_REQUEST", "TC_SERVER_TRANSFER", "TC_SERVER_FINISHED"}

ClientEnds ==
    [state : Asking \cup ToReply \cup Replied \cup AtServerStates
             \cup {"TC_SERVER_IDLE", "TC_SEND", "TC_RECEIVE"},
     next : ToReply \cup Replied \cup {"TC_SERVER_IDLE", "TC_SERVER_REQUEST"},
     buf : Seq(Units), ev : {"IN", "OUT"}, down : Nat, up : Nat]
ServerEnds ==
    [state : {"none", "TS_IDLE", "TS_REQUEST", "TS_TRANSFER", "TS_FINISHED"},
     ev : SUBSET {"IN", "OUT"}, down : Nat, up : Nat]
Wires ==
    [phase : {"none", "connecting", "init", "conn", "relay", "closed", "reset"},
     up : Seq(Units), down : Seq(Units)]

Types ==
    /\ servers \in Seq(Servers) /\ lists \in [Clients -> Seq(Seq(Servers))]
    /\ known \in [Clients -> SUBSET Servers]
    /\ remaining \in [Clients -> Nat] /\ downloaded \in [Clients -> Nat]
    /\ status \in [Clients -> {"run", "complete", "crashed"}]
    /\ act \in [Clients -> Servers \cup {NoServer}]
    /\ cl \in [Clients -> [Servers -> ClientEnds]]
    /\ sv \in [Clients -> [Servers -> ServerEnds]]
    /\ net \in [Clients -> [Servers -> Wires]]

\* Only a client that runs has an activation, and only with servers that it knows.
Running ==
    \A c \in Clients :
        /\ act[c] # NoServer => status[c] = "run"
        /\ \A s \in Servers : s \notin known[c] => cl[c][s].state = "TC_SERVER_IDLE"

\* BlocksConserved, of a set that is finite.
Conserved == BlocksConserved /\ \A c \in Clients : IsFiniteSet(UnderWay(c))

-----------------------------------------------------------------------------
(* A connection with client end e, server end v and w in between.          *)

\* The server has not begun with a block.
Waits(v) ==
    /\ v.state \in {"none", "TS_IDLE", "TS_REQUEST"}
    /\ v.state = "TS_REQUEST" => v.down = 0 /\ v.up = 0

Handshake(e, v, w) ==
    /\ w.phase \in {"connecting", "init", "conn", "relay"}
    /\ Waits(v) /\ (w.phase # "relay" => v.state = "none")
    /\ ~Contains(w.up, "FILE_REQUEST")
    /\ \/ /\ e.state \in Asking /\ e.buf = <<>> /\ w.down = <<>>
          /\ w.phase # "relay" => w.up = <<>>
       \/ /\ e.state = "TC_SEND" /\ e.next \in ToReply
          /\ e.buf # <<>> /\ w.down = <<>> /\ ~Contains(e.buf, "FILE_REQUEST")
          /\ w.phase # "relay" => Len(w.up) + Len(e.buf) = 2
       \/ /\ e.state \in ToReply \cup Replied \cup {"TC_RECEIVE"}
          /\ e.state = "TC_RECEIVE" => e.next \in Replied
          /\ \/ /\ e.buf = <<>> /\ w.down = <<>>
                /\ w.phase # "relay" => Len(w.up) = 2
             \/ /\ Len(e.buf) + Len(w.down) = 2
                /\ w.phase # "relay" => w.up = <<>>
       \/ /\ e.state = "TC_SERVER_REQUEST" /\ w.down = <<>>
          /\ w.phase # "relay" => w.up = <<>>

\* The request is the last unit on its way to the server.
Asked(e, v, w) ==
    /\ w.phase = "relay" /\ Waits(v) /\ w.down = <<>>
    /\ e.state = "TC_SERVER_TRANSFER" /\ e.ev = "IN" /\ e.down = 0 /\ e.up = 0
    /\ w.up # <<>> /\ \A i \in 1..Len(w.up) : w.up[i][1] = "FILE_REQUEST" <=> i = Len(w.up)

\* What the ends of a connection have counted of the block, and which state the
\* client is in for it.
Counts(e, v) ==
    /\ e.down <= v.up /\ v.up <= DownBlock /\ v.down <= e.up /\ e.up <= UpBlock
    /\ e.state = IF e.down = DownBlock /\ e.up = UpBlock THEN "TC_SERVER_FINISHED"
                 ELSE "TC_SERVER_TRANSFER"

Exchanging(e, v, w) ==
    /\ w.phase = "relay" /\ Counts(e, v) /\ v.state = "TS_TRANSFER"
    /\ v.up < DownBlock \/ v.down < UpBlock
    /\ Len(w.down) = v.up - e.down /\ Len(w.up) = e.up - v.down

Exchanged(e, v, w) ==
    /\ w.phase = "relay" /\ Counts(e, v) /\ v.state = "TS_FINISHED"
    /\ v.up = DownBlock /\ v.down = UpBlock
    /\ Len(w.down) = DownBlock - e.down /\ w.up = <<>>

\* FINISHED comes after all that is left of the block.
Told(e, v, w) ==
    /\ w.phase = "relay" /\ Counts(e, v) /\ v.state = "TS_IDLE"
    /\ v.up = DownBlock /\ v.down = UpBlock
    /\ Len(w.down) = (DownBlock - e.down) + 1 /\ w.up = <<>>
    /\ w.down[Len(w.down)][1] = "FINISHED"

Gone(w) == w.phase = "reset" /\ w.up = <<>> /\ w.down = <<>>

Connected(e, v, w) ==
    \/ e.state = "TC_SERVER_IDLE" \/ Gone(w) \/ Handshake(e, v, w) \/ Asked(e, v, w)
    \/ Exchanging(e, v, w) \/ Exchanged(e, v, w) \/ Told(e, v, w)

Connections ==
    \A c \in Clients : status[c] = "run" =>
        \A s \in Servers : Connected(cl[c][s], sv[c][s], net[c][s])

TorrentInv == Types /\ Running /\ Conserved /\ Connections

-----------------------------------------------------------------------------
(* Sequences of units.                                                     *)

LEMMA CutUnits ==
    ASSUME NEW us \in Seq(Units), NEW n \in 0..Len(us)
    PROVE  /\ SubSeq(us, 1, n) \in Seq(Units) /\ Len(SubSeq(us, 1, n)) = n
           /\ \A i \in 1..n : SubSeq(us, 1, n)[i] = us[i]
           /\ Rest(us, n) \in Seq(Units) /\ Len(Rest(us, n)) = Len(us) - n
           /\ \A i \in 1..Len(us) - n : Rest(us, n)[i] = us[n + i]
           /\ Len(us) \in Nat
<1>1. Len(us) \in Nat /\ \A i \in 1..Len(us) : us[i] \in Units
  BY LenProperties, ElementOfSeq
<1>2. /\ SubSeq(us, 1, n) \in Seq(Units) /\ Len(SubSeq(us, 1, n)) = n
      /\ \A i \in 1..n : SubSeq(us, 1, n)[i] = us[i]
  <2>1. n \in Int /\ 1 \in Int /\ \A i \in 1..n : us[i] \in Units
    BY <1>1
  <2>2. /\ SubSeq(us, 1, n) \in Seq(Units)
        /\ Len(SubSeq(us, 1, n)) = IF 1 <= n THEN n - 1 + 1 ELSE 0
        /\ \A i \in 1..n - 1 + 1 : SubSeq(us, 1, n)[i] = us[1 + i - 1]
    BY <2>1, SubSeqProperties
  <2> QED BY <1>1, <2>2
<1>3. /\ Rest(us, n) \in Seq(Units) /\ Len(Rest(us, n)) = Len(us) - n
      /\ \A i \in 1..Len(us) - n : Rest(us, n)[i] = us[n + i]
  <2> DEFINE k == Len(us)
  <2>1. n + 1 \in Int /\ k \in Int /\ \A i \in n + 1..k : us[i] \in Units
    BY <1>1
  <2>2. /\ SubSeq(us, n + 1, k) \in Seq(Units)
        /\ Len(SubSeq(us, n + 1, k)) = IF n + 1 <= k THEN k - (n + 1) + 1 ELSE 0
        /\ \A i \in 1..k - (n + 1) + 1 : SubSeq(us, n + 1, k)[i] = us[(n + 1) + i - 1]
    BY <2>1, SubSeqProperties
  <2>3. k - (n + 1) + 1 = k - n /\ (n + 1 <= k \/ k - n = 0)
    BY <1>1
  <2>4. \A i \in 1..k - n : (n + 1) + i - 1 = n + i
    BY <1>1
  <2> QED BY <2>2, <2>3, <2>4 DEF Rest
<1> QED BY <1>1, <1>2, <1>3

LEMMA JoinUnits ==
    ASSUME NEW us \in Seq(Units), NEW ws \in Seq(Units)
    PROVE  /\ us \o ws \in Seq(Units) /\ Len(us \o ws) = Len(us) + Len(ws)
           /\ \A i \in 1..Len(us) : (us \o ws)[i] = us[i]
           /\ \A i \in 1..Len(ws) : (us \o ws)[Len(us) + i] = ws[i]
           /\ \A m : Contains(us \o ws, m) => Contains(us, m) \/ Contains(ws, m)
           /\ Len(us) \in Nat /\ Len(ws) \in Nat
<1>1. /\ us \o ws \in Seq(Units) /\ Len(us \o ws) = Len(us) + Len(ws)
      /\ \A i \in 1..Len(us) + Len(ws) :
            (us \o ws)[i] = IF i <= Len(us) THEN us[i] ELSE ws[i - Len(us)]
      /\ Len(us) \in Nat /\ Len(ws) \in Nat
  BY ConcatProperties, LenProperties
<1>2. \A i \in 1..Len(us) : (us \o ws)[i] = us[i]
  BY <1>1
<1>3. ASSUME NEW i \in 1..Len(ws) PROVE (us \o ws)[Len(us) + i] = ws[i]
  <2>1. PICK j \in 1..Len(us) + Len(ws) : j = Len(us) + i
    BY <1>1
  <2>2. ~(j <= Len(us)) /\ j - Len(us) = i
    BY <1>1, <2>1
  <2> QED BY <1>1, <2>1, <2>2
<1>4. ASSUME NEW m, Contains(us \o ws, m) PROVE Contains(us, m) \/ Contains(ws, m)
  <2>1. PICK i \in 1..Len(us) + Len(ws) : (us \o ws)[i][1] = m
    BY <1>1, <1>4 DEF Contains
  <2>2. CASE i <= Len(us)
    BY <1>1, <2>1, <2>2 DEF Contains
  <2>3. CASE ~(i <= Len(us))
    <3>1. i - Len(us) \in 1..Len(ws) /\ (us \o ws)[i] = ws[i - Len(us)]
      BY <1>1, <2>3
    <3> QED BY <2>1, <3>1 DEF Contains
  <2> QED BY <2>2, <2>3
<1> QED BY <1>1, <1>2, <1>3, <1>4

LEMMA EmptyUnits ==
    /\ <<>> \in Seq(Units) /\ Len(<<>>) = 0 /\ \A m : ~Contains(<<>>, m)
    /\ \A us \in Seq(Units) : Len(us) \in Nat /\ (us = <<>> <=> Len(us) = 0)
<1>1. <<>> \in Seq(Units) /\ Len(<<>>) = 0
  BY EmptySeq
<1>2. \A us \in Seq(Units) : Len(us) \in Nat /\ (us = <<>> <=> Len(us) = 0)
  BY <1>1, EmptySeq, LenProperties
<1> QED BY <1>1, <1>2 DEF Contains

LEMMA BlockUnits ==
    ASSUME NEW n \in Nat
    PROVE  /\ Block(n) \in Seq(Units) /\ Len(Block(n)) = n
           /\ ~Contains(Block(n), "FILE_REQUEST")
<1>1. <<"block", 1>> \in Units
  BY DEF Units
<1>2. Block(n) \in Seq(Units) /\ Len(Block(n)) = n
  BY <1>1 DEF Block
<1>3. \A i \in 1..n : Block(n)[i][1] = "block"
  BY DEF Block
<1>4. ~Contains(Block(n), "FILE_REQUEST")
  <2> SUFFICES ASSUME NEW i \in 1..Len(Block(n)) PROVE Block(n)[i][1] # "FILE_REQUEST"
    BY DEF Contains
  <2>1. Block(n)[i][1] = "block"
    BY <1>2, <1>3
  <2> QED BY <2>1
<1> QED BY <1>2, <1>4

LEMMA BothUnits ==
    ASSUME NEW m \in {"init", "choice", "noauth", "request", "granted", "failed"}
    PROVE  /\ Both(m) \in Seq(Units) /\ Len(Both(m)) = 2 /\ Both(m) # <<>>
           /\ ~Contains(Both(m), "FILE_REQUEST")
<1>1. <<m, 1>> \in Units /\ <<m, 2>> \in Units
  BY DEF Units
<1>2. Both(m) \in Seq(Units) /\ Len(Both(m)) = 2
  BY <1>1 DEF Both
<1>3. Both(m)[1][1] = m /\ Both(m)[2][1] = m
  BY DEF Both
<1>4. Both(m) # <<>>
  BY <1>2
<1>5. ~Contains(Both(m), "FILE_REQUEST")
  <2> SUFFICES ASSUME NEW i \in 1..2 PROVE Both(m)[i][1] # "FILE_REQUEST"
    BY <1>2 DEF Contains
  <2>1. i = 1 \/ i = 2
    OBVIOUS
  <2>2. Both(m)[i][1] = m
    BY <1>3, <2>1
  <2> QED BY <2>2
<1> QED BY <1>2, <1>4, <1>5

\* A message appended.
LEMMA AppendUnit ==
    ASSUME NEW us \in Seq(Units), NEW m \in {"FILE_REQUEST", "FINISHED"}
    PROVE  /\ Append(us, <<m, 1>>) \in Seq(Units)
           /\ Append(us, <<m, 1>>) # <<>>
           /\ Len(Append(us, <<m, 1>>)) = Len(us) + 1
           /\ \A i \in 1..Len(us) : Append(us, <<m, 1>>)[i] = us[i]
           /\ Append(us, <<m, 1>>)[Len(us) + 1][1] = m
<1>1. PICK u \in Units : u = <<m, 1>> /\ u[1] = m
  <2>1. <<m, 1>> \in Units /\ <<m, 1>>[1] = m
    BY DEF Units
  <2> QED BY <2>1
<1>2. /\ Append(us, u) \in Seq(Units) /\ Append(us, u) # <<>>
      /\ Len(Append(us, u)) = Len(us) + 1
      /\ \A i \in 1..Len(us) : Append(us, u)[i] = us[i]
      /\ Append(us, u)[Len(us) + 1] = u
  <2>1. Append(us, u) \in Seq(Units) /\ Len(Append(us, u)) = Len(us) + 1
    BY AppendProperties
  <2>2. Append(us, u)[Len(us) + 1] = u
    BY AppendProperties
  <2>0. Len(us) \in Nat
    BY LenProperties
  <2>3. Append(us, u) # <<>>
    BY <2>0, <2>1
  <2>4. ASSUME NEW i \in 1..Len(us) PROVE Append(us, u)[i] = us[i]
    <3>1. i # Len(us) + 1
      BY <2>0
    <3> QED BY <2>0, <3>1, AppendProperties
  <2> QED BY <2>1, <2>2, <2>3, <2>4
<1> QED BY <1>1, <1>2

-----------------------------------------------------------------------------
(* Steps of one connection.                                                *)

\* The constants, as numbers.
LEMMA Sizes ==
    /\ NumBlocks \in Nat /\ NumBlocks > 0 /\ DownBlock \in Nat /\ DownBlock > 0
    /\ UpBlock \in Nat /\ UpBlock > 0 /\ Room \in Nat /\ Room > 1
    /\ NoServer \notin Servers
BY TorrentAssumption

\* The client ends of the other connections, and the activations of other clients,
\* stay as they are.
OthersStay(c, s) ==
    \A d \in Clients, o \in Servers : <<d, o>> # <<c, s>> => cl'[d][o] = cl[d][o]
ActStops ==
    /\ act' \in [Clients -> Servers \cup {NoServer}]
    /\ \A d \in Clients : act'[d] = act[d] \/ act'[d] = NoServer

\* What a step of one connection leaves as it was, and what it has to keep.
LEMMA LocalKeeps ==
    ASSUME TorrentInv, NEW c \in Clients, NEW s \in Servers,
           NEW e \in ClientEnds, NEW v \in ServerEnds, NEW w \in Wires,
           UNCHANGED <<servers, lists, known, status>>,
           remaining' \in [Clients -> Nat], downloaded' \in [Clients -> Nat],
           ActStops,
           cl' = [cl EXCEPT ![c][s] = e], sv' = [sv EXCEPT ![c][s] = v],
           net' = [net EXCEPT ![c][s] = w],
           e.state = "TC_SERVER_IDLE" \/ cl[c][s].state # "TC_SERVER_IDLE",
           status[c] = "run" => Connected(e, v, w)
    PROVE  /\ Types' /\ Running' /\ Connections'
           /\ cl'[c][s] = e /\ OthersStay(c, s)
<1> DEFINE wasC == cl
           wasS == sv
           wasN == net
<1>1. /\ cl \in [Clients -> [Servers -> ClientEnds]]
      /\ sv \in [Clients -> [Servers -> ServerEnds]]
      /\ net \in [Clients -> [Servers -> Wires]]
  BY DEF TorrentInv, Types
<1>2. /\ cl' \in [Clients -> [Servers -> ClientEnds]]
      /\ sv' \in [Clients -> [Servers -> ServerEnds]]
      /\ net' \in [Clients -> [Servers -> Wires]]
  <2> HIDE DEF ClientEnds, ServerEnds, Wires
  <2> QED BY <1>1
<1>3. /\ cl'[c][s] = e /\ sv'[c][s] = v /\ net'[c][s] = w
      /\ \A d \in Clients, o \in Servers : <<d, o>> # <<c, s>> =>
            cl'[d][o] = cl[d][o] /\ sv'[d][o] = sv[d][o] /\ net'[d][o] = net[d][o]
  <2> HIDE DEF ClientEnds, ServerEnds, Wires
  <2> QED BY <1>1
<1>4. Types'
  BY <1>2 DEF TorrentInv, Types, ActStops
<1>5. Running'
  <2> SUFFICES ASSUME NEW d \in Clients
               PROVE  /\ act'[d] # NoServer => status'[d] = "run"
                      /\ \A o \in Servers : o \notin known'[d] =>
                            cl'[d][o].state = "TC_SERVER_IDLE"
    BY DEF Running
  <2>1. act'[d] # NoServer => status'[d] = "run"
    BY DEF TorrentInv, Running, ActStops
  <2>2. ASSUME NEW o \in Servers, o \notin known'[d] PROVE cl'[d][o].state = "TC_SERVER_IDLE"
    <3>1. cl[d][o].state = "TC_SERVER_IDLE"
      BY <2>2 DEF TorrentInv, Running
    <3> QED BY <1>3, <3>1
  <2> QED BY <2>1, <2>2
<1>6. Connections'
  <2> SUFFICES ASSUME NEW d \in Clients, status'[d] = "run", NEW o \in Servers
               PROVE  Connected(cl'[d][o], sv'[d][o], net'[d][o])
    BY DEF Connections, Connected, Gone, Handshake, Asked, Exchanging, Exchanged, Told,
           Waits, Counts, Contains
  <2>1. CASE d = c /\ o = s
    BY <1>3, <2>1
  <2>2. CASE ~(d = c /\ o = s)
    BY <1>3, <2>2 DEF TorrentInv, Connections
  <2> QED BY <2>1, <2>2
<1> QED BY <1>3, <1>4, <1>5, <1>6 DEF OthersStay

\* A step that takes no block, and finishes with none.
LEMMA CountsStay ==
    ASSUME TorrentInv, UNCHANGED <<status, countVars>>,
           \A c \in Clients, s \in Servers :
              cl'[c][s].state \in {"TC_SERVER_TRANSFER", "TC_SERVER_FINISHED"}
              <=> cl[c][s].state \in {"TC_SERVER_TRANSFER", "TC_SERVER_FINISHED"}
    PROVE  Conserved'
<1>1. \A c \in Clients : UnderWay(c)' = UnderWay(c)
  BY DEF UnderWay
<1> QED BY <1>1 DEF TorrentInv, Conserved, BlocksConserved, countVars

-----------------------------------------------------------------------------
(* What a client does with its end of a connection.                        *)

HandshakeStates ==
    Asking \cup ToReply \cup Replied \cup {"TC_SEND", "TC_RECEIVE", "TC_SERVER_REQUEST"}

LEMMA StagesByState ==
    ASSUME NEW e \in ClientEnds, NEW v \in ServerEnds, NEW w \in Wires, Connected(e, v, w)
    PROVE  /\ e.state \in HandshakeStates => Gone(w) \/ Handshake(e, v, w)
           /\ e.state = "TC_SERVER_TRANSFER" =>
                 \/ Gone(w) \/ Asked(e, v, w) \/ Exchanging(e, v, w)
                 \/ Exchanged(e, v, w) \/ Told(e, v, w)
           /\ e.state = "TC_SERVER_FINISHED" =>
                 \/ Gone(w) \/ Exchanging(e, v, w)
                 \/ Exchanged(e, v, w) \/ Told(e, v, w)
BY DEF Connected, HandshakeStates, Handshake, Asked, Exchanging, Exchanged, Told, Counts,
       Asking, ToReply, Replied

\* A request of the handshake is put into the buffer.
LEMMA AskKeeps ==
    ASSUME NEW e \in ClientEnds, NEW v \in ServerEnds, NEW w \in Wires, Connected(e, v, w),
           e.state \in Asking, NEW m \in {"init", "request"},
           NEW f \in ClientEnds, f.state = "TC_SEND", f.next \in ToReply,
           f.buf = e.buf \o Both(m)
    PROVE  Connected(f, v, w)
<1>1. CASE Gone(w)
  BY <1>1 DEF Connected
<1>2. CASE Handshake(e, v, w)
  <2>1. /\ e.buf = <<>> /\ w.down = <<>> /\ (w.phase # "relay" => w.up = <<>>)
    BY <1>2 DEF Handshake, Asking, ToReply, Replied
  <2>2. f.buf = Both(m) /\ Len(f.buf) = 2 /\ f.buf # <<>> /\ ~Contains(f.buf, "FILE_REQUEST")
    <3>1. Both(m) \in Seq(Units) /\ Len(Both(m)) = 2 /\ Both(m) # <<>>
          /\ ~Contains(Both(m), "FILE_REQUEST")
      BY BothUnits
    <3>2. <<>> \o Both(m) = Both(m)
      BY <3>1, ConcatEmptySeq
    <3> QED BY <2>1, <3>1, <3>2
  <2>3. w.phase # "relay" => Len(w.up) + Len(f.buf) = 2
    <3> DEFINE a == Len(w.up)
               b == Len(f.buf)
    <3>1. w.up = <<>> => a = 0
      BY EmptyUnits
    <3>2. b = 2 /\ (w.phase # "relay" => a = 0)
      BY <2>1, <2>2, <3>1
    <3> HIDE DEF a, b
    <3>3. w.phase # "relay" => a + b = 2
      BY <3>2
    <3> QED BY <3>3 DEF a, b
  <2>4. Handshake(f, v, w)
    BY <1>2, <2>1, <2>2, <2>3 DEF Handshake
  <2> QED BY <2>4 DEF Connected
<1> QED BY <1>1, <1>2, StagesByState DEF HandshakeStates

\* It waits for the reply.
LEMMA WaitKeeps ==
    ASSUME NEW e \in ClientEnds, NEW v \in ServerEnds, NEW w \in Wires, Connected(e, v, w),
           NEW f \in ClientEnds, f.buf = e.buf,
           \/ e.state \in ToReply /\ f.state = "TC_RECEIVE" /\ f.next \in Replied
           \/ e.state \in Replied /\ f.state \in ToReply
    PROVE  Connected(f, v, w)
<1>1. CASE Gone(w)
  BY <1>1 DEF Connected
<1>2. CASE Handshake(e, v, w)
  <2>1. Handshake(f, v, w)
    BY <1>2 DEF Handshake, Asking, ToReply, Replied
  <2> QED BY <2>1 DEF Connected
<1> QED BY <1>1, <1>2, StagesByState DEF HandshakeStates

\* The reply is there, and nothing comes after it.
LEMMA ReplyKeeps ==
    ASSUME NEW e \in ClientEnds, NEW v \in ServerEnds, NEW w \in Wires, Connected(e, v, w),
           e.state \in Replied, Len(e.buf) >= 2,
           NEW f \in ClientEnds, f.buf = Rest(e.buf, 2),
           f.state \in Asking \cup {"TC_SERVER_REQUEST"}
    PROVE  Connected(f, v, w)
<1>1. CASE Gone(w)
  BY <1>1 DEF Connected
<1>2. CASE Handshake(e, v, w)
  <2>1. e.buf \in Seq(Units) /\ w.down \in Seq(Units)
    BY DEF ClientEnds, Wires
  <2>2. e.buf # <<>>
    BY <2>1, EmptyUnits
  <2>3. Len(e.buf) + Len(w.down) = 2 /\ (w.phase # "relay" => w.up = <<>>)
    BY <1>2, <2>2 DEF Handshake, Asking, ToReply, Replied
  <2>4. Len(e.buf) = 2 /\ w.down = <<>>
    <3> DEFINE a == Len(e.buf)
               b == Len(w.down)
    <3>1. a \in Nat /\ b \in Nat /\ (b = 0 => w.down = <<>>)
      BY <2>1, EmptyUnits
    <3>2. a >= 2 /\ a + b = 2
      BY <2>3
    <3> HIDE DEF a, b
    <3>3. a = 2 /\ b = 0
      BY <3>1, <3>2
    <3> QED BY <3>1, <3>3 DEF a
  <2>5. f.buf = <<>>
    <3>1. 2 \in 0..Len(e.buf)
      BY <2>4
    <3>2. f.buf \in Seq(Units) /\ Len(f.buf) = Len(e.buf) - 2
      BY <2>1, <3>1, CutUnits
    <3> QED BY <2>4, <3>2, EmptyUnits
  <2>6. Handshake(f, v, w)
    BY <1>2, <2>3, <2>4, <2>5 DEF Handshake
  <2> QED BY <2>6 DEF Connected
<1> QED BY <1>1, <1>2, StagesByState DEF HandshakeStates

LEMMA SendKeeps ==
    ASSUME NEW e \in ClientEnds, NEW v \in ServerEnds, NEW w \in Wires, Connected(e, v, w),
           e.state = "TC_SEND", w.phase # "reset", NEW n \in 1..Len(e.buf),
           NEW f \in ClientEnds, f.buf = Rest(e.buf, n), f.next = e.next,
           f.state = IF n = Len(e.buf) THEN e.next ELSE "TC_SEND",
           NEW x \in Wires, x.phase = w.phase, x.down = w.down,
           x.up = w.up \o SubSeq(e.buf, 1, n)
    PROVE  Connected(f, v, x)
<1>1. Handshake(e, v, w)
  BY StagesByState DEF HandshakeStates, Gone
<1>2. /\ e.next \in ToReply /\ w.down = <<>> /\ ~Contains(e.buf, "FILE_REQUEST")
      /\ w.phase # "relay" => Len(w.up) + Len(e.buf) = 2
      /\ ~Contains(w.up, "FILE_REQUEST") /\ Waits(v)
      /\ w.phase \in {"connecting", "init", "conn", "relay"}
      /\ w.phase # "relay" => v.state = "none"
  BY <1>1 DEF Handshake, Asking, ToReply, Replied
<1>3. e.buf \in Seq(Units) /\ w.up \in Seq(Units) /\ Len(e.buf) \in Nat /\ Len(w.up) \in Nat
  BY LenProperties DEF ClientEnds, Wires
<1>4. /\ SubSeq(e.buf, 1, n) \in Seq(Units) /\ Len(SubSeq(e.buf, 1, n)) = n
      /\ \A i \in 1..n : SubSeq(e.buf, 1, n)[i] = e.buf[i]
      /\ f.buf \in Seq(Units) /\ Len(f.buf) = Len(e.buf) - n
      /\ \A i \in 1..Len(e.buf) - n : f.buf[i] = e.buf[n + i]
  <2>1. n \in 0..Len(e.buf)
    BY <1>3
  <2> QED BY <1>3, <2>1, CutUnits
<1>5. ~Contains(SubSeq(e.buf, 1, n), "FILE_REQUEST")
  BY <1>2, <1>3, <1>4 DEF Contains
<1>6. ~Contains(f.buf, "FILE_REQUEST")
  <2> SUFFICES ASSUME NEW i \in 1..Len(f.buf) PROVE f.buf[i][1] # "FILE_REQUEST"
    BY DEF Contains
  <2>1. n + i \in 1..Len(e.buf) /\ f.buf[i] = e.buf[n + i]
    BY <1>3, <1>4
  <2> QED BY <1>2, <2>1 DEF Contains
<1>7. x.up \in Seq(Units) /\ Len(x.up) = Len(w.up) + n /\ ~Contains(x.up, "FILE_REQUEST")
  <2>1. /\ x.up \in Seq(Units) /\ Len(x.up) = Len(w.up) + Len(SubSeq(e.buf, 1, n))
        /\ Contains(x.up, "FILE_REQUEST") =>
              Contains(w.up, "FILE_REQUEST") \/ Contains(SubSeq(e.buf, 1, n), "FILE_REQUEST")
    <3> DEFINE us == SubSeq(e.buf, 1, n)
    <3>1. us \in Seq(Units) /\ w.up \in Seq(Units) /\ x.up = w.up \o us
      BY <1>3, <1>4
    <3> HIDE DEF us
    <3>2. /\ w.up \o us \in Seq(Units) /\ Len(w.up \o us) = Len(w.up) + Len(us)
          /\ \A k : Contains(w.up \o us, k) => Contains(w.up, k) \/ Contains(us, k)
      BY <3>1, JoinUnits
    <3> QED BY <3>1, <3>2 DEF us
  <2> QED BY <1>2, <1>4, <1>5, <2>1
<1>8. CASE n = Len(e.buf)
  <2>1. f.buf = <<>> /\ f.state \in ToReply
    BY <1>2, <1>3, <1>4, <1>8, EmptyUnits
  <2>2. x.phase # "relay" => Len(x.up) = 2
    BY <1>2, <1>7, <1>8
  <2>3. Handshake(f, v, x)
    BY <1>2, <1>7, <2>1, <2>2 DEF Handshake, ToReply
  <2> QED BY <2>3 DEF Connected
<1>9. CASE n # Len(e.buf)
  <2>1. f.buf # <<>> /\ f.state = "TC_SEND"
    <3>1. Len(f.buf) # 0
      BY <1>3, <1>4, <1>9
    <3> QED BY <1>4, <1>9, <3>1, EmptyUnits
  <2>2. x.phase # "relay" => Len(x.up) + Len(f.buf) = 2
    <3> DEFINE a == Len(w.up)
               b == Len(e.buf)
    <3>1. /\ a \in Nat /\ b \in Nat /\ (w.phase # "relay" => a + b = 2)
          /\ Len(x.up) = a + n /\ Len(f.buf) = b - n
      BY <1>2, <1>3, <1>4, <1>7
    <3> HIDE DEF a, b
    <3> QED BY <3>1
  <2>3. Handshake(f, v, x)
    BY <1>2, <1>6, <1>7, <2>1, <2>2 DEF Handshake
  <2> QED BY <2>3 DEF Connected
<1> QED BY <1>8, <1>9

LEMMA ReceiveKeeps ==
    ASSUME NEW e \in ClientEnds, NEW v \in ServerEnds, NEW w \in Wires, Connected(e, v, w),
           e.state = "TC_RECEIVE", NEW n \in 1..Len(w.down),
           NEW f \in ClientEnds, f.buf = e.buf \o SubSeq(w.down, 1, n), f.state = e.next,
           NEW x \in Wires, x.phase = w.phase, x.up = w.up, x.down = Rest(w.down, n)
    PROVE  Connected(f, v, x)
<1>1. e.buf \in Seq(Units) /\ w.down \in Seq(Units) /\ Len(e.buf) \in Nat /\ Len(w.down) \in Nat
  BY LenProperties DEF ClientEnds, Wires
<1>2. w.down # <<>>
  BY <1>1, EmptyUnits
<1>3. Handshake(e, v, w)
  BY <1>2, StagesByState DEF HandshakeStates, Gone
<1>4. /\ e.next \in Replied
      /\ Len(e.buf) + Len(w.down) = 2 /\ (w.phase # "relay" => w.up = <<>>)
      /\ ~Contains(w.up, "FILE_REQUEST") /\ Waits(v)
      /\ w.phase \in {"connecting", "init", "conn", "relay"}
      /\ w.phase # "relay" => v.state = "none"
  BY <1>2, <1>3 DEF Handshake, Asking, ToReply, Replied
<1>5. /\ SubSeq(w.down, 1, n) \in Seq(Units) /\ Len(SubSeq(w.down, 1, n)) = n
      /\ Len(x.down) = Len(w.down) - n
  <2>1. n \in 0..Len(w.down)
    BY <1>1
  <2> QED BY <1>1, <2>1, CutUnits
<1>6. Len(f.buf) = Len(e.buf) + n
  BY <1>1, <1>5, JoinUnits
<1>7. Len(f.buf) + Len(x.down) = 2
  <2> DEFINE a == Len(e.buf)
             b == Len(w.down)
  <2>1. a \in Nat /\ b \in Nat /\ a + b = 2 /\ Len(f.buf) = a + n /\ Len(x.down) = b - n
    BY <1>1, <1>4, <1>5, <1>6
  <2> HIDE DEF a, b
  <2> QED BY <2>1
<1>8. Handshake(f, v, x)
  BY <1>4, <1>7 DEF Handshake, Replied
<1> QED BY <1>8 DEF Connected

\* FILE_REQUEST is sent, after everything that was sent before.
LEMMA RequestKeeps ==
    ASSUME NEW e \in ClientEnds, NEW v \in ServerEnds, NEW w \in Wires, Connected(e, v, w),
           e.state = "TC_SERVER_REQUEST", w.phase = "relay",
           NEW f \in ClientEnds, f.state = "TC_SERVER_TRANSFER", f.ev = "IN",
           f.down = 0, f.up = 0,
           NEW x \in Wires, x.phase = w.phase, x.down = w.down,
           x.up = Append(w.up, <<"FILE_REQUEST", 1>>)
    PROVE  Connected(f, v, x)
<1>1. Handshake(e, v, w)
  BY StagesByState DEF HandshakeStates, Gone
<1>2. w.down = <<>> /\ ~Contains(w.up, "FILE_REQUEST") /\ Waits(v)
  BY <1>1 DEF Handshake, Asking, ToReply, Replied
<1>3. w.up \in Seq(Units) /\ Len(w.up) \in Nat
  BY LenProperties DEF Wires
<1>4. /\ x.up # <<>> /\ Len(x.up) = Len(w.up) + 1
      /\ \A i \in 1..Len(w.up) : x.up[i] = w.up[i]
      /\ x.up[Len(w.up) + 1][1] = "FILE_REQUEST"
  BY <1>3, AppendUnit
<1>5. ASSUME NEW i \in 1..Len(x.up)
      PROVE  x.up[i][1] = "FILE_REQUEST" <=> i = Len(x.up)
  <2>1. CASE i = Len(x.up)
    BY <1>4, <2>1
  <2>2. CASE i # Len(x.up)
    <3>1. i \in 1..Len(w.up)
      BY <1>3, <1>4, <2>2
    <3> QED BY <1>2, <1>4, <2>2, <3>1 DEF Contains
  <2> QED BY <2>1, <2>2
<1>6. Asked(f, v, x)
  BY <1>2, <1>4, <1>5 DEF Asked
<1> QED BY <1>6 DEF Connected

\* Units of a block are read, or sent.  A client that waits for the server to begin
\* has not begun either.
LEMMA DownKeeps ==
    ASSUME NEW e \in ClientEnds, NEW v \in ServerEnds, NEW w \in Wires, Connected(e, v, w),
           e.state = "TC_SERVER_TRANSFER", e.down < DownBlock,
           NEW n \in 1..Len(w.down), n <= DownBlock - e.down,
           NEW f \in ClientEnds, f.down = e.down + n, f.up = e.up,
           f.state = IF f.down >= DownBlock /\ f.up >= UpBlock THEN "TC_SERVER_FINISHED"
                     ELSE "TC_SERVER_TRANSFER",
           NEW x \in Wires, x.phase = w.phase, x.up = w.up, x.down = Rest(w.down, n)
    PROVE  Connected(f, v, x)
<1>1. /\ w.down \in Seq(Units) /\ Len(w.down) \in Nat /\ e.down \in Nat /\ e.up \in Nat
      /\ v.down \in Nat /\ v.up \in Nat /\ DownBlock \in Nat /\ UpBlock \in Nat
  BY LenProperties, Sizes DEF ClientEnds, ServerEnds, Wires
<1>2. w.down # <<>>
  BY <1>1, EmptyUnits
<1>3. Exchanging(e, v, w) \/ Exchanged(e, v, w) \/ Told(e, v, w)
  BY <1>2, StagesByState DEF Gone, Asked
<1>4. /\ x.down \in Seq(Units) /\ Len(x.down) = Len(w.down) - n
      /\ \A i \in 1..Len(w.down) - n : x.down[i] = w.down[n + i]
  <2>1. n \in 0..Len(w.down)
    BY <1>1
  <2> QED BY <1>1, <2>1, CutUnits
<1>5. /\ e.down <= v.up /\ v.up <= DownBlock /\ v.down <= e.up /\ e.up <= UpBlock
  BY <1>3 DEF Exchanging, Exchanged, Told, Counts
<1>6. f.down <= v.up => Counts(f, v)
  BY <1>1, <1>5 DEF Counts
<1>7. CASE Exchanging(e, v, w)
  <2>1. f.down <= v.up /\ Len(x.down) = v.up - f.down
    BY <1>1, <1>4, <1>7 DEF Exchanging
  <2>2. Exchanging(f, v, x)
    BY <1>6, <1>7, <2>1 DEF Exchanging
  <2> QED BY <2>2 DEF Connected
<1>8. CASE Exchanged(e, v, w)
  <2>1. f.down <= v.up /\ Len(x.down) = DownBlock - f.down
    BY <1>1, <1>4, <1>8 DEF Exchanged
  <2>2. Exchanged(f, v, x)
    BY <1>6, <1>8, <2>1 DEF Exchanged
  <2> QED BY <2>2 DEF Connected
<1>9. CASE Told(e, v, w)
  <2>1. f.down <= v.up /\ Len(x.down) = (DownBlock - f.down) + 1
    BY <1>1, <1>4, <1>9 DEF Told
  <2>2. x.down[Len(x.down)] = w.down[Len(w.down)]
    <3>1. Len(x.down) \in 1..Len(w.down) - n /\ n + Len(x.down) = Len(w.down)
      BY <1>1, <1>4, <2>1
    <3> QED BY <1>4, <3>1
  <2>3. Told(f, v, x)
    BY <1>6, <1>9, <2>1, <2>2 DEF Told
  <2> QED BY <2>3 DEF Connected
<1> QED BY <1>3, <1>7, <1>8, <1>9

LEMMA UpKeeps ==
    ASSUME NEW e \in ClientEnds, NEW v \in ServerEnds, NEW w \in Wires, Connected(e, v, w),
           e.state = "TC_SERVER_TRANSFER", e.ev = "OUT", w.phase = "relay", e.up < UpBlock,
           NEW n \in Nat \ {0}, n <= UpBlock - e.up,
           NEW f \in ClientEnds, f.down = e.down, f.up = e.up + n,
           f.state = IF f.down >= DownBlock /\ f.up >= UpBlock THEN "TC_SERVER_FINISHED"
                     ELSE "TC_SERVER_TRANSFER",
           NEW x \in Wires, x.phase = w.phase, x.up = w.up \o Block(n), x.down = w.down
    PROVE  Connected(f, v, x)
<1>1. /\ w.up \in Seq(Units) /\ Len(w.up) \in Nat /\ e.down \in Nat /\ e.up \in Nat
      /\ v.down \in Nat /\ v.up \in Nat /\ DownBlock \in Nat /\ UpBlock \in Nat
  BY LenProperties, Sizes DEF ClientEnds, ServerEnds, Wires
<1>2. Exchanging(e, v, w)
  <2>1. ~Exchanged(e, v, w) /\ ~Told(e, v, w)
    BY <1>1 DEF Exchanged, Told, Counts
  <2> QED BY <2>1, StagesByState DEF Gone, Asked
<1>3. Block(n) \in Seq(Units) /\ Len(Block(n)) = n
  BY BlockUnits
<1>4. Len(x.up) = Len(w.up) + n
  BY <1>1, <1>3, JoinUnits
<1>5. Counts(f, v)
  <2>1. e.down <= v.up /\ v.up <= DownBlock /\ v.down <= e.up /\ e.up <= UpBlock
    BY <1>2 DEF Exchanging, Counts
  <2>2. f.down <= v.up /\ v.down <= f.up /\ f.up <= UpBlock
    BY <1>1, <2>1
  <2>3. f.state = IF f.down = DownBlock /\ f.up = UpBlock THEN "TC_SERVER_FINISHED"
                  ELSE "TC_SERVER_TRANSFER"
    <3>1. f.down <= DownBlock /\ f.down \in Nat /\ f.up \in Nat
      BY <1>1, <2>1, <2>2
    <3>2. (f.down >= DownBlock <=> f.down = DownBlock) /\ (f.up >= UpBlock <=> f.up = UpBlock)
      BY <1>1, <2>2, <3>1
    <3> QED BY <3>2
  <2> QED BY <2>1, <2>2, <2>3 DEF Counts
<1>6. Len(x.up) = f.up - v.down
  BY <1>1, <1>2, <1>4 DEF Exchanging
<1>7. Exchanging(f, v, x)
  BY <1>2, <1>5, <1>6 DEF Exchanging
<1> QED BY <1>7 DEF Connected

\* What a client reads when it waits for FINISHED is that, and all of it.
LEMMA FinishedKeeps ==
    ASSUME NEW e \in ClientEnds, NEW v \in ServerEnds, NEW w \in Wires, Connected(e, v, w),
           e.state = "TC_SERVER_FINISHED", NEW n \in 1..Len(w.down),
           NEW f \in ClientEnds, f.state = "TC_SERVER_REQUEST",
           NEW x \in Wires, x.phase = w.phase, x.up = w.up, x.down = Rest(w.down, n)
    PROVE  /\ Contains(SubSeq(w.down, 1, n), "FINISHED")
           /\ e.down = DownBlock /\ e.up = UpBlock
           /\ v.down = UpBlock /\ v.up = DownBlock /\ v.state = "TS_IDLE"
           /\ Connected(f, v, x)
<1>1. /\ w.down \in Seq(Units) /\ Len(w.down) \in Nat /\ e.down \in Nat /\ e.up \in Nat
      /\ v.down \in Nat /\ v.up \in Nat /\ DownBlock \in Nat /\ UpBlock \in Nat
  BY LenProperties, Sizes DEF ClientEnds, ServerEnds, Wires
<1>2. w.down # <<>>
  BY <1>1, EmptyUnits
<1>3. Told(e, v, w)
  <2>1. ~Exchanging(e, v, w)
    BY <1>1 DEF Exchanging, Counts
  <2>2. ~Exchanged(e, v, w)
    BY <1>1 DEF Exchanged, Counts
  <2> QED BY <1>2, <2>1, <2>2, StagesByState DEF Gone
<1>4. e.down = DownBlock /\ e.up = UpBlock /\ Len(w.down) = 1 /\ n = 1
  BY <1>1, <1>3 DEF Told, Counts
<1>5. /\ SubSeq(w.down, 1, n)[1] = w.down[1] /\ Len(SubSeq(w.down, 1, n)) = 1
      /\ x.down \in Seq(Units) /\ Len(x.down) = 0
  <2>1. n \in 0..Len(w.down) /\ 1 \in 1..n
    BY <1>4
  <2>2. /\ Len(SubSeq(w.down, 1, n)) = n /\ Rest(w.down, n) \in Seq(Units)
        /\ Len(Rest(w.down, n)) = Len(w.down) - n
        /\ \A i \in 1..n : SubSeq(w.down, 1, n)[i] = w.down[i]
    BY <1>1, <2>1, CutUnits
  <2>3. SubSeq(w.down, 1, n)[1] = w.down[1]
    BY <2>1, <2>2
  <2>4. Len(w.down) - n = 0
    BY <1>4
  <2> QED BY <1>4, <2>2, <2>3, <2>4
<1>6. Contains(SubSeq(w.down, 1, n), "FINISHED")
  <2>1. w.down[1][1] = "FINISHED"
    BY <1>3, <1>4 DEF Told
  <2>2. 1 \in 1..Len(SubSeq(w.down, 1, n))
    BY <1>5
  <2> QED BY <1>5, <2>1, <2>2 DEF Contains
<1>7. x.down = <<>> /\ x.up = <<>> /\ ~Contains(x.up, "FILE_REQUEST")
  BY <1>3, <1>5, EmptyUnits DEF Told
<1>8. Handshake(f, v, x)
  BY <1>3, <1>7 DEF Told, Handshake, Waits
<1> QED BY <1>3, <1>4, <1>6, <1>8 DEF Told, Connected

-----------------------------------------------------------------------------
(* What a server does with its end of a connection.                        *)

LEMMA AcceptKeeps ==
    ASSUME NEW e \in ClientEnds, NEW v \in ServerEnds, NEW w \in Wires, Connected(e, v, w),
           v.state = "none", w.phase = "relay", NEW f \in ServerEnds, f.state = "TS_IDLE"
    PROVE  Connected(e, f, w)
<1>1. e.state = "TC_SERVER_IDLE" \/ Handshake(e, v, w) \/ Asked(e, v, w)
  BY DEF Connected, Gone, Exchanging, Exchanged, Told
<1>2. CASE Handshake(e, v, w)
  <2>1. Handshake(e, f, w)
    BY <1>2 DEF Handshake, Waits
  <2> QED BY <2>1 DEF Connected
<1>3. CASE Asked(e, v, w)
  <2>1. Asked(e, f, w)
    BY <1>3 DEF Asked, Waits
  <2> QED BY <2>1 DEF Connected
<1> QED BY <1>1, <1>2, <1>3 DEF Connected

\* A server finds the request in what it reads exactly when it reads to the end of
\* what the client sent.
LEMMA ReadKeeps ==
    ASSUME NEW e \in ClientEnds, NEW v \in ServerEnds, NEW w \in Wires, Connected(e, v, w),
           v.state \in {"TS_IDLE", "TS_REQUEST"}, NEW n \in 1..Len(w.up),
           NEW f \in ServerEnds,
           f.state = IF Contains(SubSeq(w.up, 1, n), "FILE_REQUEST") THEN "TS_TRANSFER"
                     ELSE "TS_REQUEST",
           v.state = "TS_IDLE" => f.down = 0 /\ f.up = 0,
           v.state = "TS_REQUEST" => f.down = v.down /\ f.up = v.up,
           NEW x \in Wires, x.phase = w.phase, x.up = Rest(w.up, n), x.down = w.down
    PROVE  Connected(e, f, x)
<1>1. w.up \in Seq(Units) /\ Len(w.up) \in Nat
  BY LenProperties DEF Wires
<1>2. w.up # <<>>
  BY <1>1, EmptyUnits
<1>3. e.state = "TC_SERVER_IDLE" \/ Handshake(e, v, w) \/ Asked(e, v, w)
  BY <1>2 DEF Connected, Gone, Exchanging, Exchanged, Told
<1>4. /\ Len(SubSeq(w.up, 1, n)) = n /\ \A i \in 1..n : SubSeq(w.up, 1, n)[i] = w.up[i]
      /\ x.up \in Seq(Units) /\ Len(x.up) = Len(w.up) - n
      /\ \A i \in 1..Len(w.up) - n : x.up[i] = w.up[n + i]
  <2>1. n \in 0..Len(w.up)
    BY <1>1
  <2> QED BY <1>1, <2>1, CutUnits
<1>5. ASSUME Waits(v) PROVE f.down = 0 /\ f.up = 0
  BY <1>5 DEF Waits
<1>6. ASSUME NEW i \in 1..Len(x.up)
      PROVE  /\ n + i \in 1..Len(w.up) /\ x.up[i] = w.up[n + i]
             /\ n + i = Len(w.up) <=> i = Len(x.up)
  BY <1>1, <1>4
<1>7. CASE Handshake(e, v, w)
  <2>1. ~Contains(w.up, "FILE_REQUEST") /\ Waits(v) /\ w.phase = "relay"
    BY <1>7 DEF Handshake
  <2>2. ~Contains(SubSeq(w.up, 1, n), "FILE_REQUEST")
    <3> SUFFICES ASSUME NEW i \in 1..n PROVE SubSeq(w.up, 1, n)[i][1] # "FILE_REQUEST"
      BY <1>4 DEF Contains
    <3>1. i \in 1..Len(w.up) /\ SubSeq(w.up, 1, n)[i] = w.up[i]
      BY <1>1, <1>4
    <3> QED BY <2>1, <3>1 DEF Contains
  <2>3. ~Contains(x.up, "FILE_REQUEST")
    BY <1>6, <2>1 DEF Contains
  <2>4. Waits(f)
    BY <1>5, <2>1, <2>2 DEF Waits
  <2>5. Handshake(e, f, x)
    BY <1>7, <2>1, <2>3, <2>4 DEF Handshake
  <2> QED BY <2>5 DEF Connected
<1>8. CASE Asked(e, v, w)
  <2>1. /\ \A i \in 1..Len(w.up) : w.up[i][1] = "FILE_REQUEST" <=> i = Len(w.up)
        /\ Waits(v) /\ w.phase = "relay" /\ w.down = <<>>
        /\ e.state = "TC_SERVER_TRANSFER" /\ e.down = 0 /\ e.up = 0 /\ e.ev = "IN"
    BY <1>8 DEF Asked
  <2>2. CASE n = Len(w.up)
    <3>1. Contains(SubSeq(w.up, 1, n), "FILE_REQUEST")
      <4>1. n \in 1..Len(SubSeq(w.up, 1, n)) /\ SubSeq(w.up, 1, n)[n] = w.up[n]
        BY <1>4
      <4> QED BY <2>1, <2>2, <4>1 DEF Contains
    <3>2. Len(x.up) = 0 /\ Len(x.down) = 0
      BY <1>1, <1>4, <2>1, <2>2, EmptyUnits
    <3>3. f.state = "TS_TRANSFER" /\ f.down = 0 /\ f.up = 0
      BY <1>5, <2>1, <3>1
    <3>4. Counts(e, f) /\ f.up < DownBlock
      BY <2>1, <3>3, Sizes DEF Counts
    <3>5. Len(x.down) = f.up - e.down /\ Len(x.up) = e.up - f.down
      BY <2>1, <3>2, <3>3
    <3>6. Exchanging(e, f, x)
      BY <2>1, <3>3, <3>4, <3>5 DEF Exchanging
    <3> QED BY <3>6 DEF Connected
  <2>3. CASE n # Len(w.up)
    <3>1. ~Contains(SubSeq(w.up, 1, n), "FILE_REQUEST")
      <4> SUFFICES ASSUME NEW i \in 1..n PROVE SubSeq(w.up, 1, n)[i][1] # "FILE_REQUEST"
        BY <1>4 DEF Contains
      <4>1. i \in 1..Len(w.up) /\ i # Len(w.up) /\ SubSeq(w.up, 1, n)[i] = w.up[i]
        BY <1>1, <1>4, <2>3
      <4> QED BY <2>1, <4>1
    <3>2. Waits(f)
      BY <1>5, <2>1, <3>1 DEF Waits
    <3>3. x.up # <<>>
      <4>1. Len(x.up) # 0
        BY <1>1, <1>4, <2>3
      <4> QED BY <1>4, <4>1, EmptyUnits
    <3>4. \A i \in 1..Len(x.up) : x.up[i][1] = "FILE_REQUEST" <=> i = Len(x.up)
      BY <1>6, <2>1
    <3>5. Asked(e, f, x)
      BY <2>1, <3>2, <3>3, <3>4 DEF Asked
    <3> QED BY <3>5 DEF Connected
  <2> QED BY <2>2, <2>3
<1> QED BY <1>3, <1>7, <1>8 DEF Connected

LEMMA ExchangeKeeps ==
    ASSUME NEW e \in ClientEnds, NEW v \in ServerEnds, NEW w \in Wires, Connected(e, v, w),
           v.state = "TS_TRANSFER", NEW n \in 0..Len(w.up), NEW m \in Nat,
           n = 0 \/ n <= UpBlock - v.down, m = 0 \/ m <= DownBlock - v.up,
           m # 0 => w.phase = "relay",
           NEW f \in ServerEnds, f.down = v.down + n, f.up = v.up + m,
           f.state = IF f.down >= UpBlock /\ f.up >= DownBlock THEN "TS_FINISHED"
                     ELSE "TS_TRANSFER",
           NEW x \in Wires, x.phase = w.phase, x.up = Rest(w.up, n),
           x.down = w.down \o Block(m)
    PROVE  Connected(e, f, x)
<1>1. /\ w.up \in Seq(Units) /\ Len(w.up) \in Nat /\ e.down \in Nat /\ e.up \in Nat
      /\ w.down \in Seq(Units) /\ Len(w.down) \in Nat
      /\ v.down \in Nat /\ v.up \in Nat /\ DownBlock \in Nat /\ UpBlock \in Nat
  BY LenProperties, Sizes DEF ClientEnds, ServerEnds, Wires
<1>2. Rest(w.up, n) \in Seq(Units) /\ Len(Rest(w.up, n)) = Len(w.up) - n
  BY <1>1, CutUnits
<1>3. Block(m) \in Seq(Units) /\ Len(Block(m)) = m
  BY BlockUnits
<1>4. /\ x.up \in Seq(Units) /\ Len(x.up) = Len(w.up) - n
      /\ x.down \in Seq(Units) /\ Len(x.down) = Len(w.down) + m
  <2>1. /\ w.down \o Block(m) \in Seq(Units)
        /\ Len(w.down \o Block(m)) = Len(w.down) + Len(Block(m))
    BY <1>1, <1>3, JoinUnits
  <2> QED BY <1>2, <1>3, <2>1
<1>5. e.state = "TC_SERVER_IDLE" \/ Gone(w) \/ Exchanging(e, v, w)
  BY DEF Connected, Handshake, Asked, Waits, Exchanged, Told
<1>6. CASE Gone(w)
  <2>1. Len(w.up) = 0 /\ Len(w.down) = 0 /\ m = 0
    BY <1>6, EmptyUnits DEF Gone
  <2>2. Len(x.up) = 0 /\ Len(x.down) = 0
    <3>1. n = 0
      BY <2>1
    <3> QED BY <1>4, <2>1, <3>1
  <2>3. Gone(x)
    BY <1>4, <1>6, <2>2, EmptyUnits DEF Gone
  <2> QED BY <2>3 DEF Connected
<1>7. CASE Exchanging(e, v, w)
  <2>1. /\ e.down <= v.up /\ v.up <= DownBlock /\ v.down <= e.up /\ e.up <= UpBlock
        /\ Len(w.down) = v.up - e.down /\ Len(w.up) = e.up - v.down
        /\ w.phase = "relay"
    BY <1>7 DEF Exchanging, Counts
  <2> DEFINE a == Len(w.up)
             b == Len(w.down)
             vd == v.down
             vu == v.up
             eu == e.up
             ed == e.down
             fd == f.down
             fu == f.up
  <2>0. /\ a \in Nat /\ b \in Nat /\ vd \in Nat /\ vu \in Nat /\ eu \in Nat /\ ed \in Nat
        /\ ed <= vu /\ vu <= DownBlock /\ vd <= eu /\ eu <= UpBlock
        /\ b = vu - ed /\ a = eu - vd /\ n \in 0..a
        /\ fd = vd + n /\ fu = vu + m
        /\ Len(x.down) = b + m /\ Len(x.up) = a - n
        /\ m = 0 \/ m <= DownBlock - vu
        /\ DownBlock \in Nat /\ UpBlock \in Nat
    BY <1>1, <1>4, <2>1
  <2>2. e.down <= f.up /\ f.up <= DownBlock /\ f.down <= e.up /\ f.down \in Nat /\ f.up \in Nat
    <3> HIDE DEF a, b, vd, vu, eu, ed, fd, fu
    <3>1. ed <= fu /\ fu <= DownBlock /\ fd <= eu /\ fd \in Nat /\ fu \in Nat
      BY <2>0
    <3> QED BY <3>1 DEF eu, ed, fd, fu
  <2>3. Len(x.down) = f.up - e.down /\ Len(x.up) = e.up - f.down
    <3> HIDE DEF a, b, vd, vu, eu, ed, fd, fu
    <3>1. Len(x.down) = fu - ed /\ Len(x.up) = eu - fd
      BY <2>0
    <3> QED BY <3>1 DEF eu, ed, fd, fu
  <2> HIDE DEF a, b, vd, vu, eu, ed, fd, fu
  <2>4. Counts(e, f)
    BY <1>7, <2>1, <2>2 DEF Exchanging, Counts
  <2>5. CASE f.down >= UpBlock /\ f.up >= DownBlock
    <3>1. f.down = UpBlock /\ f.up = DownBlock /\ e.up = UpBlock
      <4>1. fd <= eu /\ fu <= DownBlock /\ fd >= UpBlock /\ fu >= DownBlock
        BY <2>2, <2>5 DEF eu, fd, fu
      <4>2. fd = UpBlock /\ fu = DownBlock /\ eu = UpBlock
        BY <2>0, <4>1
      <4> QED BY <4>2 DEF eu, fd, fu
    <3>2. Len(x.up) = 0 /\ Len(x.down) = DownBlock - e.down
      BY <1>1, <2>3, <3>1
    <3>3. x.up = <<>>
      BY <1>4, <3>2, EmptyUnits
    <3>4. Exchanged(e, f, x)
      BY <2>1, <2>4, <2>5, <3>1, <3>2, <3>3 DEF Exchanged
    <3> QED BY <3>4 DEF Connected
  <2>6. CASE ~(f.down >= UpBlock /\ f.up >= DownBlock)
    <3>1. f.up < DownBlock \/ f.down < UpBlock
      BY <1>1, <2>2, <2>6
    <3>2. Exchanging(e, f, x)
      BY <2>1, <2>3, <2>4, <2>6, <3>1 DEF Exchanging
    <3> QED BY <3>2 DEF Connected
  <2> QED BY <2>5, <2>6
<1> QED BY <1>5, <1>6, <1>7 DEF Connected

LEMMA SayKeeps ==
    ASSUME NEW e \in ClientEnds, NEW v \in ServerEnds, NEW w \in Wires, Connected(e, v, w),
           v.state = "TS_FINISHED", w.phase = "relay",
           NEW f \in ServerEnds, f.down = v.down, f.up = v.up, f.state = "TS_IDLE",
           NEW x \in Wires, x.phase = w.phase, x.up = w.up,
           x.down = Append(w.down, <<"FINISHED", 1>>)
    PROVE  Connected(e, f, x)
<1>1. w.down \in Seq(Units) /\ Len(w.down) \in Nat
  BY LenProperties DEF Wires
<1>2. Len(x.down) = Len(w.down) + 1 /\ x.down[Len(x.down)][1] = "FINISHED"
  BY <1>1, AppendUnit
<1>3. e.state = "TC_SERVER_IDLE" \/ Exchanged(e, v, w)
  BY DEF Connected, Gone, Handshake, Asked, Waits, Exchanging, Told
<1>4. CASE Exchanged(e, v, w)
  <2>1. Told(e, f, x)
    BY <1>2, <1>4 DEF Exchanged, Told, Counts
  <2> QED BY <2>1 DEF Connected
<1> QED BY <1>3, <1>4 DEF Connected

-----------------------------------------------------------------------------
(* What the network and the proxy do with a connection.                    *)

LEMMA ConnectKeeps ==
    ASSUME NEW e \in ClientEnds, NEW v \in ServerEnds, NEW w \in Wires, Connected(e, v, w),
           w.phase = "connecting",
           NEW x \in Wires, x.phase \in {"init", "relay"}, x.up = w.up, x.down = w.down
    PROVE  Connected(e, v, x)
<1>1. e.state = "TC_SERVER_IDLE" \/ Handshake(e, v, w)
  BY DEF Connected, Gone, Asked, Exchanging, Exchanged, Told
<1>2. CASE Handshake(e, v, w)
  <2>1. Handshake(e, v, x)
    BY <1>2 DEF Handshake
  <2> QED BY <2>1 DEF Connected
<1> QED BY <1>1, <1>2 DEF Connected

\* The proxy answers a whole request of a client that waits for it.
LEMMA ProxyKeeps ==
    ASSUME NEW e \in ClientEnds, NEW v \in ServerEnds, NEW w \in Wires, Connected(e, v, w),
           w.phase \in {"init", "conn"}, Len(w.up) >= 2,
           NEW m \in {"choice", "noauth", "granted", "failed"},
           NEW x \in Wires, x.phase \in {"init", "conn", "relay"},
           x.up = Rest(w.up, 2), x.down = Both(m)
    PROVE  Connected(e, v, x)
<1>1. e.state = "TC_SERVER_IDLE" \/ Handshake(e, v, w)
  BY DEF Connected, Gone, Asked, Exchanging, Exchanged, Told
<1>2. /\ w.up \in Seq(Units) /\ Len(w.up) \in Nat /\ e.buf \in Seq(Units) /\ Len(e.buf) \in Nat
      /\ w.up # <<>> /\ (e.buf # <<>> => Len(e.buf) # 0) /\ Len(<<>>) = 0
  BY EmptyUnits DEF Wires, ClientEnds
<1>3. Both(m) \in Seq(Units) /\ Len(Both(m)) = 2
  BY BothUnits
<1>4. CASE Handshake(e, v, w)
  <2>1. e.state # "TC_SEND"
    <3> SUFFICES ASSUME e.state = "TC_SEND" PROVE FALSE
      OBVIOUS
    <3>1. e.buf # <<>> /\ Len(w.up) + Len(e.buf) = 2
      BY <1>4 DEF Handshake, Asking, ToReply, Replied
    <3> DEFINE a == Len(w.up)
               b == Len(e.buf)
    <3>2. a \in Nat /\ b \in Nat /\ b # 0 /\ a >= 2 /\ a + b = 2
      BY <1>2, <3>1
    <3> HIDE DEF a, b
    <3> QED BY <3>2
  <2>2. /\ e.state \in ToReply \cup Replied \cup {"TC_RECEIVE"}
        /\ e.state = "TC_RECEIVE" => e.next \in Replied
        /\ e.buf = <<>> /\ w.down = <<>> /\ Len(w.up) = 2
        /\ w.phase \in {"init", "conn"} /\ v.state = "none"
    BY <1>2, <1>4, <2>1 DEF Handshake
  <2>3. x.up = <<>>
    <3>1. 2 \in 0..Len(w.up)
      BY <2>2
    <3>2. x.up \in Seq(Units) /\ Len(x.up) = Len(w.up) - 2
      BY <1>2, <3>1, CutUnits
    <3> QED BY <2>2, <3>2, EmptyUnits
  <2>4. Len(e.buf) + Len(x.down) = 2
    <3>1. Len(e.buf) = 0 /\ Len(x.down) = 2
      BY <1>2, <1>3, <2>2
    <3> QED BY <3>1
  <2>5. Handshake(e, v, x)
    BY <2>2, <2>3, <2>4, EmptyUnits DEF Handshake, Waits
  <2> QED BY <2>5 DEF Connected
<1> QED BY <1>1, <1>4 DEF Connected

-----------------------------------------------------------------------------
(* The actions of one connection.                                          *)

LEMMA Here ==
    ASSUME TorrentInv, NEW c \in Clients, NEW s \in Servers
    PROVE  /\ cl[c][s] \in ClientEnds /\ sv[c][s] \in ServerEnds /\ net[c][s] \in Wires
           /\ cl = [cl EXCEPT ![c][s] = cl[c][s]]
           /\ sv = [sv EXCEPT ![c][s] = sv[c][s]]
           /\ net = [net EXCEPT ![c][s] = net[c][s]]
           /\ act[c] = s => status[c] = "run"
           /\ status[c] = "run" => Connected(cl[c][s], sv[c][s], net[c][s])
<1>1. /\ cl \in [Clients -> [Servers -> ClientEnds]]
      /\ sv \in [Clients -> [Servers -> ServerEnds]]
      /\ net \in [Clients -> [Servers -> Wires]]
  BY DEF TorrentInv, Types
<1>2. /\ cl = [cl EXCEPT ![c][s] = cl[c][s]]
      /\ sv = [sv EXCEPT ![c][s] = sv[c][s]]
      /\ net = [net EXCEPT ![c][s] = net[c][s]]
  <2> HIDE DEF ClientEnds, ServerEnds, Wires
  <2> QED BY <1>1
<1>3. act[c] = s => status[c] = "run"
  BY Sizes DEF TorrentInv, Running
<1> QED BY <1>1, <1>2, <1>3 DEF TorrentInv, Connections

\* A step of one connection that takes no block, and finishes with none.
LEMMA OneConnection ==
    ASSUME TorrentInv, NEW c \in Clients, NEW s \in Servers,
           NEW e \in ClientEnds, NEW v \in ServerEnds, NEW w \in Wires,
           UNCHANGED <<servers, lists, known, status, countVars>>,
           act' = act \/ act' = [act EXCEPT ![c] = NoServer],
           cl' = [cl EXCEPT ![c][s] = e], sv' = [sv EXCEPT ![c][s] = v],
           net' = [net EXCEPT ![c][s] = w],
           e.state = "TC_SERVER_IDLE" \/ cl[c][s].state # "TC_SERVER_IDLE",
           status[c] = "run" => Connected(e, v, w),
           e.state \in {"TC_SERVER_TRANSFER", "TC_SERVER_FINISHED"}
           <=> cl[c][s].state \in {"TC_SERVER_TRANSFER", "TC_SERVER_FINISHED"}
    PROVE  TorrentInv'
<1>1. /\ act \in [Clients -> Servers \cup {NoServer}]
      /\ remaining \in [Clients -> Nat] /\ downloaded \in [Clients -> Nat]
  BY DEF TorrentInv, Types
<1>2. ActStops
  BY <1>1 DEF ActStops
<1>3. remaining' \in [Clients -> Nat] /\ downloaded' \in [Clients -> Nat]
  BY <1>1 DEF countVars
<1>4. /\ Types' /\ Running' /\ Connections'
      /\ cl'[c][s] = e /\ OthersStay(c, s)
  BY <1>2, <1>3, LocalKeeps
<1>5. \A d \in Clients, o \in Servers :
         cl'[d][o].state \in {"TC_SERVER_TRANSFER", "TC_SERVER_FINISHED"}
         <=> cl[d][o].state \in {"TC_SERVER_TRANSFER", "TC_SERVER_FINISHED"}
  <2> SUFFICES ASSUME NEW d \in Clients, NEW o \in Servers
               PROVE  cl'[d][o].state \in {"TC_SERVER_TRANSFER", "TC_SERVER_FINISHED"}
                      <=> cl[d][o].state \in {"TC_SERVER_TRANSFER", "TC_SERVER_FINISHED"}
    OBVIOUS
  <2>1. CASE d = c /\ o = s
    BY <1>4, <2>1
  <2>2. CASE ~(d = c /\ o = s)
    BY <1>4, <2>2 DEF OthersStay
  <2> QED BY <2>1, <2>2
<1>6. Conserved'
  BY <1>5, CountsStay
<1> QED BY <1>4, <1>6 DEF TorrentInv

\* One that only the client takes part in.
LEMMA OneClientEnd ==
    ASSUME TorrentInv, NEW c \in Clients, NEW s \in Servers, NEW e \in ClientEnds,
           UNCHANGED <<servers, lists, known, status, countVars, sv, net>>,
           act' = act \/ act' = [act EXCEPT ![c] = NoServer],
           cl' = [cl EXCEPT ![c][s] = e],
           e.state = "TC_SERVER_IDLE" \/ cl[c][s].state # "TC_SERVER_IDLE",
           Connected(e, sv[c][s], net[c][s]),
           e.state \in {"TC_SERVER_TRANSFER", "TC_SERVER_FINISHED"}
           <=> cl[c][s].state \in {"TC_SERVER_TRANSFER", "TC_SERVER_FINISHED"}
    PROVE  TorrentInv'
<1>1. PICK v \in ServerEnds, w \in Wires : v = sv[c][s] /\ w = net[c][s]
  BY Here
<1>2. /\ UNCHANGED <<servers, lists, known, status, countVars>>
      /\ sv' = [sv EXCEPT ![c][s] = v] /\ net' = [net EXCEPT ![c][s] = w]
  BY <1>1, Here
<1>3. Connected(e, v, w)
  BY <1>1
<1> QED BY <1>2, <1>3, OneConnection

LEMMA SocksRequestKeeps ==
    ASSUME TorrentInv, NEW c \in Clients, NEW s \in Servers, SocksRequest(c, s)
    PROVE  TorrentInv'
<1> DEFINE e == cl[c][s]
<1>1. PICK m \in {"init", "request"}, q \in ToReply :
         /\ act[c] = s /\ e.state \in Asking /\ UNCHANGED net
         /\ Goes(c, s, [e EXCEPT !.state = "TC_SEND", !.next = q,
                            !.buf = @ \o Both(m), !.ev = "OUT"])
  BY DEF SocksRequest, Activated, Asking, ToReply
<1> DEFINE f == [e EXCEPT !.state = "TC_SEND", !.next = q, !.buf = @ \o Both(m), !.ev = "OUT"]
<1>2. /\ e \in ClientEnds /\ e.buf \in Seq(Units)
      /\ status[c] = "run" /\ Connected(e, sv[c][s], net[c][s])
  BY <1>1, Here DEF ClientEnds
<1>3. e.buf \o Both(m) \in Seq(Units)
  BY <1>2, BothUnits, JoinUnits
<1>4. /\ f \in ClientEnds /\ f.state = "TC_SEND" /\ f.next \in ToReply
      /\ f.buf = e.buf \o Both(m)
  BY <1>2, <1>3 DEF ClientEnds, ToReply
<1>5. /\ cl' = [cl EXCEPT ![c][s] = f]
      /\ UNCHANGED <<servers, lists, known, status, countVars, act, sv, net>>
  BY <1>1 DEF Goes, exceptOne, authVars, countVars
<1>6. sv[c][s] \in ServerEnds /\ net[c][s] \in Wires
  BY Here
<1> HIDE DEF f
<1>7. Connected(f, sv[c][s], net[c][s])
  BY <1>1, <1>2, <1>4, <1>6, AskKeeps
<1>8. /\ UNCHANGED <<servers, lists, known, status, countVars, sv, net>> /\ act' = act
      /\ cl' = [cl EXCEPT ![c][s] = f] /\ e.state # "TC_SERVER_IDLE"
      /\ f.state \in {"TC_SERVER_TRANSFER", "TC_SERVER_FINISHED"}
         <=> e.state \in {"TC_SERVER_TRANSFER", "TC_SERVER_FINISHED"}
  BY <1>1, <1>4, <1>5 DEF Asking
<1> QED BY <1>4, <1>7, <1>8, OneClientEnd

LEMMA SocksToReplyKeeps ==
    ASSUME TorrentInv, NEW c \in Clients, NEW s \in Servers, SocksToReply(c, s)
    PROVE  TorrentInv'
<1> DEFINE e == cl[c][s]
<1>1. PICK q \in Replied :
         /\ act[c] = s /\ e.state \in ToReply /\ UNCHANGED net
         /\ Goes(c, s, [e EXCEPT !.state = "TC_RECEIVE", !.ev = "IN", !.next = q])
  BY DEF SocksToReply, Activated, Replied, ToReply
<1> DEFINE f == [e EXCEPT !.state = "TC_RECEIVE", !.ev = "IN", !.next = q]
<1>2. e \in ClientEnds /\ status[c] = "run" /\ Connected(e, sv[c][s], net[c][s])
  BY <1>1, Here
<1>3. f \in ClientEnds /\ f.state = "TC_RECEIVE" /\ f.next \in Replied /\ f.buf = e.buf
  BY <1>2 DEF ClientEnds, Replied
<1>4. /\ cl' = [cl EXCEPT ![c][s] = f]
      /\ UNCHANGED <<servers, lists, known, status, countVars, act, sv, net>>
  BY <1>1 DEF Goes, exceptOne, authVars, countVars
<1>5. sv[c][s] \in ServerEnds /\ net[c][s] \in Wires
  BY Here
<1> HIDE DEF f
<1>6. Connected(f, sv[c][s], net[c][s])
  BY <1>1, <1>2, <1>3, <1>5, WaitKeeps
<1>7. /\ UNCHANGED <<servers, lists, known, status, countVars, sv, net>> /\ act' = act
      /\ cl' = [cl EXCEPT ![c][s] = f] /\ e.state # "TC_SERVER_IDLE"
      /\ f.state \in {"TC_SERVER_TRANSFER", "TC_SERVER_FINISHED"}
         <=> e.state \in {"TC_SERVER_TRANSFER", "TC_SERVER_FINISHED"}
  BY <1>1, <1>3, <1>4 DEF ToReply
<1> QED BY <1>3, <1>6, <1>7, OneClientEnd

\* The two ways on from a reply: back for more of it, or further.
LEMMA BackKeeps ==
    ASSUME TorrentInv, NEW c \in Clients, NEW s \in Servers, act[c] = s, UNCHANGED net,
           cl[c][s].state \in Replied, NEW q \in ToReply,
           Goes(c, s, [cl[c][s] EXCEPT !.state = q])
    PROVE  TorrentInv'
<1> DEFINE e == cl[c][s]
           f == [e EXCEPT !.state = q]
<1>1. e \in ClientEnds /\ Connected(e, sv[c][s], net[c][s])
  BY Here
<1>2. f \in ClientEnds /\ f.state \in ToReply /\ f.buf = e.buf
  BY <1>1 DEF ClientEnds
<1>3. /\ cl' = [cl EXCEPT ![c][s] = f]
      /\ UNCHANGED <<servers, lists, known, status, countVars, act, sv>>
  BY DEF Goes, exceptOne, authVars, countVars
<1>4. sv[c][s] \in ServerEnds /\ net[c][s] \in Wires
  BY Here
<1> HIDE DEF f
<1>5. Connected(f, sv[c][s], net[c][s])
  BY <1>1, <1>2, <1>4, WaitKeeps
<1>6. /\ UNCHANGED <<servers, lists, known, status, countVars, sv, net>> /\ act' = act
      /\ cl' = [cl EXCEPT ![c][s] = f] /\ e.state # "TC_SERVER_IDLE"
      /\ f.state \in {"TC_SERVER_TRANSFER", "TC_SERVER_FINISHED"}
         <=> e.state \in {"TC_SERVER_TRANSFER", "TC_SERVER_FINISHED"}
  BY <1>2, <1>3 DEF ToReply, Replied
<1> QED BY <1>2, <1>5, <1>6, OneClientEnd

LEMMA OnKeeps ==
    ASSUME TorrentInv, NEW c \in Clients, NEW s \in Servers, act[c] = s, UNCHANGED net,
           cl[c][s].state \in Replied, Len(cl[c][s].buf) >= 2,
           NEW st \in Asking \cup {"TC_SERVER_REQUEST"}, NEW ev \in {"IN", "OUT"},
           NEW q \in ToReply \cup Replied \cup {"TC_SERVER_IDLE", "TC_SERVER_REQUEST"},
           NEW f, f = [cl[c][s] EXCEPT !.state = st, !.ev = ev, !.next = q,
                                       !.buf = Rest(cl[c][s].buf, 2)],
           Goes(c, s, f)
    PROVE  TorrentInv'
<1> DEFINE e == cl[c][s]
<1>1. e \in ClientEnds /\ e.buf \in Seq(Units) /\ Connected(e, sv[c][s], net[c][s])
  BY Here DEF ClientEnds
<1>2. Rest(e.buf, 2) \in Seq(Units)
  <2>1. 2 \in 0..Len(e.buf)
    BY <1>1, LenProperties
  <2> QED BY <1>1, <2>1, CutUnits
<1>3. f \in ClientEnds /\ f.buf = Rest(e.buf, 2) /\ f.state = st
  <2>1. PICK b \in Seq(Units) : b = Rest(e.buf, 2)
    BY <1>2
  <2>2. f = [e EXCEPT !.state = st, !.ev = ev, !.next = q, !.buf = b]
    BY <2>1
  <2>3. f \in ClientEnds /\ f.buf = b /\ f.state = st
    BY <1>1, <2>2 DEF ClientEnds, AtServerStates
  <2> QED BY <2>1, <2>3
<1>4. /\ cl' = [cl EXCEPT ![c][s] = f]
      /\ UNCHANGED <<servers, lists, known, status, countVars, act, sv>>
  BY DEF Goes, exceptOne, authVars, countVars
<1>5. sv[c][s] \in ServerEnds /\ net[c][s] \in Wires
  BY Here
<1>6. Connected(f, sv[c][s], net[c][s])
  BY <1>1, <1>3, <1>5, ReplyKeeps
<1>7. /\ UNCHANGED <<servers, lists, known, status, countVars, sv, net>> /\ act' = act
      /\ cl' = [cl EXCEPT ![c][s] = f] /\ e.state # "TC_SERVER_IDLE"
      /\ f.state \in {"TC_SERVER_TRANSFER", "TC_SERVER_FINISHED"}
         <=> e.state \in {"TC_SERVER_TRANSFER", "TC_SERVER_FINISHED"}
  BY <1>3, <1>4 DEF Asking, Replied
<1> QED BY <1>3, <1>6, <1>7, OneClientEnd

LEMMA StopsKeeps ==
    ASSUME TorrentInv, NEW c \in Clients, NEW s \in Servers, act[c] = s,
           Ends(c, s, cl[c][s]), UNCHANGED <<net, countVars>>
    PROVE  TorrentInv'
<1>1. /\ cl' = [cl EXCEPT ![c][s] = cl[c][s]] /\ act' = [act EXCEPT ![c] = NoServer]
      /\ UNCHANGED <<servers, lists, known, status, countVars, sv, net>>
  BY DEF Ends, exceptOne, authVars, countVars
<1>2. PICK e \in ClientEnds : e = cl[c][s]
  BY Here
<1>3. Connected(e, sv[c][s], net[c][s])
  BY <1>2, Here
<1>4. /\ cl' = [cl EXCEPT ![c][s] = e]
      /\ e.state = "TC_SERVER_IDLE" \/ cl[c][s].state # "TC_SERVER_IDLE"
      /\ e.state \in {"TC_SERVER_TRANSFER", "TC_SERVER_FINISHED"}
         <=> cl[c][s].state \in {"TC_SERVER_TRANSFER", "TC_SERVER_FINISHED"}
  BY <1>1, <1>2
<1> QED BY <1>1, <1>3, <1>4, OneClientEnd

LEMMA SocksReplyInitKeeps ==
    ASSUME TorrentInv, NEW c \in Clients, NEW s \in Servers, SocksReplyInit(c, s)
    PROVE  TorrentInv'
<1> DEFINE e == cl[c][s]
<1>1. act[c] = s /\ e.state = "TC_SOCKS_REPLY_INIT" /\ UNCHANGED net
  BY DEF SocksReplyInit, Activated
<1>2. e \in ClientEnds
  BY Here
<1>3. CASE Goes(c, s, [e EXCEPT !.state = "TC_SOCKS_TOREPLY_INIT"])
  BY <1>1, <1>3, BackKeeps DEF Replied, ToReply
<1>4. CASE /\ Len(e.buf) >= 2
           /\ Goes(c, s, [e EXCEPT !.state = "TC_SOCKS_REQUEST_CONN", !.buf = Rest(@, 2)])
  <2> DEFINE f == [e EXCEPT !.state = "TC_SOCKS_REQUEST_CONN", !.buf = Rest(@, 2)]
  <2>1. /\ "TC_SOCKS_REQUEST_CONN" \in Asking /\ e.ev \in {"IN", "OUT"}
        /\ e.next \in ToReply \cup Replied \cup {"TC_SERVER_IDLE", "TC_SERVER_REQUEST"}
        /\ f = [e EXCEPT !.state = "TC_SOCKS_REQUEST_CONN", !.ev = e.ev, !.next = e.next,
                         !.buf = Rest(e.buf, 2)]
    BY <1>2 DEF ClientEnds, Asking
  <2>2. e.state \in Replied
    BY <1>1 DEF Replied
  <2>3. Goes(c, s, f)
    BY <1>4
  <2> HIDE DEF f
  <2> QED BY <1>1, <1>4, <2>1, <2>2, <2>3, OnKeeps
<1>5. CASE Ends(c, s, e) /\ UNCHANGED countVars
  BY <1>1, <1>5, StopsKeeps
<1> QED BY <1>3, <1>4, <1>5 DEF SocksReplyInit

LEMMA SendStepKeeps ==
    ASSUME TorrentInv, NEW c \in Clients, NEW s \in Servers, Send(c, s)
    PROVE  TorrentInv'
<1> DEFINE e == cl[c][s]
           w == net[c][s]
           n == Least(Len(e.buf), Room - Len(w.up))
           f == [e EXCEPT !.buf = Rest(@, n),
                          !.state = IF n = Len(e.buf) THEN e.next ELSE "TC_SEND"]
           x == [w EXCEPT !.up = @ \o SubSeq(e.buf, 1, n)]
<1>1. /\ act[c] = s /\ e.state = "TC_SEND" /\ w.phase \in {"init", "conn", "relay"} /\ n > 0
      /\ net' = [net EXCEPT ![c][s].up = @ \o SubSeq(e.buf, 1, n)] /\ Goes(c, s, f)
  BY DEF Send, Activated
<1>2. /\ e \in ClientEnds /\ w \in Wires /\ sv[c][s] \in ServerEnds
      /\ status[c] = "run" /\ Connected(e, sv[c][s], w)
      /\ net \in [Clients -> [Servers -> Wires]]
  BY <1>1, Here DEF TorrentInv, Types
<1>3. e.buf \in Seq(Units) /\ w.up \in Seq(Units) /\ Len(e.buf) \in Nat /\ Len(w.up) \in Nat
  BY <1>2, LenProperties DEF ClientEnds, Wires
<1>4. n \in 1..Len(e.buf)
  <2> DEFINE a == Len(e.buf)
             b == Room - Len(w.up)
  <2>1. a \in Nat /\ b \in Int
    BY <1>3, Sizes
  <2>2. Least(a, b) > 0
    BY <1>1
  <2> HIDE DEF a, b
  <2>3. Least(a, b) \in 1..a
    BY <2>1, <2>2 DEF Least
  <2> QED BY <2>3 DEF a, b
<1>5. /\ SubSeq(e.buf, 1, n) \in Seq(Units) /\ Rest(e.buf, n) \in Seq(Units)
  <2> HIDE DEF n
  <2>1. n \in 0..Len(e.buf)
    BY <1>3, <1>4
  <2> QED BY <1>3, <2>1, CutUnits
<1> HIDE DEF n
<1>6. w.up \o SubSeq(e.buf, 1, n) \in Seq(Units)
  BY <1>3, <1>5, JoinUnits
<1>7. x \in Wires /\ x.phase = w.phase /\ x.down = w.down /\ x.up = w.up \o SubSeq(e.buf, 1, n)
  BY <1>2, <1>6 DEF Wires
<1>8. e.next \in ToReply \cup Replied \cup {"TC_SERVER_IDLE", "TC_SERVER_REQUEST"}
  BY <1>2 DEF ClientEnds
<1>9. /\ f \in ClientEnds /\ f.buf = Rest(e.buf, n) /\ f.next = e.next
      /\ f.state = IF n = Len(e.buf) THEN e.next ELSE "TC_SEND"
  <2>1. PICK b \in Seq(Units) : b = Rest(e.buf, n)
    BY <1>5
  <2>2. PICK st \in ToReply \cup Replied \cup {"TC_SERVER_IDLE", "TC_SERVER_REQUEST", "TC_SEND"} :
           st = IF n = Len(e.buf) THEN e.next ELSE "TC_SEND"
    BY <1>8
  <2>3. f = [e EXCEPT !.buf = b, !.state = st]
    BY <2>1, <2>2
  <2> HIDE DEF f
  <2>4. f \in ClientEnds /\ f.buf = b /\ f.next = e.next /\ f.state = st
    BY <1>2, <2>3 DEF ClientEnds, AtServerStates
  <2> QED BY <2>1, <2>2, <2>4
<1>10. /\ cl' = [cl EXCEPT ![c][s] = f] /\ net' = [net EXCEPT ![c][s] = x]
       /\ UNCHANGED <<servers, lists, known, status, countVars, act, sv>>
  BY <1>1, <1>2 DEF Goes, exceptOne, authVars, countVars
<1>11. sv' = [sv EXCEPT ![c][s] = sv[c][s]]
  BY <1>10, Here
<1> HIDE DEF f, x
<1>12. Connected(f, sv[c][s], x)
  BY <1>1, <1>2, <1>4, <1>7, <1>9, SendKeeps
<1>13. f.state \notin {"TC_SERVER_TRANSFER", "TC_SERVER_FINISHED"}
  BY <1>8, <1>9 DEF ToReply, Replied
<1>14. /\ UNCHANGED <<servers, lists, known, status, countVars>> /\ act' = act
       /\ e.state # "TC_SERVER_IDLE"
       /\ f.state \in {"TC_SERVER_TRANSFER", "TC_SERVER_FINISHED"}
          <=> e.state \in {"TC_SERVER_TRANSFER", "TC_SERVER_FINISHED"}
  BY <1>1, <1>10, <1>13
<1> QED BY <1>2, <1>7, <1>9, <1>10, <1>11, <1>12, <1>14, OneConnection

LEMMA ReceiveStepKeeps ==
    ASSUME TorrentInv, NEW c \in Clients, NEW s \in Servers, Receive(c, s)
    PROVE  TorrentInv'
<1> DEFINE e == cl[c][s]
           w == net[c][s]
<1>1. PICK n \in 1..Len(w.down) :
         /\ net' = [net EXCEPT ![c][s].down = Rest(@, n)]
         /\ Goes(c, s, [e EXCEPT !.buf = @ \o SubSeq(w.down, 1, n), !.state = e.next])
  BY DEF Receive
<1> DEFINE f == [e EXCEPT !.buf = @ \o SubSeq(w.down, 1, n), !.state = e.next]
           x == [w EXCEPT !.down = Rest(@, n)]
<1>2. act[c] = s /\ e.state = "TC_RECEIVE"
  BY DEF Receive, Activated
<1>3. /\ e \in ClientEnds /\ w \in Wires /\ sv[c][s] \in ServerEnds
      /\ status[c] = "run" /\ Connected(e, sv[c][s], w)
      /\ net \in [Clients -> [Servers -> Wires]]
  BY <1>2, Here DEF TorrentInv, Types
<1>4. e.buf \in Seq(Units) /\ w.down \in Seq(Units) /\ Len(w.down) \in Nat
  BY <1>3, LenProperties DEF ClientEnds, Wires
<1>5. SubSeq(w.down, 1, n) \in Seq(Units) /\ Rest(w.down, n) \in Seq(Units)
  <2>1. n \in 0..Len(w.down)
    BY <1>4
  <2> QED BY <1>4, <2>1, CutUnits
<1>6. e.buf \o SubSeq(w.down, 1, n) \in Seq(Units)
  BY <1>4, <1>5, JoinUnits
<1>7. x \in Wires /\ x.phase = w.phase /\ x.up = w.up /\ x.down = Rest(w.down, n)
  BY <1>3, <1>5 DEF Wires
<1>8. e.next \in ToReply \cup Replied \cup {"TC_SERVER_IDLE", "TC_SERVER_REQUEST"}
  BY <1>3 DEF ClientEnds
<1>9. f \in ClientEnds /\ f.buf = e.buf \o SubSeq(w.down, 1, n) /\ f.state = e.next
  <2>1. PICK b \in Seq(Units) : b = e.buf \o SubSeq(w.down, 1, n)
    BY <1>6
  <2>2. PICK st \in ToReply \cup Replied \cup {"TC_SERVER_IDLE", "TC_SERVER_REQUEST"} :
           st = e.next
    BY <1>8
  <2>3. f = [e EXCEPT !.buf = b, !.state = st]
    BY <2>1, <2>2
  <2> HIDE DEF f
  <2>4. f \in ClientEnds /\ f.buf = b /\ f.state = st
    BY <1>3, <2>3 DEF ClientEnds, AtServerStates
  <2> QED BY <2>1, <2>2, <2>4
<1>10. /\ cl' = [cl EXCEPT ![c][s] = f] /\ net' = [net EXCEPT ![c][s] = x]
       /\ UNCHANGED <<servers, lists, known, status, countVars, act, sv>>
  BY <1>1, <1>3 DEF Goes, exceptOne, authVars, countVars
<1>11. sv' = [sv EXCEPT ![c][s] = sv[c][s]]
  BY <1>10, Here
<1> HIDE DEF f, x
<1>12. Connected(f, sv[c][s], x)
  BY <1>2, <1>3, <1>7, <1>9, ReceiveKeeps
<1>13. f.state \notin {"TC_SERVER_TRANSFER", "TC_SERVER_FINISHED"}
  BY <1>8, <1>9 DEF ToReply, Replied
<1>14. /\ UNCHANGED <<servers, lists, known, status, countVars>> /\ act' = act
       /\ e.state # "TC_SERVER_IDLE"
       /\ f.state \in {"TC_SERVER_TRANSFER", "TC_SERVER_FINISHED"}
          <=> e.state \in {"TC_SERVER_TRANSFER", "TC_SERVER_FINISHED"}
  BY <1>2, <1>10, <1>13
<1> QED BY <1>3, <1>7, <1>9, <1>10, <1>11, <1>12, <1>14, OneConnection

\* Nothing is under way of a client that has started anew, and the connections that
\* it had matter no more.
LEMMA RestartKeeps ==
    ASSUME TorrentInv, NEW c \in Clients, Restart(c)
    PROVE  /\ TorrentInv' /\ downloaded'[c] = 0
           /\ \A d \in Clients : d # c => downloaded'[d] = downloaded[d]
<1>1. /\ servers \in Seq(Servers) /\ lists \in [Clients -> Seq(Seq(Servers))]
      /\ known \in [Clients -> SUBSET Servers]
      /\ remaining \in [Clients -> Nat] /\ downloaded \in [Clients -> Nat]
      /\ status \in [Clients -> {"run", "complete", "crashed"}]
      /\ act \in [Clients -> Servers \cup {NoServer}]
      /\ cl \in [Clients -> [Servers -> ClientEnds]]
      /\ sv \in [Clients -> [Servers -> ServerEnds]]
      /\ net \in [Clients -> [Servers -> Wires]]
  BY DEF TorrentInv, Types
<1>2. NoClientEnd \in ClientEnds /\ NoClientEnd.state = "TC_SERVER_IDLE" /\ NoNet \in Wires
  BY EmptyUnits DEF NoClientEnd, NoNet, ClientEnds, Wires
<1>3. ASSUME NEW s \in Servers
      PROVE  [net[c][s] EXCEPT !.phase = "closed", !.down = <<>>] \in Wires
  <2>1. net[c][s] \in Wires
    BY <1>1
  <2> QED BY <2>1, EmptyUnits DEF Wires
<1>4. [s \in Servers |-> NoClientEnd] \in [Servers -> ClientEnds]
  BY <1>2
<1>5. [s \in Servers |-> IF net[c][s].phase \in {"relay", "closed"}
                         THEN [net[c][s] EXCEPT !.phase = "closed", !.down = <<>>] ELSE NoNet]
      \in [Servers -> Wires]
  BY <1>2, <1>3
<1>6. <<>> \in Seq(Seq(Servers))
  OBVIOUS
<1>7. Types'
  <2>1. cl' \in [Clients -> [Servers -> ClientEnds]]
    <3> HIDE DEF ClientEnds, NoClientEnd
    <3> QED BY <1>1, <1>4 DEF Restart
  <2>2. net' \in [Clients -> [Servers -> Wires]]
    <3> HIDE DEF Wires, NoNet
    <3> QED BY <1>1, <1>5 DEF Restart, Hangup
  <2>3. /\ servers' \in Seq(Servers) /\ lists' \in [Clients -> Seq(Seq(Servers))]
        /\ known' \in [Clients -> SUBSET Servers]
        /\ status' \in [Clients -> {"run", "complete", "crashed"}]
        /\ act' \in [Clients -> Servers \cup {NoServer}]
        /\ sv' \in [Clients -> [Servers -> ServerEnds]]
    <3>1. act' = [act EXCEPT ![c] = NoServer] /\ NoServer \in Servers \cup {NoServer}
      BY DEF Restart
    <3>2. act' \in [Clients -> Servers \cup {NoServer}]
      BY <1>1, <3>1
    <3> QED BY <1>1, <1>6, <3>2 DEF Restart
  <2>4. remaining' \in [Clients -> Nat] /\ downloaded' \in [Clients -> Nat]
    BY <1>1, Sizes DEF Restart, NewCount
  <2> QED BY <2>1, <2>2, <2>3, <2>4 DEF Types
<1>8. /\ \A s \in Servers : cl'[c][s] = NoClientEnd
      /\ \A d \in Clients : d # c => cl'[d] = cl[d] /\ net'[d] = net[d] /\ known'[d] = known[d]
            /\ remaining'[d] = remaining[d] /\ downloaded'[d] = downloaded[d]
            /\ act'[d] = act[d]
      /\ act'[c] = NoServer /\ remaining'[c] = NumBlocks /\ downloaded'[c] = 0
      /\ UNCHANGED <<status, sv>>
  BY <1>1 DEF Restart, Hangup, NewCount
<1>9. Running'
  <2> SUFFICES ASSUME NEW d \in Clients
               PROVE  /\ act'[d] # NoServer => status'[d] = "run"
                      /\ \A o \in Servers : o \notin known'[d] =>
                            cl'[d][o].state = "TC_SERVER_IDLE"
    BY DEF Running
  <2>1. CASE d = c
    BY <1>2, <1>8, <2>1
  <2>2. CASE d # c
    BY <1>8, <2>2 DEF TorrentInv, Running
  <2> QED BY <2>1, <2>2
<1>10. Connections'
  <2> SUFFICES ASSUME NEW d \in Clients, status'[d] = "run", NEW o \in Servers
               PROVE  Connected(cl'[d][o], sv'[d][o], net'[d][o])
    BY DEF Connections, Connected, Gone, Handshake, Asked, Exchanging, Exchanged, Told,
           Waits, Counts, Contains
  <2>1. CASE d = c
    BY <1>2, <1>8, <2>1 DEF Connected
  <2>2. CASE d # c
    BY <1>8, <2>2 DEF TorrentInv, Connections
  <2> QED BY <2>1, <2>2
<1>11. Conserved'
  <2>1. UnderWay(c)' = {}
    BY <1>2, <1>8 DEF UnderWay
  <2>2. \A d \in Clients : d # c => UnderWay(d)' = UnderWay(d)
    BY <1>8 DEF UnderWay
  <2>3. Cardinality({}) = 0 /\ IsFiniteSet({})
    BY FS_EmptySet
  <2>4. remaining'[c] + downloaded'[c] + Cardinality({}) = NumBlocks
    BY <1>8, <2>3, Sizes
  <2>5. ASSUME NEW d \in Clients
        PROVE  /\ status'[d] = "run" =>
                     remaining'[d] + downloaded'[d] + Cardinality(UnderWay(d)') = NumBlocks
               /\ IsFiniteSet(UnderWay(d)')
    <3>1. CASE d = c
      BY <2>1, <2>3, <2>4, <3>1
    <3>2. CASE d # c
      BY <1>8, <2>2, <3>2 DEF TorrentInv, Conserved, BlocksConserved
    <3> QED BY <3>1, <3>2
  <2> QED BY <2>5 DEF Conserved, BlocksConserved
<1> QED BY <1>7, <1>8, <1>9, <1>10, <1>11 DEF TorrentInv

LEMMA SocksReplyConnKeeps ==
    ASSUME TorrentInv, NEW c \in Clients, NEW s \in Servers, SocksReplyConn(c, s), ~Restart(c)
    PROVE  TorrentInv' /\ UNCHANGED downloaded
<1> DEFINE e == cl[c][s]
<1>1. act[c] = s /\ e.state = "TC_SOCKS_REPLY_CONN" /\ UNCHANGED net
  BY DEF SocksReplyConn, Activated
<1>2. e \in ClientEnds
  BY Here
<1>3. CASE Goes(c, s, [e EXCEPT !.state = "TC_SOCKS_TOREPLY_CONN"])
  <2>1. TorrentInv'
    BY <1>1, <1>3, BackKeeps DEF Replied, ToReply
  <2> QED BY <1>3, <2>1 DEF Goes, countVars
<1>4. CASE /\ Len(e.buf) >= 2
           /\ Goes(c, s, [e EXCEPT !.state = "TC_SERVER_REQUEST", !.ev = "OUT",
                              !.next = "TC_SERVER_REQUEST", !.buf = Rest(@, 2)])
  <2> DEFINE f == [e EXCEPT !.state = "TC_SERVER_REQUEST", !.ev = "OUT",
                            !.next = "TC_SERVER_REQUEST", !.buf = Rest(@, 2)]
  <2>1. f = [e EXCEPT !.state = "TC_SERVER_REQUEST", !.ev = "OUT",
                      !.next = "TC_SERVER_REQUEST", !.buf = Rest(e.buf, 2)]
    BY <1>2 DEF ClientEnds
  <2>2. e.state \in Replied
    BY <1>1 DEF Replied
  <2>3. Goes(c, s, f)
    BY <1>4
  <2> HIDE DEF f
  <2>4. TorrentInv'
    BY <1>1, <1>4, <2>1, <2>2, <2>3, OnKeeps
  <2> QED BY <2>3, <2>4 DEF Goes, countVars
<1> QED BY <1>3, <1>4 DEF SocksReplyConn

\* One block fewer remains, and is under way on a connection that had none.
LEMMA ServerRequestKeeps ==
    ASSUME TorrentInv, NEW c \in Clients, NEW s \in Servers, ServerRequest(c, s)
    PROVE  TorrentInv'
<1> DEFINE e == cl[c][s]
           w == net[c][s]
<1>1. act[c] = s /\ e.state = "TC_SERVER_REQUEST"
  BY DEF ServerRequest, Activated
<1>2. /\ e \in ClientEnds /\ w \in Wires /\ sv[c][s] \in ServerEnds
      /\ status[c] = "run" /\ Connected(e, sv[c][s], w)
      /\ net \in [Clients -> [Servers -> Wires]]
      /\ remaining \in [Clients -> Nat] /\ downloaded \in [Clients -> Nat]
      /\ act \in [Clients -> Servers \cup {NoServer}]
  BY <1>1, Here DEF TorrentInv, Types
<1>3. CASE /\ Ends(c, s, [e EXCEPT !.state = "TC_SERVER_IDLE", !.ev = "IN"])
           /\ UNCHANGED <<net, countVars>>
  <2> DEFINE f == [e EXCEPT !.state = "TC_SERVER_IDLE", !.ev = "IN"]
  <2>1. f \in ClientEnds /\ f.state = "TC_SERVER_IDLE"
    BY <1>2 DEF ClientEnds
  <2>2. /\ UNCHANGED <<servers, lists, known, status, countVars, sv, net>>
        /\ act' = [act EXCEPT ![c] = NoServer] /\ cl' = [cl EXCEPT ![c][s] = f]
    BY <1>3 DEF Ends, exceptOne, authVars, countVars
  <2> HIDE DEF f
  <2>3. Connected(f, sv[c][s], net[c][s])
    BY <2>1 DEF Connected
  <2>4. f.state \in {"TC_SERVER_TRANSFER", "TC_SERVER_FINISHED"}
        <=> cl[c][s].state \in {"TC_SERVER_TRANSFER", "TC_SERVER_FINISHED"}
    BY <1>1, <2>1
  <2> QED BY <2>1, <2>2, <2>3, <2>4, OneClientEnd
<1>4. CASE /\ remaining[c] > 0 /\ w.phase = "relay"
           /\ net' = [net EXCEPT ![c][s].up = Append(@, <<"FILE_REQUEST", 1>>)]
           /\ remaining' = [remaining EXCEPT ![c] = Taken(c)]
           /\ Ends(c, s, [e EXCEPT !.state = "TC_SERVER_TRANSFER", !.ev = "IN",
                              !.down = 0, !.up = 0, !.buf = <<>>])
           /\ UNCHANGED downloaded
  <2> DEFINE f == [e EXCEPT !.state = "TC_SERVER_TRANSFER", !.ev = "IN",
                            !.down = 0, !.up = 0, !.buf = <<>>]
             x == [w EXCEPT !.up = Append(@, <<"FILE_REQUEST", 1>>)]
  <2>1. /\ f \in ClientEnds /\ f.state = "TC_SERVER_TRANSFER" /\ f.ev = "IN"
        /\ f.down = 0 /\ f.up = 0
    BY <1>2, EmptyUnits DEF ClientEnds, AtServerStates
  <2>2. w.up \in Seq(Units) /\ Append(w.up, <<"FILE_REQUEST", 1>>) \in Seq(Units)
    BY <1>2, AppendUnit DEF Wires
  <2>3. /\ x \in Wires /\ x.phase = w.phase /\ x.down = w.down
        /\ x.up = Append(w.up, <<"FILE_REQUEST", 1>>)
    <3>1. PICK u \in Seq(Units) : u = Append(w.up, <<"FILE_REQUEST", 1>>)
      BY <2>2
    <3>2. x = [w EXCEPT !.up = u]
      BY <3>1
    <3> HIDE DEF x
    <3> QED BY <1>2, <3>1, <3>2 DEF Wires
  <2>4. /\ UNCHANGED <<servers, lists, known, status>>
        /\ cl' = [cl EXCEPT ![c][s] = f] /\ net' = [net EXCEPT ![c][s] = x]
    BY <1>2, <1>4 DEF Ends, exceptOne, authVars
  <2> HIDE DEF f, x
  <2>5. PICK v \in ServerEnds : v = sv[c][s] /\ sv' = [sv EXCEPT ![c][s] = v]
    BY <1>2, <1>4, Here DEF Ends
  <2>6. Connected(f, v, x)
    BY <1>1, <1>2, <1>4, <2>1, <2>3, <2>5, RequestKeeps
  <2>7. /\ remaining' \in [Clients -> Nat] /\ remaining'[c] = remaining[c] - 1
        /\ \A d \in Clients : d # c => remaining'[d] = remaining[d]
    <3>1. remaining[c] \in Nat /\ remaining[c] - 1 \in Nat
      BY <1>2, <1>4
    <3> QED BY <1>2, <1>4, <3>1 DEF Taken
  <2>8. downloaded' \in [Clients -> Nat] /\ ActStops
    BY <1>2, <1>4 DEF Ends, ActStops
  <2>9. e.state # "TC_SERVER_IDLE"
    BY <1>1
  <2>10. Types' /\ Running' /\ Connections' /\ cl'[c][s] = f /\ OthersStay(c, s)
    BY <2>1, <2>3, <2>4, <2>5, <2>6, <2>7, <2>8, <2>9, LocalKeeps
  <2>11. UnderWay(c)' = UnderWay(c) \cup {s} /\ s \notin UnderWay(c)
    BY <1>1, <2>1, <2>10 DEF UnderWay, OthersStay
  <2>12. \A d \in Clients : d # c => UnderWay(d)' = UnderWay(d)
    BY <2>10 DEF UnderWay, OthersStay
  <2>13. IsFiniteSet(UnderWay(c)) /\ Cardinality(UnderWay(c)) \in Nat
    BY FS_CardinalityType DEF TorrentInv, Conserved
  <2>14. IsFiniteSet(UnderWay(c)') /\ Cardinality(UnderWay(c)') = Cardinality(UnderWay(c)) + 1
    BY <2>11, <2>13, FS_AddElement
  <2>15. remaining[c] + downloaded[c] + Cardinality(UnderWay(c)) = NumBlocks
    BY <1>2 DEF TorrentInv, Conserved, BlocksConserved
  <2>16. remaining'[c] + downloaded'[c] + Cardinality(UnderWay(c)') = NumBlocks
    <3> DEFINE a == remaining[c]
               b == downloaded[c]
               k == Cardinality(UnderWay(c))
    <3>1. /\ a \in Nat /\ b \in Nat /\ k \in Nat /\ a + b + k = NumBlocks
          /\ remaining'[c] = a - 1 /\ downloaded'[c] = b /\ Cardinality(UnderWay(c)') = k + 1
      BY <1>2, <1>4, <2>7, <2>13, <2>14, <2>15
    <3> HIDE DEF a, b, k
    <3> QED BY <3>1, Sizes
  <2>17. Conserved'
    <3>1. ASSUME NEW d \in Clients
          PROVE  /\ status'[d] = "run" =>
                       remaining'[d] + downloaded'[d] + Cardinality(UnderWay(d)') = NumBlocks
                 /\ IsFiniteSet(UnderWay(d)')
      <4>1. CASE d = c
        BY <2>14, <2>16, <4>1
      <4>2. CASE d # c
        BY <1>4, <2>4, <2>7, <2>12, <4>2 DEF TorrentInv, Conserved, BlocksConserved
      <4> QED BY <4>1, <4>2
    <3> QED BY <3>1 DEF Conserved, BlocksConserved
  <2> QED BY <2>10, <2>17 DEF TorrentInv
<1> QED BY <1>3, <1>4 DEF ServerRequest

\* What comes next is decided on what the client has of the block.
LEMMA TransferredEnd ==
    ASSUME NEW g \in ClientEnds, g.state = "TC_SERVER_TRANSFER"
    PROVE  /\ Transferred(g) \in ClientEnds
           /\ Transferred(g).down = g.down /\ Transferred(g).up = g.up
           /\ Transferred(g).state = IF g.down >= DownBlock /\ g.up >= UpBlock
                                     THEN "TC_SERVER_FINISHED" ELSE "TC_SERVER_TRANSFER"
<1>1. CASE g.down >= DownBlock /\ g.up >= UpBlock
  BY <1>1 DEF Transferred, ClientEnds, AtServerStates
<1>2. CASE ~(g.down >= DownBlock /\ g.up >= UpBlock)
  BY <1>2 DEF Transferred, ClientEnds, AtServerStates
<1> QED BY <1>1, <1>2

LEMMA ServerTransferKeeps ==
    ASSUME TorrentInv, NEW c \in Clients, NEW s \in Servers, ServerTransfer(c, s)
    PROVE  TorrentInv'
<1> DEFINE e == cl[c][s]
           w == net[c][s]
<1>1. act[c] = s /\ e.state = "TC_SERVER_TRANSFER" /\ UNCHANGED countVars
  BY DEF ServerTransfer, Activated
<1>2. /\ e \in ClientEnds /\ w \in Wires /\ sv[c][s] \in ServerEnds
      /\ status[c] = "run" /\ Connected(e, sv[c][s], w)
      /\ net \in [Clients -> [Servers -> Wires]]
  BY <1>1, Here DEF TorrentInv, Types
<1>3. /\ w.up \in Seq(Units) /\ w.down \in Seq(Units) /\ Len(w.down) \in Nat /\ Len(w.up) \in Nat
      /\ e.down \in Nat /\ e.up \in Nat
  BY <1>2, LenProperties DEF ClientEnds, Wires
<1>4. PICK v \in ServerEnds : v = sv[c][s] /\ sv = [sv EXCEPT ![c][s] = v]
  BY <1>2, Here
\* Both directions end in this way.
<1>5. ASSUME NEW f \in ClientEnds, NEW x \in Wires,
             f.state \in {"TC_SERVER_TRANSFER", "TC_SERVER_FINISHED"},
             Connected(f, v, x), Ends(c, s, f), net' = [net EXCEPT ![c][s] = x]
      PROVE  TorrentInv'
  <2>1. /\ UNCHANGED <<servers, lists, known, status, countVars>>
        /\ act' = [act EXCEPT ![c] = NoServer] /\ cl' = [cl EXCEPT ![c][s] = f]
        /\ sv' = [sv EXCEPT ![c][s] = v]
    BY <1>1, <1>4, <1>5 DEF Ends, exceptOne, authVars
  <2>2. /\ cl[c][s].state # "TC_SERVER_IDLE"
        /\ f.state \in {"TC_SERVER_TRANSFER", "TC_SERVER_FINISHED"}
           <=> cl[c][s].state \in {"TC_SERVER_TRANSFER", "TC_SERVER_FINISHED"}
    BY <1>1, <1>5
  <2>3. net' = [net EXCEPT ![c][s] = x] /\ Connected(f, v, x)
    BY <1>5
  <2> QED BY <2>1, <2>2, <2>3, OneConnection
<1>6. CASE /\ e.ev = "IN" /\ e.down < DownBlock
           /\ \E n \in 1..Least(Len(w.down), DownBlock - e.down) :
                 /\ net' = [net EXCEPT ![c][s].down = Rest(@, n)]
                 /\ Ends(c, s, Transferred([e EXCEPT !.down = @ + n]))
  <2>1. PICK n \in 1..Least(Len(w.down), DownBlock - e.down) :
           /\ net' = [net EXCEPT ![c][s].down = Rest(@, n)]
           /\ Ends(c, s, Transferred([e EXCEPT !.down = @ + n]))
    BY <1>6
  <2>2. n \in 1..Len(w.down) /\ n <= DownBlock - e.down /\ n \in Nat
    <3> DEFINE a == Len(w.down)
               b == DownBlock - e.down
    <3>1. a \in Nat /\ b \in Int /\ n \in 1..Least(a, b)
      BY <1>3, <2>1, Sizes
    <3> HIDE DEF a, b
    <3>2. n \in 1..a /\ n <= b /\ n \in Nat
      BY <3>1 DEF Least
    <3> QED BY <3>2 DEF a, b
  <2> DEFINE g == [e EXCEPT !.down = @ + n]
             x == [w EXCEPT !.down = Rest(@, n)]
  <2>3. /\ g \in ClientEnds /\ g.down = e.down + n /\ g.up = e.up
        /\ g.state = "TC_SERVER_TRANSFER"
    <3>1. PICK k \in Nat : k = e.down + n
      BY <1>3, <2>2
    <3>2. g = [e EXCEPT !.down = k]
      BY <1>2, <3>1 DEF ClientEnds
    <3> HIDE DEF g
    <3> QED BY <1>1, <1>2, <3>1, <3>2 DEF ClientEnds
  <2>4. x \in Wires /\ x.phase = w.phase /\ x.up = w.up /\ x.down = Rest(w.down, n)
    <3>0. n \in 0..Len(w.down)
      BY <1>3, <2>2
    <3>1. PICK u \in Seq(Units) : u = Rest(w.down, n)
      BY <1>3, <3>0, CutUnits
    <3>2. x = [w EXCEPT !.down = u]
      BY <1>2, <3>1 DEF Wires
    <3> HIDE DEF x
    <3> QED BY <1>2, <3>1, <3>2 DEF Wires
  <2>5. net' = [net EXCEPT ![c][s] = x]
    BY <1>2, <2>1
  <2> HIDE DEF x, g
  <2>6. PICK f \in ClientEnds :
           /\ f = Transferred(g) /\ f.down = e.down + n /\ f.up = e.up
           /\ f.state = IF f.down >= DownBlock /\ f.up >= UpBlock
                        THEN "TC_SERVER_FINISHED" ELSE "TC_SERVER_TRANSFER"
    BY <2>3, TransferredEnd
  <2>7. Connected(f, v, x)
    <3>1. /\ e \in ClientEnds /\ w \in Wires /\ Connected(e, v, w)
          /\ e.state = "TC_SERVER_TRANSFER" /\ e.down < DownBlock
      BY <1>1, <1>2, <1>4, <1>6
    <3> HIDE DEF e, w
    <3> QED BY <2>2, <2>4, <2>6, <3>1, DownKeeps
  <2>8. Ends(c, s, f)
    BY <2>1, <2>6 DEF g
  <2> QED BY <1>5, <2>4, <2>5, <2>6, <2>7, <2>8
<1>7. CASE /\ e.ev = "OUT" /\ e.up < UpBlock
           /\ LET n == Least(Room - Len(w.up), UpBlock - e.up)
              IN  /\ w.phase = "relay" /\ n > 0
                  /\ net' = [net EXCEPT ![c][s].up = @ \o Block(n)]
                  /\ Ends(c, s, Transferred([e EXCEPT !.up = @ + n]))
  <2>1. PICK n \in Nat \ {0} :
           /\ n <= UpBlock - e.up
           /\ net' = [net EXCEPT ![c][s].up = @ \o Block(n)]
           /\ Ends(c, s, Transferred([e EXCEPT !.up = @ + n]))
    <3> DEFINE a == Room - Len(w.up)
               b == UpBlock - e.up
               k == Least(a, b)
    <3>1. a \in Int /\ b \in Int
      BY <1>3, Sizes
    <3>2. /\ k > 0 /\ net' = [net EXCEPT ![c][s].up = @ \o Block(k)]
          /\ Ends(c, s, Transferred([e EXCEPT !.up = @ + k]))
      BY <1>7
    <3>3. k \in Nat \ {0} /\ k <= b
      <4>1. k > 0
        BY <3>2
      <4> HIDE DEF a, b
      <4> QED BY <3>1, <4>1 DEF Least
    <3> HIDE DEF k
    <3> QED BY <3>2, <3>3
  <2> DEFINE g == [e EXCEPT !.up = @ + n]
             x == [w EXCEPT !.up = @ \o Block(n)]
  <2>3. /\ g \in ClientEnds /\ g.up = e.up + n /\ g.down = e.down
        /\ g.state = "TC_SERVER_TRANSFER"
    <3>1. PICK k \in Nat : k = e.up + n
      BY <1>3
    <3>2. g = [e EXCEPT !.up = k]
      BY <1>2, <3>1 DEF ClientEnds
    <3> HIDE DEF g
    <3> QED BY <1>1, <1>2, <3>1, <3>2 DEF ClientEnds
  <2>4. x \in Wires /\ x.phase = w.phase /\ x.down = w.down /\ x.up = w.up \o Block(n)
    <3>1. PICK u \in Seq(Units) : u = w.up \o Block(n)
      BY <1>3, BlockUnits, JoinUnits
    <3>2. x = [w EXCEPT !.up = u]
      BY <1>2, <3>1 DEF Wires
    <3> HIDE DEF x
    <3> QED BY <1>2, <3>1, <3>2 DEF Wires
  <2>5. net' = [net EXCEPT ![c][s] = x]
    BY <1>2, <2>1
  <2> HIDE DEF x, g
  <2>6. PICK f \in ClientEnds :
           /\ f = Transferred(g) /\ f.up = e.up + n /\ f.down = e.down
           /\ f.state = IF f.down >= DownBlock /\ f.up >= UpBlock
                        THEN "TC_SERVER_FINISHED" ELSE "TC_SERVER_TRANSFER"
    BY <2>3, TransferredEnd
  <2>7. Connected(f, v, x)
    <3>1. /\ e \in ClientEnds /\ w \in Wires /\ Connected(e, v, w)
          /\ e.state = "TC_SERVER_TRANSFER" /\ e.ev = "OUT" /\ w.phase = "relay"
          /\ e.up < UpBlock
      BY <1>1, <1>2, <1>4, <1>7
    <3> HIDE DEF e, w
    <3> QED BY <2>1, <2>4, <2>6, <3>1, UpKeeps
  <2>8. Ends(c, s, f)
    BY <2>1, <2>6 DEF g
  <2> QED BY <1>5, <2>4, <2>5, <2>6, <2>7, <2>8
<1> QED BY <1>6, <1>7 DEF ServerTransfer

\* One block is no longer under way, and has been downloaded.
LEMMA ServerFinishedKeeps ==
    ASSUME TorrentInv, NEW c \in Clients, NEW s \in Servers, ServerFinished(c, s)
    PROVE  /\ TorrentInv' /\ act[c] = s /\ downloaded' = [downloaded EXCEPT ![c] = @ + 1]
           /\ cl[c][s].down = DownBlock /\ cl[c][s].up = UpBlock
           /\ sv[c][s].down = UpBlock /\ sv[c][s].up = DownBlock /\ sv[c][s].state = "TS_IDLE"
<1> DEFINE e == cl[c][s]
           w == net[c][s]
<1>1. act[c] = s /\ e.state = "TC_SERVER_FINISHED"
  BY DEF ServerFinished, Activated
<1>2. /\ e \in ClientEnds /\ w \in Wires /\ sv[c][s] \in ServerEnds
      /\ status[c] = "run" /\ Connected(e, sv[c][s], w)
      /\ net \in [Clients -> [Servers -> Wires]] /\ cl \in [Clients -> [Servers -> ClientEnds]]
      /\ remaining \in [Clients -> Nat] /\ downloaded \in [Clients -> Nat]
      /\ act \in [Clients -> Servers \cup {NoServer}]
      /\ status \in [Clients -> {"run", "complete", "crashed"}]
  BY <1>1, Here DEF TorrentInv, Types
<1>3. PICK n \in 1..Len(w.down) :
         LET found == Contains(SubSeq(w.down, 1, n), "FINISHED")
         IN  /\ downloaded' = [downloaded EXCEPT ![c] = IF found THEN @ + 1 ELSE @]
             /\ cl' = IF found THEN [cl EXCEPT ![c][s].state = "TC_SERVER_REQUEST",
                                               ![c][s].ev = "OUT"] ELSE cl
             /\ act' = [act EXCEPT ![c] = NoServer]
             /\ \/ /\ downloaded'[c] < NumBlocks
                   /\ net' = [net EXCEPT ![c][s].down = Rest(@, n)]
                   /\ UNCHANGED status
                \/ downloaded'[c] >= NumBlocks /\ Complete(c, s)
  BY DEF ServerFinished
<1> DEFINE f == [e EXCEPT !.state = "TC_SERVER_REQUEST", !.ev = "OUT"]
           x == [w EXCEPT !.down = Rest(@, n)]
<1>4. f \in ClientEnds /\ f.state = "TC_SERVER_REQUEST"
  BY <1>2 DEF ClientEnds, AtServerStates
<1>5. x \in Wires /\ x.phase = w.phase /\ x.up = w.up /\ x.down = Rest(w.down, n)
  <2>1. w.down \in Seq(Units) /\ Len(w.down) \in Nat
    BY <1>2, LenProperties DEF Wires
  <2>2. n \in 0..Len(w.down)
    BY <2>1
  <2>3. PICK u \in Seq(Units) : u = Rest(w.down, n)
    BY <2>1, <2>2, CutUnits
  <2>4. x = [w EXCEPT !.down = u]
    BY <1>2, <2>3 DEF Wires
  <2> HIDE DEF x
  <2> QED BY <1>2, <2>3, <2>4 DEF Wires
<1>6. /\ Contains(SubSeq(w.down, 1, n), "FINISHED")
      /\ e.down = DownBlock /\ e.up = UpBlock
      /\ sv[c][s].down = UpBlock /\ sv[c][s].up = DownBlock /\ sv[c][s].state = "TS_IDLE"
      /\ Connected(f, sv[c][s], x)
  <2> HIDE DEF f, x
  <2> QED BY <1>1, <1>2, <1>4, <1>5, FinishedKeeps
<1>7. /\ downloaded' = [downloaded EXCEPT ![c] = @ + 1] /\ act' = [act EXCEPT ![c] = NoServer]
      /\ cl' = [cl EXCEPT ![c][s] = f]
  BY <1>2, <1>3, <1>6
<1>8. /\ UNCHANGED <<servers, lists, known, remaining, sv>>
  BY DEF ServerFinished, authVars
<1>9. /\ downloaded' \in [Clients -> Nat] /\ downloaded'[c] = downloaded[c] + 1
      /\ remaining' \in [Clients -> Nat]
      /\ \A d \in Clients : d # c => downloaded'[d] = downloaded[d]
      /\ ActStops
  BY <1>2, <1>7, <1>8 DEF ActStops
<1>10. cl'[c][s] = f /\ OthersStay(c, s) /\ cl' \in [Clients -> [Servers -> ClientEnds]]
  <2> HIDE DEF f, ClientEnds
  <2> QED BY <1>2, <1>4, <1>7 DEF OthersStay
<1>11. UnderWay(c)' = UnderWay(c) \ {s} /\ s \in UnderWay(c)
  BY <1>1, <1>4, <1>10 DEF UnderWay, OthersStay
<1>12. \A d \in Clients : d # c => UnderWay(d)' = UnderWay(d)
  BY <1>10 DEF UnderWay, OthersStay
<1>13. IsFiniteSet(UnderWay(c)) /\ Cardinality(UnderWay(c)) \in Nat
  BY FS_CardinalityType DEF TorrentInv, Conserved
<1>14. IsFiniteSet(UnderWay(c)') /\ Cardinality(UnderWay(c)') = Cardinality(UnderWay(c)) - 1
  BY <1>11, <1>13, FS_RemoveElement
<1>15. remaining[c] + downloaded[c] + Cardinality(UnderWay(c)) = NumBlocks
  BY <1>2 DEF TorrentInv, Conserved, BlocksConserved
<1>16. remaining'[c] + downloaded'[c] + Cardinality(UnderWay(c)') = NumBlocks
  <2> DEFINE a == remaining[c]
             b == downloaded[c]
             k == Cardinality(UnderWay(c))
  <2>1. /\ a \in Nat /\ b \in Nat /\ k \in Nat /\ a + b + k = NumBlocks
        /\ remaining'[c] = a /\ downloaded'[c] = b + 1 /\ Cardinality(UnderWay(c)') = k - 1
    BY <1>2, <1>8, <1>9, <1>13, <1>14, <1>15
  <2> HIDE DEF a, b, k
  <2> QED BY <2>1, Sizes
<1>17. ASSUME \A d \in Clients : status'[d] = "run" => status[d] = "run"
       PROVE  Conserved'
  <2>1. ASSUME NEW d \in Clients
        PROVE  /\ status'[d] = "run" =>
                     remaining'[d] + downloaded'[d] + Cardinality(UnderWay(d)') = NumBlocks
               /\ IsFiniteSet(UnderWay(d)')
    <3>1. CASE d = c
      BY <1>14, <1>16, <3>1
    <3>2. CASE d # c
      BY <1>8, <1>9, <1>12, <1>17, <3>2 DEF TorrentInv, Conserved, BlocksConserved
    <3> QED BY <3>1, <3>2
  <2> QED BY <2>1 DEF Conserved, BlocksConserved
<1>18. CASE UNCHANGED status /\ net' = [net EXCEPT ![c][s].down = Rest(@, n)]
  <2>1. net' = [net EXCEPT ![c][s] = x]
    BY <1>2, <1>18
  <2> HIDE DEF f, x
  <2>2. PICK v \in ServerEnds : v = sv[c][s] /\ sv' = [sv EXCEPT ![c][s] = v]
    BY <1>2, <1>8, Here
  <2>3. Connected(f, v, x) /\ e.state # "TC_SERVER_IDLE"
    BY <1>1, <1>6, <2>2
  <2>4. UNCHANGED <<servers, lists, known, status>>
    BY <1>8, <1>18
  <2>5. sv' = [sv EXCEPT ![c][s] = v] /\ cl' = [cl EXCEPT ![c][s] = f]
    BY <1>7, <2>2
  <2>6. Types' /\ Running' /\ Connections'
    BY <1>4, <1>5, <1>9, <2>1, <2>3, <2>4, <2>5, LocalKeeps
  <2>7. Conserved'
    BY <1>17, <1>18
  <2> QED BY <1>1, <1>6, <1>7, <2>6, <2>7 DEF TorrentInv
<1>19. CASE Complete(c, s)
  <2>1. /\ \A d \in Clients : d # c => status'[d] = status[d]
        /\ status'[c] # "run" /\ status' \in [Clients -> {"run", "complete", "crashed"}]
    BY <1>2, <1>19 DEF Complete
  <2>2. /\ net' \in [Clients -> [Servers -> Wires]]
        /\ \A d \in Clients : d # c => net'[d] = net[d]
    <3>1. NoNet \in Wires
      BY EmptyUnits DEF NoNet, Wires
    <3>2. ASSUME NEW o \in Servers
          PROVE  [net[c][o] EXCEPT !.phase = "closed", !.down = <<>>] \in Wires
      <4>1. net[c][o] \in Wires
        BY <1>2
      <4> QED BY <4>1, EmptyUnits DEF Wires
    <3>3. [o \in Servers |-> IF net[c][o].phase \in {"relay", "closed"}
                             THEN [net[c][o] EXCEPT !.phase = "closed", !.down = <<>>] ELSE NoNet]
          \in [Servers -> Wires]
      BY <3>1, <3>2
    <3> HIDE DEF Wires, NoNet
    <3> QED BY <1>2, <1>19, <3>3 DEF Complete, Hangup
  <2>3. Types'
    <3>1. sv' \in [Clients -> [Servers -> ServerEnds]] /\ known' \in [Clients -> SUBSET Servers]
          /\ servers' \in Seq(Servers) /\ lists' \in [Clients -> Seq(Seq(Servers))]
      BY <1>8 DEF TorrentInv, Types
    <3>2. act' \in [Clients -> Servers \cup {NoServer}]
      BY <1>9 DEF ActStops
    <3> QED BY <1>9, <1>10, <2>1, <2>2, <3>1, <3>2 DEF Types
  <2>4. act'[c] = NoServer /\ \A d \in Clients : d # c => act'[d] = act[d]
    BY <1>2, <1>7
  <2>5. Running'
    <3> SUFFICES ASSUME NEW d \in Clients
                 PROVE  /\ act'[d] # NoServer => status'[d] = "run"
                        /\ \A o \in Servers : o \notin known'[d] =>
                              cl'[d][o].state = "TC_SERVER_IDLE"
      BY DEF Running
    <3>1. act'[d] # NoServer => status'[d] = "run"
      BY <2>1, <2>4 DEF TorrentInv, Running
    <3>2. ASSUME NEW o \in Servers, o \notin known'[d] PROVE cl'[d][o].state = "TC_SERVER_IDLE"
      <4>1. cl[d][o].state = "TC_SERVER_IDLE"
        BY <1>8, <3>2 DEF TorrentInv, Running
      <4>2. <<d, o>> # <<c, s>>
        BY <1>1, <4>1
      <4> QED BY <1>10, <4>1, <4>2 DEF OthersStay
    <3> QED BY <3>1, <3>2
  <2>6. Connections'
    <3> SUFFICES ASSUME NEW d \in Clients, status'[d] = "run", NEW o \in Servers
                 PROVE  Connected(cl'[d][o], sv'[d][o], net'[d][o])
      BY DEF Connections, Connected, Gone, Handshake, Asked, Exchanging, Exchanged, Told,
             Waits, Counts, Contains
    <3>1. d # c /\ status[d] = "run"
      BY <2>1
    <3>2. cl'[d][o] = cl[d][o] /\ sv'[d][o] = sv[d][o] /\ net'[d][o] = net[d][o]
      BY <1>8, <1>10, <2>2, <3>1 DEF OthersStay
    <3> QED BY <3>1, <3>2 DEF TorrentInv, Connections
  <2>7. Conserved'
    BY <1>2, <1>17, <2>1
  <2> QED BY <1>1, <1>6, <1>7, <2>3, <2>5, <2>6, <2>7 DEF TorrentInv
<1> QED BY <1>3, <1>18, <1>19

\* A step of the server end, or of the network.
LEMMA OneServerEnd ==
    ASSUME TorrentInv, NEW c \in Clients, NEW s \in Servers,
           NEW v \in ServerEnds, NEW w \in Wires,
           UNCHANGED <<servers, lists, known, status, countVars, act, cl>>,
           sv' = [sv EXCEPT ![c][s] = v], net' = [net EXCEPT ![c][s] = w],
           Connected(cl[c][s], sv[c][s], net[c][s]) => Connected(cl[c][s], v, w)
    PROVE  TorrentInv'
<1>1. PICK e \in ClientEnds : e = cl[c][s] /\ cl = [cl EXCEPT ![c][s] = e]
  BY Here
<1>2. /\ UNCHANGED <<servers, lists, known, status, countVars>>
      /\ act' = act /\ cl' = [cl EXCEPT ![c][s] = e]
  BY <1>1
<1>3. status[c] = "run" => Connected(e, v, w)
  BY <1>1, Here
<1>4. /\ e.state = "TC_SERVER_IDLE" \/ cl[c][s].state # "TC_SERVER_IDLE"
      /\ e.state \in {"TC_SERVER_TRANSFER", "TC_SERVER_FINISHED"}
         <=> cl[c][s].state \in {"TC_SERVER_TRANSFER", "TC_SERVER_FINISHED"}
  BY <1>1
<1> QED BY <1>2, <1>3, <1>4, OneConnection

LEMMA AtServerKeeps ==
    ASSUME TorrentInv, NEW c \in Clients, NEW s \in Servers,
           NEW v \in ServerEnds, NEW w \in Wires, AtServer(c, s, v, w),
           Connected(cl[c][s], sv[c][s], net[c][s]) => Connected(cl[c][s], v, w)
    PROVE  TorrentInv' /\ UNCHANGED downloaded
<1>1. /\ UNCHANGED <<servers, lists, known, status, countVars, act, cl>>
      /\ sv' = [sv EXCEPT ![c][s] = v] /\ net' = [net EXCEPT ![c][s] = w]
      /\ UNCHANGED downloaded
  BY DEF AtServer, authVars, countVars
<1> QED BY <1>1, OneServerEnd

LEMMA AcceptStepKeeps ==
    ASSUME TorrentInv, NEW c \in Clients, NEW s \in Servers, Accept(c, s)
    PROVE  TorrentInv' /\ UNCHANGED downloaded
<1> DEFINE f == [NoServerEnd EXCEPT !.state = "TS_IDLE", !.ev = {"IN"}]
<1>1. f \in ServerEnds /\ f.state = "TS_IDLE"
  BY DEF NoServerEnd, ServerEnds
<1>2. net[c][s].phase = "relay" /\ sv[c][s].state = "none" /\ AtServer(c, s, f, net[c][s])
  BY DEF Accept
<1>3. cl[c][s] \in ClientEnds /\ sv[c][s] \in ServerEnds /\ net[c][s] \in Wires
  BY Here
<1> HIDE DEF f
<1>4. Connected(cl[c][s], sv[c][s], net[c][s]) => Connected(cl[c][s], f, net[c][s])
  BY <1>1, <1>2, <1>3, AcceptKeeps
<1> QED BY <1>1, <1>2, <1>3, <1>4, AtServerKeeps

LEMMA ReadRequestKeeps ==
    ASSUME TorrentInv, NEW c \in Clients, NEW s \in Servers, ReadRequest(c, s)
    PROVE  TorrentInv' /\ UNCHANGED downloaded
<1> DEFINE e == cl[c][s]
           v == sv[c][s]
           w == net[c][s]
           fresh == IF v.state = "TS_IDLE" THEN [v EXCEPT !.down = 0, !.up = 0] ELSE v
<1>1. e \in ClientEnds /\ v \in ServerEnds /\ w \in Wires
  BY Here
<1>2. v.state \in {"TS_IDLE", "TS_REQUEST"}
  BY DEF ReadRequest
<1>3. PICK n \in 1..Len(w.up) :
         AtServer(c, s,
             IF Contains(SubSeq(w.up, 1, n), "FILE_REQUEST")
             THEN [fresh EXCEPT !.state = "TS_TRANSFER", !.ev = {"IN", "OUT"}]
             ELSE [fresh EXCEPT !.state = "TS_REQUEST", !.ev = {"IN"}],
             [w EXCEPT !.up = Rest(@, n)])
  BY DEF ReadRequest
<1>4. /\ fresh \in ServerEnds
      /\ v.state = "TS_IDLE" => fresh.down = 0 /\ fresh.up = 0
      /\ v.state = "TS_REQUEST" => fresh.down = v.down /\ fresh.up = v.up
  BY <1>1 DEF ServerEnds
<1> HIDE DEF fresh
<1> DEFINE f == IF Contains(SubSeq(w.up, 1, n), "FILE_REQUEST")
                THEN [fresh EXCEPT !.state = "TS_TRANSFER", !.ev = {"IN", "OUT"}]
                ELSE [fresh EXCEPT !.state = "TS_REQUEST", !.ev = {"IN"}]
           x == [w EXCEPT !.up = Rest(@, n)]
<1>5. /\ f \in ServerEnds /\ f.down = fresh.down /\ f.up = fresh.up
      /\ f.state = IF Contains(SubSeq(w.up, 1, n), "FILE_REQUEST") THEN "TS_TRANSFER"
                   ELSE "TS_REQUEST"
  BY <1>4 DEF ServerEnds
<1>6. x \in Wires /\ x.phase = w.phase /\ x.down = w.down /\ x.up = Rest(w.up, n)
  <2>1. w.up \in Seq(Units) /\ Len(w.up) \in Nat
    BY <1>1, LenProperties DEF Wires
  <2>2. n \in 0..Len(w.up)
    BY <2>1
  <2>3. PICK u \in Seq(Units) : u = Rest(w.up, n)
    BY <2>1, <2>2, CutUnits
  <2>4. x = [w EXCEPT !.up = u]
    BY <1>1, <2>3 DEF Wires
  <2> HIDE DEF x
  <2> QED BY <1>1, <2>3, <2>4 DEF Wires
<1>7. AtServer(c, s, f, x)
  BY <1>3
<1> HIDE DEF f, x
<1>8. /\ v.state = "TS_IDLE" => f.down = 0 /\ f.up = 0
      /\ v.state = "TS_REQUEST" => f.down = v.down /\ f.up = v.up
  BY <1>4, <1>5
<1>9. Connected(e, v, w) => Connected(e, f, x)
  <2> HIDE DEF e, v, w
  <2> QED BY <1>1, <1>2, <1>5, <1>6, <1>8, ReadKeeps
<1> QED BY <1>5, <1>6, <1>7, <1>9, AtServerKeeps

LEMMA ExchangeStepKeeps ==
    ASSUME TorrentInv, NEW c \in Clients, NEW s \in Servers, Exchange(c, s)
    PROVE  TorrentInv' /\ UNCHANGED downloaded
<1> DEFINE e == cl[c][s]
           v == sv[c][s]
           w == net[c][s]
<1>1. e \in ClientEnds /\ v \in ServerEnds /\ w \in Wires
  BY Here
<1>2. v.state = "TS_TRANSFER"
  BY DEF Exchange
<1>3. PICK n \in 0..Len(w.up), m \in 0..Room :
         LET f == [v EXCEPT !.down = @ + n, !.up = @ + m]
         IN  /\ n = 0 \/ n <= UpBlock - v.down
             /\ m = 0 \/ (m = Least(LeftToSend(v), Room - Len(w.down)) /\ w.phase = "relay")
             /\ AtServer(c, s,
                    IF BothWays(f) THEN [f EXCEPT !.state = "TS_FINISHED", !.ev = {"OUT"}]
                    ELSE IF f.down >= UpBlock THEN [f EXCEPT !.ev = {"OUT"}]
                    ELSE IF f.up >= DownBlock THEN [f EXCEPT !.ev = {"IN"}] ELSE f,
                    [w EXCEPT !.up = Rest(@, n), !.down = @ \o Block(m)])
  <2>1. PICK events \in SUBSET v.ev \ {{}}, n \in 0..Len(w.up), m \in 0..Room :
           LET f == [v EXCEPT !.down = @ + n, !.up = @ + m]
           IN  /\ IF "IN" \in events /\ v.down < UpBlock
                  THEN n > 0 /\ n <= UpBlock - v.down ELSE n = 0
               /\ IF "OUT" \in events /\ v.up < DownBlock
                  THEN m > 0 /\ m = Least(LeftToSend(v), Room - Len(w.down))
                       /\ w.phase = "relay"
                  ELSE m = 0
               /\ AtServer(c, s,
                      IF BothWays(f) THEN [f EXCEPT !.state = "TS_FINISHED", !.ev = {"OUT"}]
                      ELSE IF f.down >= UpBlock THEN [f EXCEPT !.ev = {"OUT"}]
                      ELSE IF f.up >= DownBlock THEN [f EXCEPT !.ev = {"IN"}] ELSE f,
                      [w EXCEPT !.up = Rest(@, n), !.down = @ \o Block(m)])
    BY DEF Exchange
  <2>2. n = 0 \/ n <= UpBlock - v.down
    BY <2>1
  <2>3. m = 0 \/ (m = Least(LeftToSend(v), Room - Len(w.down)) /\ w.phase = "relay")
    <3>1. CASE "OUT" \in events /\ v.up < DownBlock
      <4>1. m = Least(LeftToSend(v), Room - Len(w.down)) /\ w.phase = "relay"
        BY <2>1, <3>1
      <4> QED BY <4>1
    <3>2. CASE ~("OUT" \in events /\ v.up < DownBlock)
      <4>1. m = 0
        BY <2>1, <3>2
      <4> QED BY <4>1
    <3> QED BY <3>1, <3>2
  <2> QED BY <2>1, <2>2, <2>3
<1>4. /\ w.up \in Seq(Units) /\ Len(w.up) \in Nat /\ w.down \in Seq(Units) /\ Len(w.down) \in Nat
      /\ v.down \in Nat /\ v.up \in Nat
  BY <1>1, LenProperties DEF ServerEnds, Wires
<1>5. n \in Nat /\ m \in Nat /\ (m = 0 \/ m <= DownBlock - v.up)
  <2> DEFINE a == DownBlock - v.up
             b == Room - Len(w.down)
  <2>0. n \in Nat /\ m \in Nat
    BY <1>3, <1>4, Sizes
  <2>1. a \in Int /\ b \in Int /\ (m = 0 \/ m = Least(a, b))
    <3>1. m = 0 \/ m = Least(LeftToSend(v), b)
      BY <1>3
    <3>2. LeftToSend(v) = a
      BY DEF LeftToSend
    <3> QED BY <1>4, <3>1, <3>2, Sizes
  <2> HIDE DEF a, b
  <2>2. m = 0 \/ m <= a
    BY <2>0, <2>1 DEF Least
  <2> QED BY <2>0, <2>2 DEF a
<1>6. PICK g \in ServerEnds : /\ g = [v EXCEPT !.down = @ + n, !.up = @ + m]
                              /\ g.down = v.down + n /\ g.up = v.up + m
                              /\ g.state = "TS_TRANSFER"
  <2>0. v.down + n \in Nat /\ v.up + m \in Nat
    <3>1. v.down \in Nat /\ v.up \in Nat /\ n \in Nat /\ m \in Nat
      BY <1>4, <1>5
    <3> QED BY <3>1
  <2>1. PICK j \in Nat, k \in Nat : j = v.down + n /\ k = v.up + m
    BY <2>0
  <2>2. [v EXCEPT !.down = @ + n, !.up = @ + m] = [v EXCEPT !.down = j, !.up = k]
    BY <1>1, <2>1 DEF ServerEnds
  <2>3. PICK g \in ServerEnds : g = [v EXCEPT !.down = j, !.up = k]
    BY <1>1 DEF ServerEnds
  <2>4. g.down = j /\ g.up = k /\ g.state = "TS_TRANSFER"
    BY <1>1, <1>2, <2>3 DEF ServerEnds
  <2> QED BY <2>1, <2>2, <2>3, <2>4
<1> DEFINE f == IF BothWays(g) THEN [g EXCEPT !.state = "TS_FINISHED", !.ev = {"OUT"}]
                ELSE IF g.down >= UpBlock THEN [g EXCEPT !.ev = {"OUT"}]
                ELSE IF g.up >= DownBlock THEN [g EXCEPT !.ev = {"IN"}] ELSE g
           x == [w EXCEPT !.up = Rest(@, n), !.down = @ \o Block(m)]
<1>7. /\ f \in ServerEnds /\ f.down = v.down + n /\ f.up = v.up + m
      /\ f.state = IF f.down >= UpBlock /\ f.up >= DownBlock THEN "TS_FINISHED"
                   ELSE "TS_TRANSFER"
  <2>1. f \in ServerEnds /\ f.down = g.down /\ f.up = g.up
        /\ f.state = IF BothWays(g) THEN "TS_FINISHED" ELSE "TS_TRANSFER"
    BY <1>6 DEF ServerEnds
  <2>2. BothWays(g) <=> f.down >= UpBlock /\ f.up >= DownBlock
    BY <2>1 DEF BothWays
  <2> HIDE DEF f
  <2> QED BY <1>6, <2>1, <2>2
<1>8. /\ x \in Wires /\ x.phase = w.phase /\ x.up = Rest(w.up, n)
      /\ x.down = w.down \o Block(m)
  <2>1. PICK u \in Seq(Units), d \in Seq(Units) : u = Rest(w.up, n) /\ d = w.down \o Block(m)
    BY <1>4, <1>5, CutUnits, BlockUnits, JoinUnits
  <2>2. x = [w EXCEPT !.up = u, !.down = d]
    BY <1>1, <2>1 DEF Wires
  <2> HIDE DEF x
  <2>3. x \in Wires /\ x.phase = w.phase /\ x.up = u /\ x.down = d
    BY <1>1, <2>2 DEF Wires
  <2> QED BY <2>1, <2>3
<1>9. AtServer(c, s, f, x)
  BY <1>3, <1>6
<1> HIDE DEF f, x
<1>10. /\ n \in 0..Len(w.up) /\ (n = 0 \/ n <= UpBlock - v.down)
       /\ m # 0 => w.phase = "relay"
  BY <1>3
<1>11. Connected(e, v, w) => Connected(e, f, x)
  <2> HIDE DEF e, v, w
  <2> QED BY <1>1, <1>2, <1>5, <1>7, <1>8, <1>10, ExchangeKeeps
<1> QED BY <1>7, <1>8, <1>9, <1>11, AtServerKeeps

LEMMA SayFinishedKeeps ==
    ASSUME TorrentInv, NEW c \in Clients, NEW s \in Servers, SayFinished(c, s)
    PROVE  TorrentInv' /\ UNCHANGED downloaded
<1> DEFINE e == cl[c][s]
           v == sv[c][s]
           w == net[c][s]
           f == [v EXCEPT !.state = "TS_IDLE", !.ev = {"IN"}]
           x == [w EXCEPT !.down = Append(@, <<"FINISHED", 1>>)]
<1>1. e \in ClientEnds /\ v \in ServerEnds /\ w \in Wires
  BY Here
<1>2. v.state = "TS_FINISHED" /\ w.phase = "relay" /\ AtServer(c, s, f, x)
  BY DEF SayFinished
<1>3. f \in ServerEnds /\ f.down = v.down /\ f.up = v.up /\ f.state = "TS_IDLE"
  BY <1>1 DEF ServerEnds
<1>4. /\ x \in Wires /\ x.phase = w.phase /\ x.up = w.up
      /\ x.down = Append(w.down, <<"FINISHED", 1>>)
  <2>1. w.down \in Seq(Units)
    BY <1>1 DEF Wires
  <2>2. PICK u \in Seq(Units) : u = Append(w.down, <<"FINISHED", 1>>)
    BY <2>1, AppendUnit
  <2>3. x = [w EXCEPT !.down = u]
    BY <1>1, <2>2 DEF Wires
  <2> HIDE DEF x
  <2> QED BY <1>1, <2>2, <2>3 DEF Wires
<1> HIDE DEF f, x
<1>5. Connected(e, v, w) => Connected(e, f, x)
  <2> HIDE DEF e, v, w
  <2> QED BY <1>1, <1>2, <1>3, <1>4, SayKeeps
<1> QED BY <1>2, <1>3, <1>4, <1>5, AtServerKeeps

LEMMA ServerCloseKeeps ==
    ASSUME TorrentInv, NEW c \in Clients, NEW s \in Servers, ServerClose(c, s)
    PROVE  TorrentInv' /\ UNCHANGED downloaded
<1>1. NoServerEnd \in ServerEnds /\ net[c][s] \in Wires
  BY Here DEF NoServerEnd, ServerEnds
<1>2. net[c][s].phase = "closed" /\ AtServer(c, s, NoServerEnd, net[c][s])
  BY DEF ServerClose
<1>3. Connected(cl[c][s], sv[c][s], net[c][s]) => Connected(cl[c][s], NoServerEnd, net[c][s])
  BY <1>2 DEF Connected, Gone, Handshake, Asked, Exchanging, Exchanged, Told
<1> QED BY <1>1, <1>2, <1>3, AtServerKeeps

LEMMA AtNetKeeps ==
    ASSUME TorrentInv, NEW c \in Clients, NEW s \in Servers, NEW w \in Wires, AtNet(c, s, w),
           Connected(cl[c][s], sv[c][s], net[c][s]) => Connected(cl[c][s], sv[c][s], w)
    PROVE  TorrentInv' /\ UNCHANGED downloaded
<1>1. PICK v \in ServerEnds : v = sv[c][s] /\ sv = [sv EXCEPT ![c][s] = v]
  BY Here
<1>2. /\ UNCHANGED <<servers, lists, known, status, countVars, act, cl>>
      /\ sv' = [sv EXCEPT ![c][s] = v] /\ net' = [net EXCEPT ![c][s] = w]
      /\ UNCHANGED downloaded
  BY <1>1 DEF AtNet, authVars, countVars
<1>3. Connected(cl[c][s], sv[c][s], net[c][s]) => Connected(cl[c][s], v, w)
  BY <1>1
<1> QED BY <1>2, <1>3, OneServerEnd

LEMMA NetworkKeeps ==
    ASSUME TorrentInv, NEW c \in Clients, NEW s \in Servers,
           Connect(c, s) \/ Proxy(c, s) \/ Reset(c, s)
    PROVE  TorrentInv' /\ UNCHANGED downloaded
<1> DEFINE e == cl[c][s]
           v == sv[c][s]
           w == net[c][s]
<1>1. e \in ClientEnds /\ v \in ServerEnds /\ w \in Wires
  BY Here
<1>2. CASE Connect(c, s)
  <2> DEFINE x == [w EXCEPT !.phase = IF UseProxy THEN "init" ELSE "relay"]
  <2>1. w.phase = "connecting" /\ AtNet(c, s, x)
    BY <1>2 DEF Connect
  <2>2. x \in Wires /\ x.phase \in {"init", "relay"} /\ x.up = w.up /\ x.down = w.down
    BY <1>1 DEF Wires
  <2> HIDE DEF x
  <2>3. Connected(e, v, w) => Connected(e, v, x)
    <3> HIDE DEF e, v, w
    <3> QED BY <1>1, <2>1, <2>2, ConnectKeeps
  <2> QED BY <2>1, <2>2, <2>3, AtNetKeeps
<1>3. CASE Proxy(c, s)
  <2>1. PICK m \in {"choice", "noauth", "granted", "failed"}, p \in {"init", "conn", "relay"} :
           /\ w.phase \in {"init", "conn"} /\ Len(w.up) >= 2
           /\ AtNet(c, s, [w EXCEPT !.up = Rest(@, 2), !.phase = p, !.down = Both(m)])
    <3>1. [w EXCEPT !.up = Rest(@, 2), !.down = Both("noauth")] =
             [w EXCEPT !.up = Rest(@, 2), !.phase = w.phase, !.down = Both("noauth")]
      BY <1>1 DEF Wires
    <3>2. [w EXCEPT !.up = Rest(@, 2), !.down = Both("failed")] =
             [w EXCEPT !.up = Rest(@, 2), !.phase = w.phase, !.down = Both("failed")]
      BY <1>1 DEF Wires
    <3>3. CASE ProxyAnswers(c, s, "init", "conn", "choice", "noauth", "reject")
      BY <3>1, <3>3 DEF ProxyAnswers
    <3>4. CASE ProxyAnswers(c, s, "conn", "relay", "granted", "failed", "refuse")
      BY <3>2, <3>4 DEF ProxyAnswers
    <3> QED BY <1>3, <3>3, <3>4 DEF Proxy
  <2> DEFINE x == [w EXCEPT !.up = Rest(@, 2), !.phase = p, !.down = Both(m)]
  <2>2. /\ x \in Wires /\ x.phase = p /\ x.up = Rest(w.up, 2) /\ x.down = Both(m)
    <3>1. w.up \in Seq(Units) /\ Len(w.up) \in Nat
      BY <1>1, LenProperties DEF Wires
    <3>2. 2 \in 0..Len(w.up)
      BY <2>1, <3>1
    <3>3. PICK u \in Seq(Units), d \in Seq(Units) : u = Rest(w.up, 2) /\ d = Both(m)
      BY <3>1, <3>2, CutUnits, BothUnits
    <3>4. x = [w EXCEPT !.up = u, !.phase = p, !.down = d]
      BY <1>1, <3>3 DEF Wires
    <3> HIDE DEF x
    <3>5. x \in Wires /\ x.phase = p /\ x.up = u /\ x.down = d
      BY <1>1, <3>4 DEF Wires
    <3> QED BY <3>3, <3>5
  <2>3. AtNet(c, s, x)
    BY <2>1
  <2> HIDE DEF x
  <2>4. Connected(e, v, w) => Connected(e, v, x)
    <3>1. w.phase \in {"init", "conn"} /\ Len(w.up) >= 2 /\ x.phase \in {"init", "conn", "relay"}
      BY <2>1, <2>2
    <3> HIDE DEF e, v, w
    <3> QED BY <1>1, <2>2, <3>1, ProxyKeeps
  <2> QED BY <2>2, <2>3, <2>4, AtNetKeeps
<1>4. CASE Reset(c, s)
  <2> DEFINE x == [NoNet EXCEPT !.phase = "reset"]
  <2>1. x \in Wires /\ Gone(x)
    BY EmptyUnits DEF NoNet, Wires, Gone
  <2>2. AtNet(c, s, x)
    BY <1>4 DEF Reset
  <2> HIDE DEF x
  <2>3. Connected(e, v, w) => Connected(e, v, x)
    BY <2>1 DEF Connected
  <2> QED BY <2>1, <2>2, <2>3, AtNetKeeps
<1> QED BY <1>2, <1>3, <1>4

-----------------------------------------------------------------------------
(* The actions that concern no connection, or new ones.                    *)

\* Everything that TorrentInv speaks of, apart from the activation of a client.
connVars == <<known, countVars, status, cl, sv, net>>

LEMMA ListsKeep ==
    ASSUME TorrentInv, UNCHANGED connVars, UNCHANGED act,
           servers' \in Seq(Servers), lists' \in [Clients -> Seq(Seq(Servers))]
    PROVE  TorrentInv' /\ UNCHANGED downloaded
<1>1. Types'
  BY DEF TorrentInv, Types, connVars, countVars
<1>2. Running'
  BY DEF TorrentInv, Running, connVars
<1>3. Conserved'
  BY CountsStay DEF connVars, countVars
<1>4. Connections'
  <2> SUFFICES ASSUME NEW d \in Clients, status'[d] = "run", NEW o \in Servers
               PROVE  Connected(cl'[d][o], sv'[d][o], net'[d][o])
    BY DEF Connections, Connected, Gone, Handshake, Asked, Exchanging, Exchanged, Told,
           Waits, Counts, Contains
  <2>1. cl'[d][o] = cl[d][o] /\ sv'[d][o] = sv[d][o] /\ net'[d][o] = net[d][o]
        /\ status[d] = "run"
    BY DEF connVars
  <2> QED BY <2>1 DEF TorrentInv, Connections
<1> QED BY <1>1, <1>2, <1>3, <1>4 DEF TorrentInv, connVars, countVars

LEMMA AuthorityKeeps ==
    ASSUME TorrentInv,
           \/ \E h \in Clients \cup Servers : TellAuthority(h)
           \/ \E s \in Servers : HandleRegister(s)
           \/ \E c \in Clients : HandleRequestNodes(c)
    PROVE  TorrentInv' /\ UNCHANGED downloaded
<1>1. servers \in Seq(Servers) /\ lists \in [Clients -> Seq(Seq(Servers))]
  BY DEF TorrentInv, Types
<1>2. ASSUME NEW h \in Clients \cup Servers, TellAuthority(h)
      PROVE  TorrentInv' /\ UNCHANGED downloaded
  <2>1. UNCHANGED connVars /\ UNCHANGED act /\ UNCHANGED <<servers, lists>>
    BY <1>2 DEF TellAuthority, connVars, countVars
  <2> QED BY <1>1, <2>1, ListsKeep
<1>3. ASSUME NEW s \in Servers, HandleRegister(s)
      PROVE  TorrentInv' /\ UNCHANGED downloaded
  <2>1. UNCHANGED connVars /\ UNCHANGED act
    BY <1>3 DEF HandleRegister, connVars, countVars
  <2>2. servers' \in Seq(Servers)
    BY <1>1, <1>3, AppendProperties DEF HandleRegister
  <2>3. <<s>> \in Seq(Servers)
    OBVIOUS
  <2>4. \A c \in Clients : lists[c] \in Seq(Seq(Servers))
                           /\ Append(lists[c], <<s>>) \in Seq(Seq(Servers))
    BY <1>1, <2>3, AppendProperties
  <2>5. lists' \in [Clients -> Seq(Seq(Servers))]
    BY <1>3, <2>4 DEF HandleRegister
  <2> QED BY <2>1, <2>2, <2>5, ListsKeep
<1>4. ASSUME NEW c \in Clients, HandleRequestNodes(c)
      PROVE  TorrentInv' /\ UNCHANGED downloaded
  <2>1. UNCHANGED connVars /\ UNCHANGED act /\ UNCHANGED servers
    BY <1>4 DEF HandleRequestNodes, connVars, countVars
  <2>2. Append(lists[c], servers) \in Seq(Seq(Servers))
    BY <1>1, AppendProperties
  <2>3. lists' \in [Clients -> Seq(Seq(Servers))]
    BY <1>1, <1>4, <2>2 DEF HandleRequestNodes
  <2> QED BY <1>1, <2>1, <2>3, ListsKeep
<1> QED BY <1>2, <1>3, <1>4

\* Only servers that the client did not know get a connection.
LEMMA ReceiveNodesKeeps ==
    ASSUME TorrentInv, NEW c \in Clients, ReceiveNodes(c)
    PROVE  TorrentInv' /\ UNCHANGED downloaded
<1>1. PICK n \in 1..Len(lists[c]) :
         LET new == Unknown(c, Head(lists[c]))
         IN  /\ lists' = [lists EXCEPT ![c] = Rest(@, n)]
             /\ known' = [known EXCEPT ![c] = @ \cup new]
             /\ cl' = [cl EXCEPT ![c] = [s \in Servers |->
                          IF s \in new THEN Opening ELSE cl[c][s]]]
             /\ net' = [net EXCEPT ![c] = [s \in Servers |->
                           IF s \in new THEN [NoNet EXCEPT !.phase = "connecting"]
                           ELSE net[c][s]]]
             /\ sv' = [sv EXCEPT ![c] = [s \in Servers |->
                          IF s \in new THEN NoServerEnd ELSE sv[c][s]]]
  BY DEF ReceiveNodes
<1> DEFINE new == Unknown(c, Head(lists[c]))
           first == [NoNet EXCEPT !.phase = "connecting"]
<1>2. /\ servers \in Seq(Servers) /\ lists \in [Clients -> Seq(Seq(Servers))]
      /\ known \in [Clients -> SUBSET Servers]
      /\ remaining \in [Clients -> Nat] /\ downloaded \in [Clients -> Nat]
      /\ status \in [Clients -> {"run", "complete", "crashed"}]
      /\ act \in [Clients -> Servers \cup {NoServer}]
      /\ cl \in [Clients -> [Servers -> ClientEnds]]
      /\ sv \in [Clients -> [Servers -> ServerEnds]]
      /\ net \in [Clients -> [Servers -> Wires]]
  BY DEF TorrentInv, Types
<1>3. lists[c] \in Seq(Seq(Servers)) /\ Len(lists[c]) \in Nat /\ lists[c] # <<>>
  <2>1. lists[c] \in Seq(Seq(Servers)) /\ Len(lists[c]) \in Nat
    BY <1>2, LenProperties
  <2>2. Len(lists[c]) # 0
    BY <1>1, <2>1
  <2> QED BY <2>1, <2>2, EmptySeq
<1>4. Head(lists[c]) \in Seq(Servers) /\ Rest(lists[c], n) \in Seq(Seq(Servers))
  <2>1. Head(lists[c]) \in Seq(Servers)
    BY <1>3, HeadTailProperties
  <2>2. n + 1 \in Int /\ Len(lists[c]) \in Int /\ \A i \in n + 1..Len(lists[c]) : i \in 1..Len(lists[c])
    BY <1>1, <1>3
  <2>3. \A i \in n + 1..Len(lists[c]) : lists[c][i] \in Seq(Servers)
    BY <1>3, <2>2, ElementOfSeq
  <2>4. SubSeq(lists[c], n + 1, Len(lists[c])) \in Seq(Seq(Servers))
    BY <2>2, <2>3, SubSeqProperties
  <2> QED BY <2>1, <2>4 DEF Rest
<1>5. new \subseteq Servers /\ new \cap known[c] = {}
  <2>1. \A i \in 1..Len(Head(lists[c])) : Head(lists[c])[i] \in Servers
    BY <1>4, ElementOfSeq
  <2> QED BY <2>1 DEF Unknown
<1>6. /\ Opening \in ClientEnds /\ Opening.buf = <<>>
      /\ Opening.state = IF UseProxy THEN "TC_SOCKS_REQUEST_INIT" ELSE "TC_SERVER_REQUEST"
      /\ NoServerEnd \in ServerEnds /\ NoServerEnd.state = "none"
      /\ first \in Wires /\ first.phase = "connecting" /\ first.up = <<>> /\ first.down = <<>>
  BY EmptyUnits DEF Opening, NoClientEnd, NoServerEnd, NoNet, ClientEnds, ServerEnds, Wires,
                    Asking, AtServerStates
<1>7. Connected(Opening, NoServerEnd, first)
  <2>1. Waits(NoServerEnd) /\ ~Contains(first.up, "FILE_REQUEST")
    BY <1>6, EmptyUnits DEF Waits
  <2>2. Handshake(Opening, NoServerEnd, first)
    <3>1. CASE UseProxy
      BY <1>6, <2>1, <3>1 DEF Handshake, Asking
    <3>2. CASE ~UseProxy
      BY <1>6, <2>1, <3>2 DEF Handshake
    <3> QED BY <3>1, <3>2
  <2> QED BY <2>2 DEF Connected
<1> HIDE DEF new, first
<1>8. /\ lists' = [lists EXCEPT ![c] = Rest(@, n)] /\ known' = [known EXCEPT ![c] = @ \cup new]
      /\ cl' = [cl EXCEPT ![c] = [s \in Servers |-> IF s \in new THEN Opening ELSE cl[c][s]]]
      /\ net' = [net EXCEPT ![c] = [s \in Servers |-> IF s \in new THEN first ELSE net[c][s]]]
      /\ sv' = [sv EXCEPT ![c] = [s \in Servers |-> IF s \in new THEN NoServerEnd ELSE sv[c][s]]]
  BY <1>1 DEF new, first
<1>9. UNCHANGED <<servers, countVars, downloaded, remaining, status, act>>
  BY DEF ReceiveNodes, countVars
<1>10. /\ \A s \in Servers : /\ cl'[c][s] = IF s \in new THEN Opening ELSE cl[c][s]
                             /\ net'[c][s] = IF s \in new THEN first ELSE net[c][s]
                             /\ sv'[c][s] = IF s \in new THEN NoServerEnd ELSE sv[c][s]
       /\ known'[c] = known[c] \cup new
       /\ \A d \in Clients : d # c => /\ cl'[d] = cl[d] /\ net'[d] = net[d]
                                      /\ sv'[d] = sv[d] /\ known'[d] = known[d]
  BY <1>2, <1>8
<1>11. Types'
  <2>1. /\ [s \in Servers |-> IF s \in new THEN Opening ELSE cl[c][s]] \in [Servers -> ClientEnds]
        /\ [s \in Servers |-> IF s \in new THEN first ELSE net[c][s]] \in [Servers -> Wires]
        /\ [s \in Servers |-> IF s \in new THEN NoServerEnd ELSE sv[c][s]] \in [Servers -> ServerEnds]
    <3> HIDE DEF ClientEnds, ServerEnds, Wires
    <3> QED BY <1>2, <1>6
  <2>2. /\ cl' \in [Clients -> [Servers -> ClientEnds]]
        /\ sv' \in [Clients -> [Servers -> ServerEnds]]
        /\ net' \in [Clients -> [Servers -> Wires]]
    <3> HIDE DEF ClientEnds, ServerEnds, Wires
    <3> QED BY <1>2, <1>8, <2>1
  <2>3. lists' \in [Clients -> Seq(Seq(Servers))] /\ known' \in [Clients -> SUBSET Servers]
    BY <1>2, <1>4, <1>5, <1>8
  <2> QED BY <1>2, <1>9, <2>2, <2>3 DEF Types
<1>12. Running'
  <2> SUFFICES ASSUME NEW d \in Clients
               PROVE  /\ act'[d] # NoServer => status'[d] = "run"
                      /\ \A o \in Servers : o \notin known'[d] =>
                            cl'[d][o].state = "TC_SERVER_IDLE"
    BY DEF Running
  <2>1. act'[d] # NoServer => status'[d] = "run"
    BY <1>9 DEF TorrentInv, Running
  <2>2. ASSUME NEW o \in Servers, o \notin known'[d] PROVE cl'[d][o].state = "TC_SERVER_IDLE"
    <3>1. o \notin known[d] /\ cl'[d][o] = cl[d][o]
      BY <1>10, <2>2
    <3> QED BY <3>1 DEF TorrentInv, Running
  <2> QED BY <2>1, <2>2
<1>13. Connections'
  <2> SUFFICES ASSUME NEW d \in Clients, status'[d] = "run", NEW o \in Servers
               PROVE  Connected(cl'[d][o], sv'[d][o], net'[d][o])
    BY DEF Connections, Connected, Gone, Handshake, Asked, Exchanging, Exchanged, Told,
           Waits, Counts, Contains
  <2>1. CASE d = c /\ o \in new
    BY <1>7, <1>10, <2>1
  <2>2. CASE ~(d = c /\ o \in new)
    BY <1>9, <1>10, <2>2 DEF TorrentInv, Connections
  <2> QED BY <2>1, <2>2
<1>14. Conserved'
  <2>1. ASSUME NEW d \in Clients, NEW o \in Servers
        PROVE  cl'[d][o].state \in {"TC_SERVER_TRANSFER", "TC_SERVER_FINISHED"}
               <=> cl[d][o].state \in {"TC_SERVER_TRANSFER", "TC_SERVER_FINISHED"}
    <3>1. CASE d = c /\ o \in new
      <4>1. cl[d][o].state = "TC_SERVER_IDLE"
        BY <1>5, <3>1 DEF TorrentInv, Running
      <4> QED BY <1>6, <1>10, <3>1, <4>1
    <3>2. CASE ~(d = c /\ o \in new)
      BY <1>10, <3>2
    <3> QED BY <3>1, <3>2
  <2> QED BY <1>9, <2>1, CountsStay
<1> QED BY <1>9, <1>11, <1>12, <1>13, <1>14 DEF TorrentInv

LEMMA ClientEventKeeps ==
    ASSUME TorrentInv, NEW c \in Clients, NEW s \in Servers, ClientEvent(c, s)
    PROVE  TorrentInv' /\ UNCHANGED downloaded
<1>1. /\ status[c] = "run" /\ act' = [act EXCEPT ![c] = s] /\ UNCHANGED connVars
      /\ UNCHANGED <<servers, lists>> /\ act \in [Clients -> Servers \cup {NoServer}]
  BY DEF ClientEvent, authVars, connVars, countVars, TorrentInv, Types
<1>2. act' \in [Clients -> Servers \cup {NoServer}] /\ \A d \in Clients : d # c => act'[d] = act[d]
  BY <1>1
<1>3. Types'
  BY <1>1, <1>2 DEF TorrentInv, Types, connVars, countVars
<1>4. Running'
  <2> SUFFICES ASSUME NEW d \in Clients
               PROVE  /\ act'[d] # NoServer => status'[d] = "run"
                      /\ \A o \in Servers : o \notin known'[d] =>
                            cl'[d][o].state = "TC_SERVER_IDLE"
    BY DEF Running
  <2>1. act'[d] # NoServer => status'[d] = "run"
    BY <1>1, <1>2 DEF TorrentInv, Running, connVars
  <2>2. \A o \in Servers : o \notin known'[d] => cl'[d][o].state = "TC_SERVER_IDLE"
    BY <1>1 DEF TorrentInv, Running, connVars
  <2> QED BY <2>1, <2>2
<1>5. Conserved'
  BY <1>1, CountsStay DEF connVars, countVars
<1>6. Connections'
  <2> SUFFICES ASSUME NEW d \in Clients, status'[d] = "run", NEW o \in Servers
               PROVE  Connected(cl'[d][o], sv'[d][o], net'[d][o])
    BY DEF Connections, Connected, Gone, Handshake, Asked, Exchanging, Exchanged, Told,
           Waits, Counts, Contains
  <2>1. cl'[d][o] = cl[d][o] /\ sv'[d][o] = sv[d][o] /\ net'[d][o] = net[d][o]
        /\ status[d] = "run"
    BY <1>1 DEF connVars
  <2> QED BY <2>1 DEF TorrentInv, Connections
<1> QED BY <1>1, <1>3, <1>4, <1>5, <1>6 DEF TorrentInv, connVars, countVars

-----------------------------------------------------------------------------
(* The theorems.                                                           *)

LEMMA InitHolds == TorInit => TorrentInv
<1> SUFFICES ASSUME TorInit PROVE TorrentInv
  OBVIOUS
<1>1. /\ NoClientEnd \in ClientEnds /\ NoClientEnd.state = "TC_SERVER_IDLE"
      /\ NoServerEnd \in ServerEnds /\ NoNet \in Wires
  BY EmptyUnits DEF NoClientEnd, NoServerEnd, NoNet, ClientEnds, ServerEnds, Wires
<1>2. Types
  <2>1. <<>> \in Seq(Servers) /\ <<>> \in Seq(Seq(Servers))
    OBVIOUS
  <2> HIDE DEF NoClientEnd, NoServerEnd, NoNet, ClientEnds, ServerEnds, Wires
  <2> QED BY <1>1, <2>1, Sizes DEF TorInit, Types
<1>3. \A c \in Clients, s \in Servers : cl[c][s] = NoClientEnd
  BY DEF TorInit
<1>4. Running
  BY <1>1, <1>3 DEF TorInit, Running
<1>5. Connections
  BY <1>1, <1>3 DEF Connections, Connected
<1>6. Conserved
  <2>1. \A c \in Clients : UnderWay(c) = {}
    BY <1>1, <1>3 DEF UnderWay
  <2>2. Cardinality({}) = 0 /\ IsFiniteSet({})
    BY FS_EmptySet
  <2>3. \A c \in Clients : remaining[c] + downloaded[c] + 0 = NumBlocks
    BY Sizes DEF TorInit
  <2> QED BY <2>1, <2>2, <2>3 DEF Conserved, BlocksConserved
<1> QED BY <1>2, <1>4, <1>5, <1>6 DEF TorrentInv

\* BlockExact, of one step.
ExactStep ==
    \A c \in Clients : downloaded'[c] = downloaded[c] + 1 =>
        LET s == act[c]
        IN  /\ cl[c][s].down = DownBlock /\ cl[c][s].up = UpBlock
            /\ sv[c][s].down = UpBlock /\ sv[c][s].up = DownBlock
            /\ sv[c][s].state \in {"TS_IDLE", "TS_REQUEST"}

LEMMA NothingCounted ==
    ASSUME TorrentInv,
           \/ UNCHANGED downloaded
           \/ \E c \in Clients :
                 /\ downloaded'[c] = 0
                 /\ \A d \in Clients : d # c => downloaded'[d] = downloaded[d]
    PROVE  ExactStep
<1>1. \A c \in Clients : downloaded[c] \in Nat
  BY DEF TorrentInv, Types
<1>2. ASSUME NEW c \in Clients PROVE downloaded'[c] # downloaded[c] + 1
  <2>1. downloaded'[c] = downloaded[c] \/ downloaded'[c] = 0
    OBVIOUS
  <2> QED BY <1>1, <2>1
<1> QED BY <1>2 DEF ExactStep

LEMMA ClientStepHolds ==
    ASSUME TorrentInv, NEW c \in Clients, ClientStep(c)
    PROVE  TorrentInv' /\ ExactStep
<1>1. PICK s \in Servers :
         \/ SocksRequest(c, s) \/ SocksToReply(c, s) \/ SocksReplyInit(c, s)
         \/ SocksReplyConn(c, s) \/ Send(c, s) \/ Receive(c, s) \/ ServerRequest(c, s)
         \/ ServerTransfer(c, s) \/ ServerFinished(c, s) \/ Blocks(c, s) \/ Fatal(c, s)
  BY DEF ClientStep
<1>2. CASE Restart(c)
  <2>1. /\ TorrentInv' /\ downloaded'[c] = 0
        /\ \A d \in Clients : d # c => downloaded'[d] = downloaded[d]
    BY <1>2, RestartKeeps
  <2>2. ExactStep
    BY <2>1, NothingCounted
  <2> QED BY <2>1, <2>2
<1>3. CASE SocksRequest(c, s)
  <2>1. UNCHANGED downloaded
    BY <1>3 DEF SocksRequest, Goes, countVars
  <2> QED BY <1>3, <2>1, SocksRequestKeeps, NothingCounted
<1>4. CASE SocksToReply(c, s)
  <2>1. UNCHANGED downloaded
    BY <1>4 DEF SocksToReply, Goes, countVars
  <2> QED BY <1>4, <2>1, SocksToReplyKeeps, NothingCounted
<1>5. CASE SocksReplyInit(c, s)
  <2>1. UNCHANGED downloaded
    BY <1>5 DEF SocksReplyInit, Goes, countVars
  <2> QED BY <1>5, <2>1, SocksReplyInitKeeps, NothingCounted
<1>6. CASE SocksReplyConn(c, s) /\ ~Restart(c)
  BY <1>6, SocksReplyConnKeeps, NothingCounted
<1>7. CASE Send(c, s)
  <2>1. UNCHANGED downloaded
    BY <1>7 DEF Send, Goes, countVars
  <2> QED BY <1>7, <2>1, SendStepKeeps, NothingCounted
<1>8. CASE Receive(c, s)
  <2>1. UNCHANGED downloaded
    BY <1>8 DEF Receive, Goes, countVars
  <2> QED BY <1>8, <2>1, ReceiveStepKeeps, NothingCounted
<1>9. CASE ServerRequest(c, s)
  <2>1. UNCHANGED downloaded
    BY <1>9 DEF ServerRequest, countVars
  <2> QED BY <1>9, <2>1, ServerRequestKeeps, NothingCounted
<1>10. CASE ServerTransfer(c, s)
  <2>1. UNCHANGED downloaded
    BY <1>10 DEF ServerTransfer, countVars
  <2> QED BY <1>10, <2>1, ServerTransferKeeps, NothingCounted
<1>11. CASE ServerFinished(c, s)
  <2>1. /\ TorrentInv' /\ act[c] = s /\ downloaded' = [downloaded EXCEPT ![c] = @ + 1]
        /\ cl[c][s].down = DownBlock /\ cl[c][s].up = UpBlock
        /\ sv[c][s].down = UpBlock /\ sv[c][s].up = DownBlock /\ sv[c][s].state = "TS_IDLE"
    BY <1>11, ServerFinishedKeeps
  <2>2. \A d \in Clients : downloaded[d] \in Nat
    BY DEF TorrentInv, Types
  <2>3. \A d \in Clients : d # c => downloaded'[d] = downloaded[d]
    BY <2>1 DEF TorrentInv, Types
  <2>4. \A d \in Clients : downloaded'[d] = downloaded[d] + 1 => d = c
    BY <2>2, <2>3
  <2>5. ExactStep
    BY <2>1, <2>4 DEF ExactStep
  <2> QED BY <2>1, <2>5
<1>12. CASE Blocks(c, s)
  <2>1. UNCHANGED downloaded /\ act[c] = s /\ Ends(c, s, cl[c][s]) /\ UNCHANGED <<net, countVars>>
    BY <1>12 DEF Blocks, countVars
  <2> QED BY <2>1, StopsKeeps, NothingCounted
<1>13. CASE Fatal(c, s)
  BY <1>2, <1>13 DEF Fatal
<1> QED BY <1>1, <1>2, <1>3, <1>4, <1>5, <1>6, <1>7, <1>8, <1>9, <1>10, <1>11, <1>12, <1>13

LEMMA StepHolds == TorrentInv /\ [TorNext]_torVars => TorrentInv' /\ ExactStep
<1> SUFFICES ASSUME TorrentInv, [TorNext]_torVars PROVE TorrentInv' /\ ExactStep
  OBVIOUS
<1>1. CASE UNCHANGED torVars
  <2>1. /\ UNCHANGED connVars /\ UNCHANGED act /\ UNCHANGED <<servers, lists>>
    BY <1>1 DEF torVars, authVars, connVars, countVars
  <2>2. servers' \in Seq(Servers) /\ lists' \in [Clients -> Seq(Seq(Servers))]
    BY <2>1 DEF TorrentInv, Types
  <2> QED BY <2>1, <2>2, ListsKeep, NothingCounted
<1>2. CASE \/ \E h \in Clients \cup Servers : TellAuthority(h)
           \/ \E s \in Servers : HandleRegister(s)
           \/ \E c \in Clients : HandleRequestNodes(c)
  BY <1>2, AuthorityKeeps, NothingCounted
<1>3. ASSUME NEW c \in Clients, ReceiveNodes(c) PROVE TorrentInv' /\ ExactStep
  BY <1>3, ReceiveNodesKeeps, NothingCounted
<1>4. ASSUME NEW c \in Clients, ClientStep(c) PROVE TorrentInv' /\ ExactStep
  BY <1>4, ClientStepHolds
<1>5. ASSUME NEW c \in Clients, NEW s \in Servers, ClientEvent(c, s) PROVE TorrentInv' /\ ExactStep
  BY <1>5, ClientEventKeeps, NothingCounted
<1>6. ASSUME NEW c \in Clients, NEW s \in Servers, Accept(c, s) PROVE TorrentInv' /\ ExactStep
  BY <1>6, AcceptStepKeeps, NothingCounted
<1>7. ASSUME NEW c \in Clients, NEW s \in Servers, ServerActivate(c, s)
      PROVE  TorrentInv' /\ ExactStep
  <2>1. TorrentInv' /\ UNCHANGED downloaded
    BY <1>7, ReadRequestKeeps, ExchangeStepKeeps, SayFinishedKeeps, ServerCloseKeeps
       DEF ServerActivate
  <2> QED BY <2>1, NothingCounted
<1>8. ASSUME NEW c \in Clients, NEW s \in Servers, Connect(c, s) \/ Proxy(c, s) \/ Reset(c, s)
      PROVE  TorrentInv' /\ ExactStep
  BY <1>8, NetworkKeeps, NothingCounted
<1> QED BY <1>1, <1>2, <1>3, <1>4, <1>5, <1>6, <1>7, <1>8 DEF TorNext

\* The connections of a client share two counters (torrent-client.c): whatever they
\* interleave, and over resets, refusals and restarts, each block remains, is under
\* way on one connection, or has been downloaded.
THEOREM BlocksAreConserved == TorSpec => []BlocksConserved
<1>1. TorrentInv => BlocksConserved
  BY DEF TorrentInv, Conserved
<1>2. TorrentInv /\ [TorNext]_torVars => TorrentInv'
  BY StepHolds
<1> QED BY <1>1, <1>2, InitHolds, PTL DEF TorSpec

\* blocksDownloaded grows only when the client and the server of the connection have
\* sent and received all of their block, and the server is back where it waits.
THEOREM BlocksAreExact == TorSpec => BlockExact
<1>1. TorrentInv /\ [TorNext]_torVars => TorrentInv'
  BY StepHolds
<1>2. TorrentInv /\ [TorNext]_torVars =>
         [\A c \in Clients : downloaded'[c] = downloaded[c] + 1 =>
             LET s == act[c]
             IN  /\ cl[c][s].down = DownBlock /\ cl[c][s].up = UpBlock
                 /\ sv[c][s].down = UpBlock /\ sv[c][s].up = DownBlock
                 /\ sv[c][s].state \in {"TS_IDLE", "TS_REQUEST"}]_torVars
  BY StepHolds DEF ExactStep
<1> QED BY <1>1, <1>2, InitHolds, PTL DEF TorSpec, BlockExact
=============================================================================
