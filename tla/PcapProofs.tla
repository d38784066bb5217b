----------------------------- MODULE PcapProofs -----------------------------
(***************************************************************************)
(* Machine-checked proofs about pcap_replay, for any captures, any buffer   *)
(* sizes and captures that can or cannot be opened again.                   *)
(***************************************************************************)
EXTENDS PcapReplay, TLAPS, SequenceTheorems, WellFoundedInduction

Count == Len(Captures)

\* FilesInStep, and what it needs: both queues keep their length, and the packet that
\* goes next is in its file.
InStep ==
    \A p \in Peers : pc[p] # "done" =>
        /\ Len(pcaps[p]) = Count /\ Len(paths[p]) = Count
        /\ \A i \in 1 .. Count : pcaps[p][i].file = paths[p][i]
        /\ \A i \in 2 .. Count : pcaps[p][i].pos = 0
        /\ paths[p][1] = nextPacket[p].file /\ pcaps[p][1].pos = nextPacket[p].idx
        /\ nextPacket[p].idx \in DOMAIN Captures[nextPacket[p].file]

PcapInv == PcapTypeOK /\ InStep

-----------------------------------------------------------------------------
(* Facts about the operators.                                              *)

\* Files are numbered, and each is a sequence of packets.
LEMMA FilesAre ==
    /\ Count \in Nat /\ Count >= 1 /\ Files = 1 .. Count
    /\ \A f \in Files : Captures[f] \in Seq(Packets) /\ Len(Captures[f]) \in Nat
    /\ \A f \in Files : DOMAIN Captures[f] = 1 .. Len(Captures[f])
    /\ \A f \in Files : \A i \in DOMAIN Captures[f] : Captures[f][i] \in Packets
    /\ 1 \in Files
<1>1. Captures \in Seq(Seq(Packets)) /\ Captures # <<>>
  BY PcapAssumption
<1> HIDE DEF Packets
<1>2. Count \in Nat /\ Count >= 1 /\ DOMAIN Captures = 1 .. Count
  BY <1>1 DEF Count
<1>3. \A f \in 1 .. Count : Captures[f] \in Seq(Packets)
  BY <1>1, ElementOfSeq DEF Count
<1>4. \A f \in 1 .. Count : DOMAIN Captures[f] = 1 .. Len(Captures[f]) /\ Len(Captures[f]) \in Nat
  BY <1>3, LenProperties
<1>5. \A f \in 1 .. Count : \A i \in 1 .. Len(Captures[f]) : Captures[f][i] \in Packets
  BY <1>3, ElementOfSeq
<1> QED BY <1>2, <1>3, <1>4, <1>5 DEF Files

\* A set of natural numbers has a least element.
LEMMA LeastOf ==
    ASSUME NEW S, S \subseteq Nat, S # {}
    PROVE  \E k \in S : \A j \in S : k <= j
<1> DEFINE R == {ss \in Nat \X Nat : ss[1] < ss[2]}
<1>1. IsWellFoundedOn(R, Nat)
  BY NatLessThanWellFounded DEF OpToRel
<1>2. PICK k \in S : \A j \in S : ~ (<<j, k>> \in R)
  <2> HIDE DEF R
  <2> QED BY <1>1, WFMin
<1>3. ASSUME NEW j \in S PROVE k <= j
  <2>1. j \in Nat /\ k \in Nat /\ ~ (j < k)
    BY <1>2
  <2> QED BY <2>1
<1> QED BY <1>3

\* get_next_packet stops in the file, at a packet if there is one.
LEMMA NextOfType ==
    ASSUME NEW cap \in Cursors, NEW p \in Peers
    PROVE  /\ NextOf(cap, p) \in Nat
           /\ ReadNext(cap, p) \in Cursors
           /\ ReadNext(cap, p).file = cap.file /\ ReadNext(cap, p).pos = NextOf(cap, p)
           /\ Ahead(cap, p) # {} => NextOf(cap, p) \in DOMAIN Captures[cap.file]
<1>1. cap.file \in Files /\ cap.pos \in Nat
  BY DEF Cursors
<1>2. Ahead(cap, p) \subseteq DOMAIN Captures[cap.file] /\ DOMAIN Captures[cap.file] \subseteq Nat
  BY <1>1, FilesAre DEF Ahead
<1>3. Ahead(cap, p) # {} => NextOf(cap, p) \in Ahead(cap, p)
  <2>1. ASSUME Ahead(cap, p) # {}
        PROVE  \E k \in Ahead(cap, p) : \A j \in Ahead(cap, p) : k <= j
    <3> DEFINE S == Ahead(cap, p)
    <3>1. S \subseteq Nat /\ S # {}
      BY <1>2, <2>1
    <3> HIDE DEF S
    <3>2. \E k \in S : \A j \in S : k <= j
      BY <3>1, LeastOf
    <3> QED BY <3>2 DEF S
  <2> QED BY <2>1 DEF NextOf
<1>4. NextOf(cap, p) \in Nat
  BY <1>1, <1>2, <1>3, FilesAre DEF NextOf
<1> QED BY <1>1, <1>2, <1>3, <1>4 DEF ReadNext, Cursors

\* Arithmetic: a product distributes, and less than a second is no second.
LEMMA Distribute ==
    ASSUME NEW n \in Int, NEW a \in Int, NEW b \in Int
    PROVE  /\ n * (a - b) = n * a - n * b
           /\ n * (b + 1) = n * b + n
OBVIOUS

LEMMA NoSecond ==
    ASSUME NEW n \in Nat \ {0}, NEW d \in 0 .. n - 1
    PROVE  d \div n = 0
OBVIOUS

\* timeval_subtract is exact for normalised times, and normalised.
LEMMA SubtractExact ==
    ASSUME NEW x \in Times, NEW y \in Times
    PROVE  /\ Subtract(y, x) \in Sleeps
           /\ Second * Subtract(y, x).sec + Subtract(y, x).usec
              = (Second * x.sec + x.usec) - (Second * y.sec + y.usec)
<1> DEFINE a == x.sec
           b == y.sec
           u == x.usec
           v == y.usec
<1>1. a \in Nat /\ u \in 0 .. Second - 1 /\ b \in Nat /\ v \in 0 .. Second - 1
  BY DEF Times
<1>2. Second \in Nat \ {0} /\ Second * 1 = Second /\ Second * 0 = 0
  BY PcapAssumption
<1>3. CASE u < v
  <2>1. (v - u) \div Second = 0
    <3>1. v - u \in 0 .. Second - 1
      BY <1>1, <1>2, <1>3
    <3> QED BY <1>2, <3>1, NoSecond
  <2>2. Subtract(y, x) = [sec |-> a - (b + 1), usec |-> u - v + Second]
    <3>1. Subtract(y, x) =
            LET z == [sec |-> b + 1, usec |-> v - Second]
                carry == IF u - z.usec > Second THEN (u - z.usec) \div Second ELSE 0
            IN  [sec |-> a - (z.sec - carry), usec |-> u - (z.usec + Second * carry)]
      BY <1>2, <1>3, <2>1 DEF Subtract
    <3>2. ~ (u - (v - Second) > Second)
      BY <1>1, <1>2, <1>3
    <3>3. a - ((b + 1) - 0) = a - (b + 1) /\ u - ((v - Second) + 0) = u - v + Second
      BY <1>1, <1>2
    <3> HIDE DEF a, b, u, v
    <3> QED BY <1>2, <3>1, <3>2, <3>3
  <2>3. Second * (a - (b + 1)) = Second * a - (Second * b + Second)
    <3>1. b + 1 \in Int /\ a \in Int /\ Second \in Int
      BY <1>1, <1>2
    <3> HIDE DEF a, b
    <3> QED BY <1>1, <3>1, Distribute
  <2>4. u - v + Second \in 0 .. Second - 1 /\ a - (b + 1) \in Int
    BY <1>1, <1>2, <1>3
  <2>5. Second * a \in Int /\ Second * b \in Int
    BY <1>1, <1>2
  <2>6. /\ Subtract(y, x).sec = a - (b + 1) /\ Subtract(y, x).usec = u - v + Second
        /\ Subtract(y, x) \in Sleeps
    <3> HIDE DEF a, b, u, v
    <3> QED BY <2>2, <2>4 DEF Sleeps
  <2> HIDE DEF a, b, u, v
  <2>7. (Second * a - (Second * b + Second)) + (u - v + Second)
        = (Second * a + u) - (Second * b + v)
    BY <1>1, <1>2, <2>5
  <2> QED BY <2>3, <2>6, <2>7 DEF a, b, u, v
<1>4. CASE ~ (u < v)
  <2>2. Subtract(y, x) = [sec |-> a - b, usec |-> u - v]
    <3>1. Subtract(y, x) =
            LET z == [sec |-> b, usec |-> v]
                carry == IF u - z.usec > Second THEN (u - z.usec) \div Second ELSE 0
            IN  [sec |-> a - (z.sec - carry), usec |-> u - (z.usec + Second * carry)]
      <4>1. b + 0 = b /\ v - 0 = v
        BY <1>1, <1>2
      <4> QED BY <1>2, <1>4, <4>1 DEF Subtract
    <3>2. ~ (u - v > Second)
      BY <1>1, <1>2, <1>4
    <3>3. a - (b - 0) = a - b /\ u - (v + 0) = u - v
      BY <1>1, <1>2
    <3> HIDE DEF a, b, u, v
    <3> QED BY <1>2, <3>1, <3>2, <3>3
  <2>3. Second * (a - b) = Second * a - Second * b
    <3>1. b \in Int /\ a \in Int /\ Second \in Int
      BY <1>1, <1>2
    <3> HIDE DEF a, b
    <3> QED BY <3>1, Distribute
  <2>4. u - v \in 0 .. Second - 1 /\ a - b \in Int
    BY <1>1, <1>2, <1>4
  <2>5. Second * a \in Int /\ Second * b \in Int
    BY <1>1, <1>2
  <2>6. /\ Subtract(y, x).sec = a - b /\ Subtract(y, x).usec = u - v
        /\ Subtract(y, x) \in Sleeps
    <3> HIDE DEF a, b, u, v
    <3> QED BY <2>2, <2>4 DEF Sleeps
  <2> HIDE DEF a, b, u, v
  <2>7. (Second * a - Second * b) + (u - v) = (Second * a + u) - (Second * b + v)
    BY <1>1, <1>2, <2>5
  <2> QED BY <2>3, <2>6, <2>7 DEF a, b, u, v
<1> QED BY <1>3, <1>4

-----------------------------------------------------------------------------
(* Going on, restarting, and steps that do neither.                         *)

Apps ==
    /\ pcaps \in [Peers -> Seq(Cursors)] /\ paths \in [Peers -> Seq(Files)]
    /\ nextPacket \in [Peers -> Places] /\ wait \in [Peers -> Sleeps]
    /\ pc \in [Peers -> {"awake", "gap", "pause", "nap", "spin", "done"}]

\* What InStep says of a peer at work, with the types it needs.
LEMMA AtWork ==
    ASSUME PcapInv, NEW p \in Peers, pc[p] # "done"
    PROVE  /\ pcaps[p] \in Seq(Cursors) /\ paths[p] \in Seq(Files)
           /\ Len(pcaps[p]) = Count /\ Len(paths[p]) = Count
           /\ pcaps[p] # <<>> /\ paths[p] # <<>>
           /\ \A i \in 1 .. Count : pcaps[p][i] \in Cursors /\ paths[p][i] \in Files
           /\ \A i \in 1 .. Count : pcaps[p][i].file = paths[p][i]
           /\ \A i \in 2 .. Count : pcaps[p][i].pos = 0
           /\ paths[p][1] = nextPacket[p].file /\ pcaps[p][1].pos = nextPacket[p].idx
           /\ nextPacket[p] \in Places
           /\ nextPacket[p].idx \in DOMAIN Captures[nextPacket[p].file]
           /\ Packet(nextPacket[p]) \in Packets
<1>1. pcaps[p] \in Seq(Cursors) /\ paths[p] \in Seq(Files) /\ nextPacket[p] \in Places
  BY DEF PcapInv, PcapTypeOK
<1>2. /\ Len(pcaps[p]) = Count /\ Len(paths[p]) = Count
      /\ \A i \in 1 .. Count : pcaps[p][i].file = paths[p][i]
      /\ \A i \in 2 .. Count : pcaps[p][i].pos = 0
      /\ paths[p][1] = nextPacket[p].file /\ pcaps[p][1].pos = nextPacket[p].idx
      /\ nextPacket[p].idx \in DOMAIN Captures[nextPacket[p].file]
  BY DEF PcapInv, InStep
<1>3. pcaps[p] # <<>> /\ paths[p] # <<>>
  BY <1>1, <1>2, FilesAre
<1>4. \A i \in 1 .. Count : pcaps[p][i] \in Cursors /\ paths[p][i] \in Files
  BY <1>1, <1>2, ElementOfSeq
<1>5. nextPacket[p].file \in Files
  BY <1>1 DEF Places
<1>6. Packet(nextPacket[p]) \in Packets
  BY <1>2, <1>5, FilesAre DEF Packet
<1> QED BY <1>1, <1>2, <1>3, <1>4, <1>6

\* The next packet of the same file.
LEMMA GoOnKeeps ==
    ASSUME PcapInv, NEW p \in Peers, pc[p] # "done", More(p), GoOn(p)
    PROVE  /\ Apps' /\ InStep'
           /\ wait'[p] = Gap(p)
           /\ Packet(nextPacket'[p]) \in Packets
           /\ \A q \in Peers \ {p} : pc'[q] = pc[q] /\ nextPacket'[q] = nextPacket[q]
<1> DEFINE cap == pcaps[p][1]
<1>1. cap \in Cursors /\ cap.file = nextPacket[p].file /\ Count >= 1 /\ 1 \in 1 .. Count
  BY AtWork, FilesAre
<1>2. /\ NextOf(cap, p) \in DOMAIN Captures[cap.file] /\ NextOf(cap, p) \in Nat
      /\ ReadNext(cap, p) \in Cursors
      /\ ReadNext(cap, p).file = cap.file /\ ReadNext(cap, p).pos = NextOf(cap, p)
  <2>1. Ahead(cap, p) # {}
    BY DEF More
  <2> QED BY <1>1, <2>1, NextOfType
<1>3. /\ pcaps' = [pcaps EXCEPT ![p] = [@ EXCEPT ![1] = ReadNext(cap, p)]]
      /\ nextPacket' = [nextPacket EXCEPT ![p] = [@ EXCEPT !.idx = NextOf(cap, p)]]
      /\ paths' = paths /\ pc' = [pc EXCEPT ![p] = "gap"]
      /\ wait' = [wait EXCEPT ![p] = Gap(p)]
  BY DEF GoOn, GetNextPacket, More, Become
<1>4. /\ pcaps \in [Peers -> Seq(Cursors)] /\ paths \in [Peers -> Seq(Files)]
      /\ nextPacket \in [Peers -> Places] /\ wait \in [Peers -> Sleeps]
      /\ pc \in [Peers -> {"awake", "gap", "pause", "nap", "spin", "done"}]
  BY DEF PcapInv, PcapTypeOK
<1> DEFINE new == [pcaps[p] EXCEPT ![1] = ReadNext(cap, p)]
<1>5. /\ new \in Seq(Cursors) /\ Len(new) = Count
      /\ \A j \in 1 .. Count : new[j] = IF j = 1 THEN ReadNext(cap, p) ELSE pcaps[p][j]
  <2> HIDE DEF cap
  <2> QED BY <1>1, <1>2, AtWork, ExceptSeq
<1>6. pcaps'[p] = new /\ \A q \in Peers \ {p} : pcaps'[q] = pcaps[q]
  BY <1>3, <1>4
<1>7. pcaps' \in [Peers -> Seq(Cursors)]
  <2> HIDE DEF new
  <2> QED BY <1>3, <1>4, <1>5 DEF new
<1>8. /\ nextPacket'[p] = [nextPacket[p] EXCEPT !.idx = NextOf(cap, p)]
      /\ \A q \in Peers \ {p} : nextPacket'[q] = nextPacket[q]
  BY <1>3, <1>4
<1>9. /\ nextPacket'[p] \in Places /\ nextPacket'[p].file = cap.file
      /\ nextPacket'[p].idx = NextOf(cap, p)
  <2>1. nextPacket[p] \in Places
    BY AtWork
  <2> HIDE DEF cap
  <2> QED BY <1>1, <1>2, <1>8, <2>1 DEF Places
<1>10. nextPacket' \in [Peers -> Places]
  BY <1>3, <1>4, <1>8, <1>9
<1>11. Packet(nextPacket'[p]) \in Packets
  <2>1. cap.file \in Files
    BY <1>1 DEF Cursors
  <2> HIDE DEF cap
  <2> QED BY <1>2, <1>9, <2>1, FilesAre DEF Packet
<1>12. Gap(p) \in Sleeps
  <2>1. Packet(nextPacket[p]).time \in Times /\ Packet(nextPacket'[p]).time \in Times
    BY <1>11, AtWork DEF Packets
  <2> QED BY <2>1, SubtractExact DEF Gap
<1>13. wait' \in [Peers -> Sleeps] /\ wait'[p] = Gap(p)
  BY <1>3, <1>4, <1>12
<1>14. pc' \in [Peers -> {"awake", "gap", "pause", "nap", "spin", "done"}]
  BY <1>3, <1>4
<1>15. InStep'
  <2> SUFFICES ASSUME NEW q \in Peers, pc'[q] # "done"
               PROVE  /\ Len(pcaps'[q]) = Count /\ Len(paths'[q]) = Count
                      /\ \A i \in 1 .. Count : pcaps'[q][i].file = paths'[q][i]
                      /\ \A i \in 2 .. Count : pcaps'[q][i].pos = 0
                      /\ paths'[q][1] = nextPacket'[q].file
                      /\ pcaps'[q][1].pos = nextPacket'[q].idx
                      /\ nextPacket'[q].idx \in DOMAIN Captures[nextPacket'[q].file]
    BY DEF InStep, Count
  <2>1. CASE q = p
    <3>1. /\ Len(paths[p]) = Count
          /\ \A i \in 1 .. Count : pcaps[p][i].file = paths[p][i]
          /\ \A i \in 2 .. Count : pcaps[p][i].pos = 0
      BY AtWork
    <3>2. paths'[p] = paths[p]
      BY <1>3
    <3> HIDE DEF new, cap
    <3>3. \A i \in 1 .. Count : new[i].file = paths[p][i]
      BY <1>1, <1>2, <1>5, <3>1 DEF cap
    <3>4. \A i \in 2 .. Count : i \in 1 .. Count /\ i # 1
      BY FilesAre
    <3>5. \A i \in 2 .. Count : new[i].pos = 0
      BY <1>5, <3>1, <3>4
    <3>6. new[1].pos = NextOf(cap, p) /\ paths[p][1] = cap.file
      BY <1>1, <1>2, <1>5, <3>1 DEF cap
    <3> QED BY <1>2, <1>5, <1>6, <1>9, <2>1, <3>1, <3>2, <3>3, <3>5, <3>6
  <2>2. CASE q # p
    <3>1. pc'[q] = pc[q]
      BY <1>3, <1>4, <2>2
    <3>2. pc[q] # "done" /\ pcaps'[q] = pcaps[q] /\ paths'[q] = paths[q]
          /\ nextPacket'[q] = nextPacket[q]
      BY <1>3, <1>6, <1>8, <2>2, <3>1
    <3> QED BY <3>2 DEF PcapInv, InStep
  <2> QED BY <2>1, <2>2
<1>16. \A q \in Peers \ {p} : pc'[q] = pc[q]
  BY <1>3, <1>4
<1> HIDE DEF cap, new
<1> QED BY <1>3, <1>4, <1>7, <1>8, <1>10, <1>11, <1>13, <1>14, <1>15, <1>16 DEF Apps

\* The queues after change_pcap_file_to_send: as long as before, in step, and unread.
LEMMA Rotated ==
    ASSUME PcapInv, NEW p \in Peers, pc[p] # "done"
    PROVE  /\ NextPcaps(p) \in Seq(Cursors) /\ NextPaths(p) \in Seq(Files)
           /\ Len(NextPcaps(p)) = Count /\ Len(NextPaths(p)) = Count
           /\ \A i \in 1 .. Count : /\ NextPcaps(p)[i] \in Cursors
                                    /\ NextPcaps(p)[i].file = NextPaths(p)[i]
                                    /\ NextPcaps(p)[i].pos = 0
           /\ Head(NextPcaps(p)) = NextPcaps(p)[1]
<1> DEFINE a == pcaps[p]
           b == paths[p]
           new == [file |-> Head(b), pos |-> 0]
<1>1. /\ a \in Seq(Cursors) /\ b \in Seq(Files) /\ a # <<>> /\ b # <<>>
      /\ Len(a) = Count /\ Len(b) = Count
      /\ \A i \in 1 .. Count : a[i] \in Cursors /\ b[i] \in Files /\ a[i].file = b[i]
      /\ \A i \in 2 .. Count : a[i].pos = 0
      /\ Count \in Nat /\ Count >= 1
  BY AtWork, FilesAre
<1> HIDE DEF a, b
<1>2. /\ Head(b) \in Files /\ Tail(b) \in Seq(Files) /\ Len(Tail(b)) = Count - 1
      /\ \A i \in 1 .. Len(Tail(b)) : Tail(b)[i] = b[i + 1]
  BY <1>1, HeadTailProperties
<1>3. /\ Tail(a) \in Seq(Cursors) /\ Len(Tail(a)) = Count - 1
      /\ \A i \in 1 .. Len(Tail(a)) : Tail(a)[i] = a[i + 1]
  BY <1>1, HeadTailProperties
<1>4. new \in Cursors
  BY <1>2 DEF Cursors
<1> HIDE DEF new
<1>5. /\ Append(Tail(a), new) \in Seq(Cursors) /\ Len(Append(Tail(a), new)) = Count
      /\ \A i \in 1 .. Count - 1 : Append(Tail(a), new)[i] = a[i + 1]
      /\ Append(Tail(a), new)[Count] = new
  BY <1>1, <1>3, <1>4, AppendProperties
<1>6. /\ Append(Tail(b), Head(b)) \in Seq(Files) /\ Len(Append(Tail(b), Head(b))) = Count
      /\ \A i \in 1 .. Count - 1 : Append(Tail(b), Head(b))[i] = b[i + 1]
      /\ Append(Tail(b), Head(b))[Count] = Head(b)
  BY <1>1, <1>2, AppendProperties
<1>7. NextPcaps(p) = Append(Tail(a), new) /\ NextPaths(p) = Append(Tail(b), Head(b))
  BY DEF NextPcaps, NextPaths, a, b, new
<1>8. ASSUME NEW i \in 1 .. Count
      PROVE  /\ NextPcaps(p)[i] \in Cursors
             /\ NextPcaps(p)[i].file = NextPaths(p)[i] /\ NextPcaps(p)[i].pos = 0
  <2>1. CASE i = Count
    BY <1>4, <1>5, <1>6, <1>7, <2>1 DEF new
  <2>2. CASE i # Count
    <3>1. i \in 1 .. Count - 1 /\ i + 1 \in 2 .. Count /\ i + 1 \in 1 .. Count
      BY <1>1, <2>2
    <3> QED BY <1>1, <1>5, <1>6, <1>7, <3>1
  <2> QED BY <2>1, <2>2
<1>9. Head(NextPcaps(p)) = NextPcaps(p)[1]
  BY <1>1, <1>5, <1>7
<1> QED BY <1>5, <1>6, <1>7, <1>8, <1>9

\* A restart: the next file, or the end.
LEMMA RestartKeeps ==
    ASSUME PcapInv, NEW p \in Peers, pc[p] # "done", Restart(p)
    PROVE  /\ Apps' /\ InStep' /\ pc'[p] # "gap"
           /\ \A q \in Peers \ {p} : pc'[q] = pc[q] /\ nextPacket'[q] = nextPacket[q]
<1>1. /\ pcaps \in [Peers -> Seq(Cursors)] /\ paths \in [Peers -> Seq(Files)]
      /\ nextPacket \in [Peers -> Places] /\ wait \in [Peers -> Sleeps]
      /\ pc \in [Peers -> {"awake", "gap", "pause", "nap", "spin", "done"}]
      /\ InStep
  BY DEF PcapInv, PcapTypeOK
<1>2. wait' = wait
  BY DEF Restart
<1>3. ASSUME NEW q \in Peers, q # p,
             pcaps'[q] = pcaps[q], paths'[q] = paths[q], nextPacket'[q] = nextPacket[q],
             pc'[q] = pc[q], pc'[q] # "done"
      PROVE  /\ Len(pcaps'[q]) = Count /\ Len(paths'[q]) = Count
             /\ \A i \in 1 .. Count : pcaps'[q][i].file = paths'[q][i]
             /\ \A i \in 2 .. Count : pcaps'[q][i].pos = 0
             /\ paths'[q][1] = nextPacket'[q].file
             /\ pcaps'[q][1].pos = nextPacket'[q].idx
             /\ nextPacket'[q].idx \in DOMAIN Captures[nextPacket'[q].file]
  BY <1>1, <1>3 DEF InStep
<1> DEFINE cap == Head(NextPcaps(p))
           new == [NextPcaps(p) EXCEPT ![1] = ReadNext(cap, p)]
<1>4. /\ cap \in Cursors /\ cap = NextPcaps(p)[1] /\ cap.file = NextPaths(p)[1]
      /\ 1 \in 1 .. Count /\ Count \in Nat /\ cap.file \in Files
  BY Rotated, FilesAre DEF Cursors
<1>5. /\ NextOf(cap, p) \in Nat /\ ReadNext(cap, p) \in Cursors
      /\ ReadNext(cap, p).file = cap.file /\ ReadNext(cap, p).pos = NextOf(cap, p)
      /\ Ahead(cap, p) # {} => NextOf(cap, p) \in DOMAIN Captures[cap.file]
  <2> HIDE DEF cap
  <2> QED BY <1>4, NextOfType
<1>6. /\ new \in Seq(Cursors) /\ Len(new) = Count
      /\ \A j \in 1 .. Count : new[j] = IF j = 1 THEN ReadNext(cap, p) ELSE NextPcaps(p)[j]
  <2> HIDE DEF cap
  <2> QED BY <1>4, <1>5, Rotated, ExceptSeq
<1>7. CASE /\ paths' = [paths EXCEPT ![p] = NextPaths(p)]
           /\ pcaps' = [pcaps EXCEPT ![p] = new]
           /\ IF Ahead(cap, p) = {}
              THEN pc' = [pc EXCEPT ![p] = "done"] /\ UNCHANGED nextPacket
              ELSE /\ pc' = [pc EXCEPT ![p] = "pause"]
                   /\ nextPacket' = [nextPacket EXCEPT ![p] =
                                        [file |-> cap.file, idx |-> NextOf(cap, p)]]
  <2> HIDE DEF new, cap
  <2>1. [file |-> cap.file, idx |-> NextOf(cap, p)] \in Places
    BY <1>4, <1>5 DEF Places
  <2>2. Apps'
    BY <1>1, <1>2, <1>6, <1>7, <2>1, Rotated DEF Apps
  <2>3. pc'[p] # "gap"
    BY <1>1, <1>7
  <2>4. ASSUME NEW q \in Peers, pc'[q] # "done"
        PROVE  /\ Len(pcaps'[q]) = Count /\ Len(paths'[q]) = Count
               /\ \A i \in 1 .. Count : pcaps'[q][i].file = paths'[q][i]
               /\ \A i \in 2 .. Count : pcaps'[q][i].pos = 0
               /\ paths'[q][1] = nextPacket'[q].file
               /\ pcaps'[q][1].pos = nextPacket'[q].idx
               /\ nextPacket'[q].idx \in DOMAIN Captures[nextPacket'[q].file]
    <3>1. CASE q = p
      <4>1. /\ Ahead(cap, p) # {} /\ pcaps'[q] = new /\ paths'[q] = NextPaths(p)
            /\ nextPacket'[q] = [file |-> cap.file, idx |-> NextOf(cap, p)]
        BY <1>1, <1>7, <2>4, <3>1
      <4>2. \A i \in 1 .. Count : new[i].file = NextPaths(p)[i]
        BY <1>4, <1>5, <1>6, Rotated
      <4>3. \A i \in 2 .. Count : i \in 1 .. Count /\ i # 1
        BY <1>4
      <4>4. \A i \in 2 .. Count : new[i].pos = 0
        BY <1>6, <4>3, Rotated
      <4>5. new[1].pos = NextOf(cap, p) /\ Len(new) = Count
        BY <1>4, <1>5, <1>6
      <4>6. nextPacket'[q].file = cap.file /\ nextPacket'[q].idx = NextOf(cap, p)
        BY <4>1
      <4>7. NextOf(cap, p) \in DOMAIN Captures[cap.file]
        BY <1>5, <4>1
      <4>8. Len(NextPaths(p)) = Count /\ NextPaths(p)[1] = cap.file
        BY <1>4, Rotated
      <4> QED BY <4>1, <4>2, <4>4, <4>5, <4>6, <4>7, <4>8
    <3>2. CASE q # p
      <4>1. /\ pcaps'[q] = pcaps[q] /\ paths'[q] = paths[q] /\ pc'[q] = pc[q]
            /\ nextPacket'[q] = nextPacket[q]
        BY <1>1, <1>7, <3>2
      <4> QED BY <1>3, <2>4, <3>2, <4>1
    <3> QED BY <3>1, <3>2
  <2>5. InStep'
    BY <2>4 DEF InStep, Count
  <2>6. \A q \in Peers \ {p} : pc'[q] = pc[q] /\ nextPacket'[q] = nextPacket[q]
    BY <1>1, <1>7
  <2> QED BY <2>2, <2>3, <2>5, <2>6
<1>8. CASE /\ pcaps' = [pcaps EXCEPT ![p] = Tail(@)] /\ pc' = [pc EXCEPT ![p] = "done"]
           /\ UNCHANGED <<paths, nextPacket>>
  <2>1. Tail(pcaps[p]) \in Seq(Cursors)
    BY AtWork, HeadTailProperties
  <2>2. Apps'
    BY <1>1, <1>2, <1>8, <2>1 DEF Apps
  <2>3. pc'[p] # "gap"
    BY <1>1, <1>8
  <2>4. ASSUME NEW q \in Peers, pc'[q] # "done"
        PROVE  /\ Len(pcaps'[q]) = Count /\ Len(paths'[q]) = Count
               /\ \A i \in 1 .. Count : pcaps'[q][i].file = paths'[q][i]
               /\ \A i \in 2 .. Count : pcaps'[q][i].pos = 0
               /\ paths'[q][1] = nextPacket'[q].file
               /\ pcaps'[q][1].pos = nextPacket'[q].idx
               /\ nextPacket'[q].idx \in DOMAIN Captures[nextPacket'[q].file]
    <3>1. /\ q # p /\ pcaps'[q] = pcaps[q] /\ paths'[q] = paths[q] /\ pc'[q] = pc[q]
          /\ nextPacket'[q] = nextPacket[q]
      BY <1>1, <1>8, <2>4
    <3> QED BY <1>3, <2>4, <3>1
  <2>5. InStep'
    BY <2>4 DEF InStep, Count
  <2>6. \A q \in Peers \ {p} : pc'[q] = pc[q] /\ nextPacket'[q] = nextPacket[q]
    BY <1>1, <1>8
  <2> QED BY <2>2, <2>3, <2>5, <2>6
<1> QED BY <1>7, <1>8 DEF Restart, Become

\* A step that leaves the queues and the next packet alone, and starts no sleep
\* between packets.
LEMMA IdleKeeps ==
    ASSUME PcapInv, UNCHANGED appVars,
           wait' \in [Peers -> Sleeps],
           pc' \in [Peers -> {"awake", "gap", "pause", "nap", "spin", "done"}],
           \A q \in Peers : pc[q] = "done" => pc'[q] = "done"
    PROVE  Apps' /\ InStep'
<1>1. Apps'
  BY DEF PcapInv, PcapTypeOK, Apps, appVars
<1>2. InStep'
  BY DEF PcapInv, InStep, appVars, Count
<1> QED BY <1>1, <1>2

-----------------------------------------------------------------------------
(* The steps.                                                              *)

\* What Paced and NonePassedOver say of a step.
PacedStep ==
    \A p \in Peers : pc[p] = "awake" /\ pc'[p] = "gap" =>
        LET micros(t) == Second * t.sec + t.usec
        IN  micros(wait'[p]) = micros(Packet(nextPacket'[p]).time)
                               - micros(Packet(nextPacket[p]).time)

HandedStep ==
    \A p \in Peers : nextPacket'[p] # nextPacket[p] =>
        \/ /\ last'[p].file = nextPacket[p].file
           /\ last'[p].idx = nextPacket[p].idx
        \/ p = "server" /\ accepted' # accepted
        \/ wire[p] = Cap
        \/ Closed(Other(p))

Sockets ==
    /\ late \in [Peers -> BOOLEAN] /\ wire \in [Peers -> 0 .. Cap]
    /\ events \subseteq {"IN", "OUT"} /\ accepted \in BOOLEAN /\ heard \in BOOLEAN
    /\ isAllowedToSend \in BOOLEAN /\ isFirstPacketReceived \in BOOLEAN
    /\ last \in [Peers -> [file : Nat, idx : Nat]]

\* PcapTypeOK in two parts.
LEMMA Parts == PcapTypeOK <=> Apps /\ Sockets
BY DEF PcapTypeOK, Apps, Sockets

\* send takes no more than fits, recv returns no more than there is.
LEMMA Amounts ==
    ASSUME PcapInv, NEW p \in Peers, pc[p] # "done"
    PROVE  /\ Sent(p) \in 0 .. Cap - wire[p]
           /\ Received(p) \in 0 .. wire[Other(p)]
           /\ 0 \in 0 .. Cap - wire[p] /\ 0 \in 0 .. wire[Other(p)]
<1>1. Packet(nextPacket[p]).size \in Nat
  BY AtWork DEF Packets
<1>2. Other(p) \in Peers /\ wire \in [Peers -> 0 .. Cap]
  BY DEF Other, Peers, PcapInv, PcapTypeOK
<1>3. Cap \in Nat /\ MTU \in Nat
  BY PcapAssumption
<1> QED BY <1>1, <1>2, <1>3 DEF Sent, Received, Less

\* The two directions after an exchange.
LEMMA WireKeeps ==
    ASSUME PcapInv, NEW p \in Peers,
           NEW out \in 0 .. Cap - wire[p], NEW in \in 0 .. wire[Other(p)],
           Exchange(p, out, in)
    PROVE  wire' \in [Peers -> 0 .. Cap]
<1>1. Other(p) \in Peers /\ wire \in [Peers -> 0 .. Cap] /\ Cap \in Nat /\ Other(p) # p
  BY PcapAssumption DEF Other, Peers, PcapInv, PcapTypeOK
<1>2. wire' = [wire EXCEPT ![p] = @ + out, ![Other(p)] = @ - in]
  BY DEF Exchange
<1>3. wire[p] + out \in 0 .. Cap /\ wire[Other(p)] - in \in 0 .. Cap
  BY <1>1
<1> HIDE DEF Peers
<1> QED BY <1>1, <1>2, <1>3

\* A packet given to send.
LEMMA LastKeeps ==
    ASSUME PcapInv, NEW p \in Peers, pc[p] # "done", SendPacket(p)
    PROVE  /\ last' \in [Peers -> [file : Nat, idx : Nat]]
           /\ last'[p].file = nextPacket[p].file /\ last'[p].idx = nextPacket[p].idx
<1>1. nextPacket[p] \in [file : Nat, idx : Nat]
  BY AtWork, FilesAre DEF Places
<1>2. last \in [Peers -> [file : Nat, idx : Nat]]
  BY DEF PcapInv, PcapTypeOK
<1> QED BY <1>1, <1>2 DEF SendPacket

\* A peer that is awake goes on or restarts, whatever it does with the connection.
LEMMA ActKeeps ==
    ASSUME PcapInv, NEW p \in Peers, pc[p] = "awake",
           \/ More(p) /\ GoOn(p)
           \/ Restart(p),
           Sockets',
           \/ last'[p].file = nextPacket[p].file /\ last'[p].idx = nextPacket[p].idx
           \/ p = "server" /\ accepted' # accepted
           \/ wire[p] = Cap
           \/ Closed(Other(p))
    PROVE  PcapInv' /\ PacedStep /\ HandedStep
<1>1. /\ Apps' /\ InStep'
      /\ \A q \in Peers \ {p} : pc'[q] = pc[q] /\ nextPacket'[q] = nextPacket[q]
      /\ pc'[p] = "gap" => wait'[p] = Gap(p) /\ Packet(nextPacket'[p]) \in Packets
  BY GoOnKeeps, RestartKeeps
<1>2. PcapInv'
  BY <1>1, Parts DEF PcapInv, Apps, Sockets, PcapTypeOK
<1>3. ASSUME NEW q \in Peers, pc[q] = "awake", pc'[q] = "gap"
      PROVE  Second * wait'[q].sec + wait'[q].usec
             = (Second * Packet(nextPacket'[q]).time.sec + Packet(nextPacket'[q]).time.usec)
               - (Second * Packet(nextPacket[q]).time.sec + Packet(nextPacket[q]).time.usec)
  <2>1. q = p
    BY <1>1, <1>3
  <2>2. wait'[q] = Gap(q)
    BY <1>1, <1>3, <2>1
  <2>3. Packet(nextPacket'[q]).time \in Times /\ Packet(nextPacket[q]).time \in Times
    BY <1>1, <1>3, <2>1, AtWork DEF Packets
  <2> QED BY <2>2, <2>3, SubtractExact DEF Gap
<1>4. PacedStep
  BY <1>3 DEF PacedStep
<1>5. HandedStep
  BY <1>1 DEF HandedStep
<1> QED BY <1>2, <1>4, <1>5

\* A step that does not touch the queues.
LEMMA RestKeeps ==
    ASSUME PcapInv, UNCHANGED appVars, Sockets',
           wait' \in [Peers -> Sleeps],
           pc' \in [Peers -> {"awake", "gap", "pause", "nap", "spin", "done"}],
           \A q \in Peers : pc[q] = "done" => pc'[q] = "done",
           \A q \in Peers : pc'[q] = "gap" => pc[q] = "gap"
    PROVE  PcapInv' /\ PacedStep /\ HandedStep
<1>1. PcapInv'
  BY IdleKeeps, Parts DEF PcapInv, Apps, Sockets, PcapTypeOK
<1>2. PacedStep
  BY DEF PacedStep
<1>3. HandedStep
  BY DEF HandedStep, appVars
<1> QED BY <1>1, <1>2, <1>3

LEMMA ClientKeeps ==
    ASSUME PcapInv, ClientStep
    PROVE  PcapInv' /\ PacedStep /\ HandedStep
<1> DEFINE p == "client"
<1>1. /\ p \in Peers /\ pc[p] = "awake" /\ Sockets
      /\ Sent(p) \in 0 .. Cap - wire[p] /\ Received(p) \in 0 .. wire[Other(p)]
      /\ 0 \in 0 .. Cap - wire[p] /\ 0 \in 0 .. wire[Other(p)]
  <2>1. p \in Peers
    BY DEF Peers
  <2>2. pc[p] = "awake"
    BY DEF ClientStep, ClientLast, ClientSendRecv, ClientSend, ClientRecv, ClientAwake
  <2> QED BY <2>1, <2>2, Amounts, Parts DEF PcapInv
<1>2. CASE ClientLast
  <2>1. wire' \in [Peers -> 0 .. Cap]
    BY <1>1, <1>2, WireKeeps DEF ClientLast
  <2>2. Sockets'
    BY <1>1, <1>2, <2>1, LastKeeps DEF ClientLast, Sockets, syncVars
  <2> QED BY <1>1, <1>2, <2>2, LastKeeps, ActKeeps DEF ClientLast
<1>3. CASE ClientSendRecv
  <2>1. wire' \in [Peers -> 0 .. Cap]
    BY <1>1, <1>3, WireKeeps DEF ClientSendRecv
  <2>2. Sockets'
    BY <1>1, <1>3, <2>1, LastKeeps DEF ClientSendRecv, Sockets, syncVars
  <2> QED BY <1>1, <1>3, <2>2, LastKeeps, ActKeeps DEF ClientSendRecv, AfterRecv
<1>4. CASE ClientSend
  <2>1. wire' \in [Peers -> 0 .. Cap]
    BY <1>1, <1>4, WireKeeps DEF ClientSend
  <2>2. Sockets'
    BY <1>1, <1>4, <2>1, LastKeeps DEF ClientSend, Sockets, syncVars
  <2> QED BY <1>1, <1>4, <2>2, LastKeeps, ActKeeps DEF ClientSend
<1>5. CASE ClientRecv
  <2>1. wire' \in [Peers -> 0 .. Cap]
    BY <1>1, <1>5, WireKeeps DEF ClientRecv
  <2>2. Sockets'
    BY <1>1, <1>5, <2>1 DEF ClientRecv, Sockets, syncVars
  <2>3. wire[p] = Cap \/ Closed(Other(p))
    BY <1>1, <1>5, PcapAssumption DEF ClientRecv, ClientOut, Writable, Sockets
  <2> QED BY <1>1, <1>5, <2>2, <2>3, ActKeeps DEF ClientRecv, AfterRecv
<1> QED BY <1>2, <1>3, <1>4, <1>5 DEF ClientStep

LEMMA ServerKeeps ==
    ASSUME PcapInv, ServerStep
    PROVE  PcapInv' /\ PacedStep /\ HandedStep
<1> DEFINE p == "server"
<1>1. /\ p \in Peers /\ pc[p] = "awake" /\ Sockets
      /\ Sent(p) \in 0 .. Cap - wire[p] /\ Received(p) \in 0 .. wire[Other(p)]
      /\ 0 \in 0 .. Cap - wire[p] /\ 0 \in 0 .. wire[Other(p)]
  <2>1. p \in Peers
    BY DEF Peers
  <2>2. pc[p] = "awake"
    BY DEF ServerStep, ServerDrain, ServerWait, ServerLast, ServerAccept, ServerSendRecv,
           ServerRecv, ServerSend, ServerGoes, ServerAwake
  <2> QED BY <2>1, <2>2, Amounts, Parts DEF PcapInv
<1>2. /\ pc \in [Peers -> {"awake", "gap", "pause", "nap", "spin", "done"}]
      /\ wait \in [Peers -> Sleeps] /\ wire \in [Peers -> 0 .. Cap]
  BY DEF PcapInv, PcapTypeOK
<1>3. CASE ServerDrain
  <2>1. wire' \in [Peers -> 0 .. Cap]
    <3>1. CASE accepted
      <4>1. wire["client"] \in 0 .. wire[Other(p)]
        BY <1>2 DEF Other, Peers
      <4> QED BY <1>1, <1>3, <3>1, <4>1, WireKeeps DEF ServerDrain
    <3>2. CASE ~accepted
      BY <1>2, <1>3, <3>2 DEF ServerDrain
    <3> QED BY <3>1, <3>2
  <2>2. heard' \in BOOLEAN /\ isAllowedToSend' \in BOOLEAN
    BY <1>1, <1>3 DEF ServerDrain, Sockets
  <2>3. Sockets'
    BY <1>1, <1>3, <2>1, <2>2 DEF ServerDrain, Sockets
  <2>4. pc' = pc \/ pc' = [pc EXCEPT ![p] = "spin"]
    BY <1>3 DEF ServerDrain, Become
  <2> QED BY <1>1, <1>2, <1>3, <2>3, <2>4, RestKeeps DEF ServerDrain
<1>4. CASE ServerWait
  <2>1. Sockets'
    BY <1>1, <1>4 DEF ServerWait, Sockets, syncVars
  <2> QED BY <1>1, <1>2, <1>4, <2>1, RestKeeps DEF ServerWait, Become
<1>5. CASE ServerLast
  <2>1. wire' \in [Peers -> 0 .. Cap]
    <3>1. (IF accepted THEN Sent(p) ELSE 0) \in 0 .. Cap - wire[p]
      BY <1>1
    <3> QED BY <1>1, <1>5, <3>1, WireKeeps DEF ServerLast
  <2>2. Sockets'
    BY <1>1, <1>5, <2>1, LastKeeps DEF ServerLast, Sockets, syncVars
  <2> QED BY <1>1, <1>5, <2>2, LastKeeps, ActKeeps DEF ServerLast
<1>6. CASE ServerAccept
  <2>1. Sockets'
    BY <1>1, <1>6 DEF ServerAccept, Sockets, syncVars
  <2>2. accepted' # accepted
    BY <1>1, <1>6 DEF ServerAccept
  <2> QED BY <1>1, <1>6, <2>1, <2>2, ActKeeps DEF ServerAccept
<1>7. CASE ServerSendRecv
  <2>1. wire' \in [Peers -> 0 .. Cap]
    BY <1>1, <1>7, WireKeeps DEF ServerSendRecv
  <2>2. Sockets'
    BY <1>1, <1>7, <2>1, LastKeeps DEF ServerSendRecv, Sockets
  <2> QED BY <1>1, <1>7, <2>2, LastKeeps, ActKeeps DEF ServerSendRecv, AfterRecv
<1>8. CASE ServerRecv
  <2>1. wire' \in [Peers -> 0 .. Cap]
    BY <1>1, <1>8, WireKeeps DEF ServerRecv
  <2>2. Sockets'
    BY <1>1, <1>8, <2>1 DEF ServerRecv, Sockets
  <2>3. wire[p] = Cap \/ Closed(Other(p))
    BY <1>1, <1>8, PcapAssumption DEF ServerRecv, ServerOut, Writable, Sockets
  <2> QED BY <1>1, <1>8, <2>2, <2>3, ActKeeps DEF ServerRecv, AfterRecv
<1>9. CASE ServerSend
  <2>1. wire' \in [Peers -> 0 .. Cap]
    BY <1>1, <1>9, WireKeeps DEF ServerSend
  <2>2. Sockets'
    BY <1>1, <1>9, <2>1, LastKeeps DEF ServerSend, Sockets, syncVars
  <2> QED BY <1>1, <1>9, <2>2, LastKeeps, ActKeeps DEF ServerSend
<1> QED BY <1>3, <1>4, <1>5, <1>6, <1>7, <1>8, <1>9 DEF ServerStep

LEMMA TimeKeeps ==
    ASSUME PcapInv, NEW p \in Peers,
           WakeFromGap(p) \/ WakeFromPause(p) \/ WakeFromNap \/ TimeIsOver(p)
    PROVE  PcapInv' /\ PacedStep /\ HandedStep
<1>1. /\ pc \in [Peers -> {"awake", "gap", "pause", "nap", "spin", "done"}]
      /\ wait \in [Peers -> Sleeps] /\ Sockets
  BY Parts DEF PcapInv, PcapTypeOK
<1>2. Zero \in Sleeps
  BY PcapAssumption DEF Zero, Sleeps
<1>3. CASE WakeFromGap(p)
  <2>1. Sockets'
    BY <1>1, <1>3 DEF WakeFromGap, Sockets, syncVars
  <2>2. wait' \in [Peers -> Sleeps]
    BY <1>1, <1>2, <1>3 DEF WakeFromGap
  <2> QED BY <1>1, <1>3, <2>1, <2>2, RestKeeps DEF WakeFromGap, Become, AfterGap
<1>4. CASE WakeFromPause(p)
  <2>1. Sockets'
    BY <1>1, <1>4 DEF WakeFromPause, Sockets, syncVars
  <2> QED BY <1>1, <1>4, <2>1, RestKeeps DEF WakeFromPause, Become
<1>5. CASE WakeFromNap
  <2>1. Sockets'
    BY <1>1, <1>5 DEF WakeFromNap, Sockets, syncVars
  <2> QED BY <1>1, <1>5, <2>1, RestKeeps DEF WakeFromNap, Become
<1>6. CASE TimeIsOver(p)
  <2>1. Sockets'
    BY <1>1, <1>6 DEF TimeIsOver, Sockets, syncVars
  <2> QED BY <1>1, <1>6, <2>1, RestKeeps DEF TimeIsOver
<1> QED BY <1>3, <1>4, <1>5, <1>6

LEMMA StepKeeps ==
    ASSUME PcapInv, [PcapNext]_pcapVars
    PROVE  PcapInv' /\ [PacedStep]_pcapVars /\ [HandedStep]_pcapVars
<1>1. CASE ClientStep \/ ServerStep
  BY <1>1, ClientKeeps, ServerKeeps
<1>2. CASE WakeFromNap
  <2>1. "client" \in Peers
    BY DEF Peers
  <2> QED BY <1>2, <2>1, TimeKeeps
<1>3. CASE \E p \in Peers : Wake(p) \/ TimeIsOver(p)
  BY <1>3, TimeKeeps DEF Wake
<1>4. CASE UNCHANGED pcapVars
  <2>1. PcapInv'
    BY <1>4 DEF PcapInv, PcapTypeOK, InStep, Count, pcapVars, appVars, syncVars
  <2> QED BY <1>4, <2>1
<1> QED BY <1>1, <1>2, <1>3, <1>4 DEF PcapNext

\* The start of pcap_replay_new: each side has found its first packet.
LEMMA InitHolds == PcapInit => PcapInv
<1> SUFFICES ASSUME PcapInit PROVE PcapInv
  OBVIOUS
<1> DEFINE first == [file |-> 1, pos |-> 0]
<1>1. 1 \in Files /\ Files = 1 .. Count /\ Count \in Nat /\ first \in Cursors
  BY FilesAre DEF Cursors
<1>2. ASSUME NEW p \in Peers
      PROVE  /\ NextOf(first, p) \in Nat /\ NextOf(first, p) \in DOMAIN Captures[1]
             /\ ReadNext(first, p) \in Cursors
             /\ ReadNext(first, p).file = 1 /\ ReadNext(first, p).pos = NextOf(first, p)
  <2>1. PICK i \in DOMAIN Captures[1] : Captures[1][i].from = p
    BY PcapAssumption
  <2>2. i \in Nat /\ i > 0
    BY <1>1, <2>1, FilesAre
  <2>3. Ahead(first, p) # {}
    BY <2>1, <2>2 DEF Ahead
  <2> QED
    <3>1. first.file = 1
      OBVIOUS
    <3> HIDE DEF first
    <3> QED BY <1>1, <2>3, <3>1, NextOfType
<1>3. /\ paths = [p \in Peers |-> [f \in 1 .. Count |-> f]]
      /\ pcaps = [p \in Peers |-> [f \in 1 .. Count |->
                     IF f = 1 THEN ReadNext(first, p) ELSE [file |-> f, pos |-> 0]]]
      /\ nextPacket = [p \in Peers |-> [file |-> 1, idx |-> NextOf(first, p)]]
  BY <1>1 DEF PcapInit
<1> HIDE DEF first
<1>4. ASSUME NEW p \in Peers
      PROVE  /\ paths[p] \in Seq(Files) /\ Len(paths[p]) = Count
             /\ pcaps[p] \in Seq(Cursors) /\ Len(pcaps[p]) = Count
             /\ \A i \in 1 .. Count : pcaps[p][i].file = paths[p][i]
             /\ \A i \in 2 .. Count : pcaps[p][i].pos = 0
             /\ paths[p][1] = 1 /\ pcaps[p][1].pos = NextOf(first, p)
             /\ nextPacket[p] = [file |-> 1, idx |-> NextOf(first, p)]
  <2>1. \A f \in 1 .. Count :
            (IF f = 1 THEN ReadNext(first, p) ELSE [file |-> f, pos |-> 0]) \in Cursors
    BY <1>1, <1>2 DEF Cursors
  <2>2. paths[p] = [f \in 1 .. Count |-> f]
    BY <1>3
  <2>3. pcaps[p] = [f \in 1 .. Count |->
                        IF f = 1 THEN ReadNext(first, p) ELSE [file |-> f, pos |-> 0]]
    BY <1>3
  <2>4. paths[p] \in Seq(Files) /\ Len(paths[p]) = Count
    BY <1>1, <2>2
  <2>5. pcaps[p] \in Seq(Cursors) /\ Len(pcaps[p]) = Count
    <3> DEFINE e(f) == IF f = 1 THEN ReadNext(first, p) ELSE [file |-> f, pos |-> 0]
    <3>1. pcaps[p] \in [1 .. Count -> Cursors]
      BY <2>1, <2>3
    <3> QED BY <1>1, <3>1
  <2>6. \A i \in 1 .. Count : pcaps[p][i].file = paths[p][i]
    BY <1>1, <1>2, <2>2, <2>3
  <2>7. \A i \in 2 .. Count : pcaps[p][i].pos = 0
    BY <1>1, <2>3
  <2>8. 1 \in 1 .. Count
    BY <1>1
  <2> QED BY <1>2, <1>3, <2>2, <2>3, <2>4, <2>5, <2>6, <2>7, <2>8
<1>5. Zero \in Sleeps /\ Nothing \in [file : Nat, idx : Nat] /\ 0 \in 0 .. Cap
  BY PcapAssumption DEF Zero, Sleeps, Nothing
<1>6. PcapTypeOK
  <2>1. pcaps \in [Peers -> Seq(Cursors)] /\ paths \in [Peers -> Seq(Files)]
    BY <1>3, <1>4
  <2>2. nextPacket \in [Peers -> Places]
    BY <1>1, <1>2, <1>3 DEF Places
  <2> QED BY <1>5, <2>1, <2>2 DEF PcapTypeOK, PcapInit
<1>7. InStep
  <2> SUFFICES ASSUME NEW p \in Peers
               PROVE  /\ Len(pcaps[p]) = Count /\ Len(paths[p]) = Count
                      /\ \A i \in 1 .. Count : pcaps[p][i].file = paths[p][i]
                      /\ \A i \in 2 .. Count : pcaps[p][i].pos = 0
                      /\ paths[p][1] = nextPacket[p].file
                      /\ pcaps[p][1].pos = nextPacket[p].idx
                      /\ nextPacket[p].idx \in DOMAIN Captures[nextPacket[p].file]
    BY DEF InStep
  <2>1. nextPacket[p].file = 1 /\ nextPacket[p].idx = NextOf(first, p)
    <3>1. nextPacket[p] = [file |-> 1, idx |-> NextOf(first, p)]
      BY <1>4
    <3> QED BY <3>1
  <2> QED BY <1>2, <1>4, <2>1
<1> QED BY <1>6, <1>7 DEF PcapInv

LEMMA InvHolds == PcapSpec => []PcapInv
<1>1. PcapInv /\ [PcapNext]_pcapVars => PcapInv'
  BY StepKeeps
<1> QED BY InitHolds, <1>1, PTL DEF PcapSpec

\* The two queues of a peer stay in step, and every round of a file starts at its
\* first packet (change_pcap_file_to_send), for any captures.
THEOREM CapturesInStep == PcapSpec => [](PcapTypeOK /\ FilesInStep)
<1>1. PcapInv => FilesInStep
  <2> SUFFICES ASSUME PcapInv, NEW p \in Peers, pc[p] # "done"
               PROVE  /\ Len(pcaps[p]) = Len(paths[p])
                      /\ \A i \in DOMAIN paths[p] : pcaps[p][i].file = paths[p][i]
                      /\ pcaps[p][1].pos = nextPacket[p].idx
                      /\ paths[p][1] = nextPacket[p].file
                      /\ \A i \in DOMAIN paths[p] \ {1} : pcaps[p][i].pos = 0
    BY DEF FilesInStep
  <2>1. DOMAIN paths[p] = 1 .. Count
    BY AtWork, LenProperties
  <2>2. \A i \in 1 .. Count : i # 1 => i \in 2 .. Count
    BY FilesAre
  <2> QED BY <2>1, <2>2, AtWork
<1>2. PcapInv => PcapTypeOK
  BY DEF PcapInv
<1> QED BY InvHolds, <1>1, <1>2, PTL

\* The sleep between two packets is the time between them in the capture
\* (timeval_subtract), for any normalised times, in order or not.
THEOREM ReplayIsPaced == PcapSpec => Paced
<1>1. PcapInv /\ [PcapNext]_pcapVars => [PacedStep]_pcapVars
  BY StepKeeps
<1>2. PcapSpec => [][PacedStep]_pcapVars
  BY InvHolds, <1>1, PTL DEF PcapSpec
<1> QED BY <1>2 DEF Paced, PacedStep

\* Only accepting, a full connection and a closed one make a peer pass over a packet,
\* for any captures and any sizes.
THEOREM NoPacketPassedOver == PcapSpec => NonePassedOver
<1>1. PcapInv /\ [PcapNext]_pcapVars => [HandedStep]_pcapVars
  BY StepKeeps
<1>2. PcapSpec => [][HandedStep]_pcapVars
  BY InvHolds, <1>1, PTL DEF PcapSpec
<1> QED BY <1>2 DEF NonePassedOver, HandedStep
-----------------------------------------------------------------------------
(* The order of packets and of files.                                      *)

\* Each path of a queue is that of the file after the one before it, round the ring.
Following(f) == (f % Count) + 1
Ring(q) == \A i \in 1 .. Count : q[IF i = Count THEN 1 ELSE i + 1] = Following(q[i])
InTurn == \A p \in Peers : Ring(paths[p])

\* What FileOrder says of a step.
Mine(f, p) == {i \in DOMAIN Captures[f] : Captures[f][i].from = p}
OrderOf(p) ==
    \/ /\ nextPacket'[p].file = nextPacket[p].file
       /\ nextPacket'[p].idx > nextPacket[p].idx
       /\ Mine(nextPacket[p].file, p)
              \cap (nextPacket[p].idx + 1 .. nextPacket'[p].idx - 1) = {}
    \/ /\ nextPacket'[p].file = Following(nextPacket[p].file)
       /\ \A i \in Mine(nextPacket'[p].file, p) : nextPacket'[p].idx <= i
       /\ \/ \A i \in Mine(nextPacket[p].file, p) : i <= nextPacket[p].idx
          \/ Closed(Other(p))
OrderStep == \A p \in Peers : nextPacket'[p] # nextPacket[p] => OrderOf(p)

\* get_next_packet stops at the first packet of p beyond the cursor.
LEMMA NextOfFirst ==
    ASSUME NEW cap \in Cursors, NEW p \in Peers, Ahead(cap, p) # {}
    PROVE  /\ NextOf(cap, p) \in Ahead(cap, p)
           /\ \A j \in Ahead(cap, p) : NextOf(cap, p) <= j
<1> DEFINE S == Ahead(cap, p)
<1>1. S \subseteq Nat /\ S # {}
  BY FilesAre DEF Ahead, Cursors
<1>2. \E k \in S : \A j \in S : k <= j
  <2> HIDE DEF S
  <2> QED BY <1>1, LeastOf
<1> QED BY <1>2 DEF NextOf

LEMMA GoOnOrders ==
    ASSUME PcapInv, NEW p \in Peers, pc[p] # "done", More(p), GoOn(p)
    PROVE  paths' = paths /\ OrderOf(p)
<1> DEFINE cap == pcaps[p][1]
<1>1. /\ cap \in Cursors /\ cap.file = nextPacket[p].file /\ cap.pos = nextPacket[p].idx
      /\ Count >= 1 /\ 1 \in 1 .. Count /\ nextPacket[p] \in Places
      /\ cap.file \in Files /\ cap.pos \in Nat
  BY AtWork, FilesAre DEF Places
<1>2. /\ nextPacket' = [nextPacket EXCEPT ![p].idx = NextOf(cap, p)]
      /\ paths' = paths
  BY DEF GoOn, GetNextPacket, More
<1>3. /\ NextOf(cap, p) \in Ahead(cap, p)
      /\ \A j \in Ahead(cap, p) : NextOf(cap, p) <= j
  <2>1. Ahead(cap, p) # {}
    BY DEF More
  <2> HIDE DEF cap
  <2> QED BY <1>1, <2>1, NextOfFirst
<1>4. nextPacket \in [Peers -> Places]
  BY DEF PcapInv, PcapTypeOK
<1>5. nextPacket'[p].file = cap.file /\ nextPacket'[p].idx = NextOf(cap, p)
  BY <1>1, <1>2, <1>4 DEF Places
<1>6. Ahead(cap, p) = {i \in Mine(cap.file, p) : i > cap.pos}
  BY DEF Ahead, Mine
<1> HIDE DEF cap
<1>7. Mine(cap.file, p) \subseteq Nat
  BY <1>1, FilesAre DEF Mine
<1>8. Mine(cap.file, p) \cap (cap.pos + 1 .. NextOf(cap, p) - 1) = {}
  <2> SUFFICES ASSUME NEW i \in Mine(cap.file, p), i \in cap.pos + 1 .. NextOf(cap, p) - 1
               PROVE  FALSE
    OBVIOUS
  <2>1. i \in Nat /\ i > cap.pos /\ NextOf(cap, p) \in Nat
    BY <1>1, <1>3, <1>6, <1>7
  <2>2. NextOf(cap, p) <= i
    BY <1>3, <1>6, <2>1
  <2> QED BY <2>1, <2>2
<1> QED BY <1>1, <1>2, <1>3, <1>5, <1>6, <1>8 DEF OrderOf

\* A queue that is turned keeps its order.
LEMMA RingTurns ==
    ASSUME PcapInv, InTurn, NEW p \in Peers, pc[p] # "done"
    PROVE  /\ Ring(NextPaths(p))
           /\ NextPaths(p)[1] = Following(paths[p][1])
<1> DEFINE b == paths[p]
           d == NextPaths(p)
<1>1. /\ b \in Seq(Files) /\ b # <<>> /\ Len(b) = Count
      /\ Count \in Nat /\ Count >= 1 /\ Ring(b)
  BY AtWork, FilesAre DEF InTurn
<1>2. d = Append(Tail(b), Head(b))
  BY DEF NextPaths
<1> HIDE DEF b, d
<1>3. /\ Head(b) \in Files /\ Head(b) = b[1]
      /\ Tail(b) \in Seq(Files) /\ Len(Tail(b)) = Count - 1
      /\ \A i \in 1 .. Len(Tail(b)) : Tail(b)[i] = b[i + 1]
  BY <1>1, HeadTailProperties
<1>4. /\ \A i \in 1 .. Count - 1 : d[i] = b[i + 1]
      /\ d[Count] = b[1]
  BY <1>1, <1>2, <1>3, AppendProperties
<1>5. ASSUME NEW i \in 1 .. Count
      PROVE  d[i] = b[IF i = Count THEN 1 ELSE i + 1]
  BY <1>1, <1>4
<1>6. \A i \in 1 .. Count : (IF i = Count THEN 1 ELSE i + 1) \in 1 .. Count
  BY <1>1
<1>7. \A i \in 1 .. Count : d[i] = Following(b[i])
  BY <1>1, <1>5 DEF Ring
<1>8. \A i \in 1 .. Count : d[IF i = Count THEN 1 ELSE i + 1] = Following(d[i])
  BY <1>5, <1>6, <1>7
<1>9. 1 \in 1 .. Count
  BY <1>1
<1> QED BY <1>7, <1>8, <1>9 DEF Ring, b, d

LEMMA RestartOrders ==
    ASSUME PcapInv, InTurn, NEW p \in Peers, pc[p] # "done", Restart(p),
           ~More(p) \/ Closed(Other(p))
    PROVE  InTurn' /\ (nextPacket'[p] # nextPacket[p] => OrderOf(p))
<1> DEFINE cap == Head(NextPcaps(p))
<1>1. /\ paths \in [Peers -> Seq(Files)] /\ nextPacket \in [Peers -> Places]
      /\ cap \in Cursors /\ cap = NextPcaps(p)[1] /\ cap.file = NextPaths(p)[1]
      /\ cap.pos = 0 /\ cap.file \in Files
      /\ paths[p][1] = nextPacket[p].file
  <2>1. /\ paths \in [Peers -> Seq(Files)] /\ nextPacket \in [Peers -> Places]
        /\ paths[p][1] = nextPacket[p].file
    BY AtWork DEF PcapInv, PcapTypeOK
  <2>2. 1 \in 1 .. Count
    BY FilesAre
  <2>3. /\ NextPcaps(p)[1] \in Cursors /\ NextPcaps(p)[1].file = NextPaths(p)[1]
        /\ NextPcaps(p)[1].pos = 0 /\ cap = NextPcaps(p)[1]
    BY <2>2, Rotated
  <2> QED BY <2>1, <2>3 DEF Cursors
<1> HIDE DEF cap
<1>2. CASE /\ paths' = [paths EXCEPT ![p] = NextPaths(p)]
           /\ IF Ahead(cap, p) = {}
              THEN UNCHANGED nextPacket
              ELSE nextPacket' = [nextPacket EXCEPT ![p] =
                                      [file |-> cap.file, idx |-> NextOf(cap, p)]]
  <2>1. InTurn'
    <3>1. ASSUME NEW q \in Peers PROVE Ring(paths'[q])
      BY <1>1, <1>2, RingTurns DEF InTurn
    <3> QED BY <3>1 DEF InTurn, Ring, Following, Count
  <2>2. ASSUME nextPacket'[p] # nextPacket[p]
        PROVE  OrderOf(p)
    <3>1. /\ Ahead(cap, p) # {} /\ nextPacket'[p].file = cap.file
          /\ nextPacket'[p].idx = NextOf(cap, p)
      BY <1>1, <1>2, <2>2
    <3>2. \A i \in Mine(cap.file, p) : i \in Nat /\ i > 0
      BY <1>1, FilesAre DEF Mine
    <3>3. Mine(cap.file, p) \subseteq Ahead(cap, p)
      BY <1>1, <3>2 DEF Mine, Ahead
    <3>4. \A i \in Mine(cap.file, p) : NextOf(cap, p) <= i
      BY <1>1, <3>1, <3>3, NextOfFirst
    <3>5. cap.file = Following(nextPacket[p].file)
      BY <1>1, RingTurns
    <3>6. ~More(p) => \A i \in Mine(nextPacket[p].file, p) : i <= nextPacket[p].idx
      <4>1. /\ pcaps[p][1].file = nextPacket[p].file /\ pcaps[p][1].pos = nextPacket[p].idx
            /\ nextPacket[p].file \in Files /\ nextPacket[p].idx \in Nat
        BY AtWork, FilesAre DEF Places
      <4>2. Mine(nextPacket[p].file, p) \subseteq Nat
        BY <4>1, FilesAre DEF Mine
      <4> QED BY <4>1, <4>2 DEF More, Ahead, Mine
    <3> QED BY <3>1, <3>4, <3>5, <3>6 DEF OrderOf
  <2> QED BY <2>1, <2>2
<1>3. CASE UNCHANGED <<paths, nextPacket>>
  BY <1>3 DEF InTurn, Ring, Following, Count
<1> QED BY <1>2, <1>3 DEF Restart, cap

\* The stream of a readable connection that gives nothing has ended.
LEMMA NothingMeansClosed ==
    ASSUME PcapInv, NEW p \in Peers, pc[p] # "done", Readable(p), Received(p) = 0
    PROVE  Closed(Other(p))
<1>1. Other(p) \in Peers /\ wire \in [Peers -> 0 .. Cap]
  BY DEF Other, Peers, PcapInv, PcapTypeOK
<1>2. MTU \in Nat /\ MTU > 0 /\ wire[Other(p)] \in Nat
  BY <1>1, PcapAssumption
<1> QED BY <1>2 DEF Readable, Received, Less

\* A peer that goes on or restarts, and a step of neither.
LEMMA ActOrders ==
    ASSUME PcapInv, InTurn, PcapInv',
           NEW p \in Peers, pc[p] = "awake",
           \A q \in Peers \ {p} : nextPacket'[q] = nextPacket[q],
           \/ More(p) /\ GoOn(p)
           \/ Restart(p) /\ (~More(p) \/ Closed(Other(p)))
    PROVE  InTurn' /\ OrderStep
<1>1. CASE More(p) /\ GoOn(p)
  BY <1>1, GoOnOrders DEF OrderStep, InTurn, Ring, Following, Count
<1>2. CASE Restart(p) /\ (~More(p) \/ Closed(Other(p)))
  BY <1>2, RestartOrders DEF OrderStep
<1> QED BY <1>1, <1>2

LEMMA StepOrders ==
    ASSUME PcapInv, InTurn, [PcapNext]_pcapVars
    PROVE  InTurn' /\ [OrderStep]_pcapVars
<1>1. PcapInv'
  BY StepKeeps
<1>2. ASSUME NEW p \in Peers, pc[p] = "awake",
             \/ More(p) /\ GoOn(p)
             \/ Restart(p) /\ (~More(p) \/ Closed(Other(p)))
      PROVE  InTurn' /\ OrderStep
  <2>1. \A q \in Peers \ {p} : nextPacket'[q] = nextPacket[q]
    BY <1>2, GoOnKeeps, RestartKeeps
  <2> QED BY <1>1, <1>2, <2>1, ActOrders
<1>3. CASE ClientStep
  <2>1. "client" \in Peers /\ pc["client"] = "awake"
    BY <1>3 DEF Peers, ClientStep, ClientLast, ClientSendRecv, ClientSend, ClientRecv,
                ClientAwake
  <2>2. CASE ClientLast
    BY <1>2, <2>1, <2>2 DEF ClientLast
  <2>3. CASE ClientSendRecv
    BY <1>2, <2>1, <2>3, NothingMeansClosed DEF ClientSendRecv, ClientIn, AfterRecv
  <2>4. CASE ClientSend
    BY <1>2, <2>1, <2>4 DEF ClientSend
  <2>5. CASE ClientRecv
    BY <1>2, <2>1, <2>5, NothingMeansClosed DEF ClientRecv, ClientIn, AfterRecv
  <2> QED BY <1>3, <2>2, <2>3, <2>4, <2>5 DEF ClientStep
<1>4. CASE UNCHANGED appVars
  BY <1>4 DEF appVars, InTurn, Ring, Following, Count, OrderStep
<1>5. CASE ServerStep
  <2>1. "server" \in Peers /\ pc["server"] = "awake"
    BY <1>5 DEF Peers, ServerStep, ServerDrain, ServerWait, ServerLast, ServerAccept,
                ServerSendRecv, ServerRecv, ServerSend, ServerGoes, ServerAwake
  <2>2. CASE ServerDrain \/ ServerWait
    BY <1>4, <2>2 DEF ServerDrain, ServerWait
  <2>3. CASE ServerLast
    BY <1>2, <2>1, <2>3 DEF ServerLast
  <2>4. CASE ServerAccept
    BY <1>2, <2>1, <2>4 DEF ServerAccept
  <2>5. CASE ServerSendRecv
    BY <1>2, <2>1, <2>5, NothingMeansClosed DEF ServerSendRecv, ServerIn, AfterRecv
  <2>6. CASE ServerRecv
    BY <1>2, <2>1, <2>6, NothingMeansClosed DEF ServerRecv, ServerIn, AfterRecv
  <2>7. CASE ServerSend
    BY <1>2, <2>1, <2>7 DEF ServerSend
  <2> QED BY <1>5, <2>2, <2>3, <2>4, <2>5, <2>6, <2>7 DEF ServerStep
<1>6. CASE WakeFromNap \/ \E p \in Peers : Wake(p) \/ TimeIsOver(p)
  BY <1>4, <1>6 DEF WakeFromNap, Wake, WakeFromGap, WakeFromPause, TimeIsOver
<1>7. CASE UNCHANGED pcapVars
  BY <1>4, <1>7 DEF pcapVars
<1> QED BY <1>3, <1>5, <1>6, <1>7 DEF PcapNext

\* Packets are passed over only in their order, and the files come round in theirs
\* (get_next_packet, change_pcap_file_to_send), for any captures.
THEOREM FilesComeInOrder == PcapSpec => FileOrder
<1>1. PcapInit => InTurn
  <2> SUFFICES ASSUME PcapInit, NEW p \in Peers, NEW i \in 1 .. Count
               PROVE  paths[p][IF i = Count THEN 1 ELSE i + 1] = Following(paths[p][i])
    BY DEF InTurn, Ring
  <2>1. paths[p] = [f \in 1 .. Count |-> f] /\ Count \in Nat /\ Count >= 1
    BY FilesAre DEF PcapInit
  <2>2. (IF i = Count THEN 1 ELSE i + 1) = (i % Count) + 1
    <3>1. CASE i = Count
      <4>1. Count % Count = 0
        BY <2>1
      <4> QED BY <3>1, <4>1
    <3>2. CASE i # Count
      <4>1. i \in 0 .. Count - 1
        BY <2>1, <3>2
      <4>2. i % Count = i
        BY <2>1, <4>1
      <4> QED BY <3>2, <4>2
    <3> QED BY <3>1, <3>2
  <2>3. (IF i = Count THEN 1 ELSE i + 1) \in 1 .. Count
    BY <2>1
  <2> QED BY <2>1, <2>2, <2>3 DEF Following
<1>2. PcapInv /\ InTurn /\ [PcapNext]_pcapVars => InTurn' /\ [OrderStep]_pcapVars
  BY StepOrders
<1>3. PcapSpec => [][OrderStep]_pcapVars
  BY InvHolds, <1>1, <1>2, PTL DEF PcapSpec
<1>4. OrderStep =>
        \A p \in Peers : nextPacket'[p] # nextPacket[p] =>
          LET old == nextPacket[p]
              new == nextPacket'[p]
              mine(f) == {i \in DOMAIN Captures[f] : Captures[f][i].from = p}
          IN  \/ /\ new.file = old.file /\ new.idx > old.idx
                 /\ mine(old.file) \cap (old.idx + 1 .. new.idx - 1) = {}
              \/ /\ new.file = (old.file % Len(Captures)) + 1
                 /\ \A i \in mine(new.file) : new.idx <= i
                 /\ (\A i \in mine(old.file) : i <= old.idx) \/ Closed(Other(p))
  BY DEF OrderStep, OrderOf, Mine, Following, Count
<1> QED BY <1>3, <1>4, PTL DEF FileOrder
-----------------------------------------------------------------------------
(* What the server waits for.                                              *)

\* The first capture has more than one packet of the server: it has accepted the
\* connection before it restarts.
AcceptsFirst ==
    \E i, j \in DOMAIN Captures[1] :
        i < j /\ Captures[1][i].from = "server" /\ Captures[1][j].from = "server"

\* A server that may send has heard the client since its restart, and one that has not
\* accepted yet stands where it began.
FirstRead == ReadNext([file |-> 1, pos |-> 0], "server")
HeardInv ==
    /\ isFirstPacketReceived => heard
    /\ isAllowedToSend => heard
    /\ ~accepted => /\ isAllowedToSend /\ pc["server"] = "awake"
                    /\ pcaps["server"][1] = FirstRead

WaitStep == last'["server"] # last["server"] => heard

\* The server has a packet beyond the one that it begins with.
LEMMA FirstIsNotLast ==
    ASSUME AcceptsFirst
    PROVE  Ahead(FirstRead, "server") # {}
<1> DEFINE start == [file |-> 1, pos |-> 0]
<1>1. start \in Cursors /\ start.file = 1 /\ start.pos = 0 /\ "server" \in Peers
  BY FilesAre DEF Cursors, Peers
<1>2. PICK i, j \in DOMAIN Captures[1] :
          i < j /\ Captures[1][i].from = "server" /\ Captures[1][j].from = "server"
  BY DEF AcceptsFirst
<1>3. i \in Nat /\ j \in Nat /\ i > 0
  BY <1>2, FilesAre
<1> HIDE DEF start
<1>4. i \in Ahead(start, "server")
  BY <1>1, <1>2, <1>3 DEF Ahead
<1>5. NextOf(start, "server") <= i /\ NextOf(start, "server") \in Nat
  BY <1>1, <1>4, NextOfFirst, NextOfType
<1>6. ReadNext(start, "server").file = 1
      /\ ReadNext(start, "server").pos = NextOf(start, "server")
  BY <1>1, NextOfType
<1>7. j > NextOf(start, "server")
  BY <1>2, <1>3, <1>5
<1> QED BY <1>2, <1>6, <1>7 DEF Ahead, FirstRead, start

\* The client's steps leave the server's captures alone.
LEMMA ClientLeaves ==
    ASSUME PcapInv, ClientStep
    PROVE  /\ pcaps'["server"] = pcaps["server"] /\ pc'["server"] = pc["server"]
           /\ last'["server"] = last["server"]
           /\ UNCHANGED <<accepted, isAllowedToSend, isFirstPacketReceived, heard>>
<1>1. /\ pcaps \in [Peers -> Seq(Cursors)] /\ "server" \in Peers /\ "client" \in Peers
      /\ pc \in [Peers -> {"awake", "gap", "pause", "nap", "spin", "done"}]
      /\ last \in [Peers -> [file : Nat, idx : Nat]] /\ "server" # "client"
  BY DEF PcapInv, PcapTypeOK, Peers
<1>2. ASSUME GoOn("client") \/ Restart("client")
      PROVE  pcaps'["server"] = pcaps["server"] /\ pc'["server"] = pc["server"]
  <2>1. CASE GoOn("client")
    BY <1>1, <2>1 DEF GoOn, GetNextPacket, Become
  <2>2. CASE Restart("client")
    <3>1. (\E x : pcaps' = [pcaps EXCEPT !["client"] = x])
          /\ (\E x : pc' = [pc EXCEPT !["client"] = x])
      BY <2>2 DEF Restart, Become
    <3> QED BY <1>1, <3>1
  <2> QED BY <1>2, <2>1, <2>2
<1>3. GoOn("client") \/ Restart("client")
  BY DEF ClientStep, ClientLast, ClientSendRecv, ClientSend, ClientRecv, AfterRecv
<1>4. last'["server"] = last["server"]
  BY <1>1 DEF ClientStep, ClientLast, ClientSendRecv, ClientSend, ClientRecv, SendPacket
<1>5. UNCHANGED <<accepted, isAllowedToSend, isFirstPacketReceived, heard>>
  BY DEF ClientStep, ClientLast, ClientSendRecv, ClientSend, ClientRecv, syncVars
<1> QED BY <1>2, <1>3, <1>4, <1>5

LEMMA StepWaits ==
    ASSUME AcceptsFirst, PcapInv, HeardInv, [PcapNext]_pcapVars
    PROVE  HeardInv' /\ [WaitStep]_pcapVars
<1>1. /\ "server" \in Peers /\ "client" \in Peers /\ Other("server") = "client"
      /\ pc \in [Peers -> {"awake", "gap", "pause", "nap", "spin", "done"}]
      /\ wire \in [Peers -> 0 .. Cap] /\ heard \in BOOLEAN /\ accepted \in BOOLEAN
  BY DEF PcapInv, PcapTypeOK, Peers, Other
<1>2. CASE ClientStep
  BY <1>2, ClientLeaves DEF HeardInv, WaitStep
<1>3. ServerGoes => heard
  BY DEF ServerGoes, HeardInv
<1>4. CASE ServerDrain
  <2>1. accepted
    BY <1>4 DEF ServerDrain, HeardInv
  <2>2. CASE Closed("client")
    BY <1>4, <2>1, <2>2 DEF ServerDrain, HeardInv, WaitStep
  <2>3. CASE ~Closed("client")
    <3>1. wire["client"] > 0
      BY <1>1, <1>4, <2>1, <2>3 DEF ServerDrain, ServerIn, Readable
    <3>2. heard'
      BY <1>4, <2>1, <3>1 DEF ServerDrain
    <3> QED BY <1>4, <2>1, <3>2 DEF ServerDrain, HeardInv, WaitStep
  <2> QED BY <2>2, <2>3
<1>5. CASE ServerWait
  <2>1. accepted
    BY <1>5 DEF ServerWait, ServerOut
  <2> QED BY <1>5, <2>1 DEF ServerWait, syncVars, HeardInv, WaitStep
<1>6. CASE ServerLast
  <2>1. accepted
    BY <1>6, FirstIsNotLast DEF ServerLast, More, HeardInv
  <2> QED BY <1>3, <1>6, <2>1 DEF ServerLast, syncVars, HeardInv, WaitStep
<1>7. CASE ServerAccept
  BY <1>3, <1>7 DEF ServerAccept, syncVars, HeardInv, WaitStep
<1>8. CASE ServerSendRecv
  BY <1>3, <1>8 DEF ServerSendRecv, HeardInv, WaitStep
<1>9. CASE ServerRecv
  BY <1>3, <1>9 DEF ServerRecv, HeardInv, WaitStep
<1>10. CASE ServerSend
  BY <1>3, <1>10 DEF ServerSend, syncVars, HeardInv, WaitStep
<1>11. CASE WakeFromNap
  <2>1. accepted
    BY <1>11 DEF WakeFromNap, HeardInv
  <2> QED BY <1>11, <2>1 DEF WakeFromNap, syncVars, HeardInv, WaitStep
<1>12. ASSUME NEW p \in Peers, WakeFromGap(p) PROVE HeardInv' /\ WaitStep
  <2>1. accepted \/ p # "server"
    BY <1>12 DEF WakeFromGap, HeardInv
  <2>2. p # "server" => pc'["server"] = pc["server"]
    BY <1>1, <1>12 DEF WakeFromGap, Become
  <2> QED BY <1>12, <2>1, <2>2 DEF WakeFromGap, appVars, syncVars, HeardInv, WaitStep
<1>13. ASSUME NEW p \in Peers, WakeFromPause(p) PROVE HeardInv' /\ WaitStep
  <2>1. CASE p = "server"
    <3>1. accepted
      BY <1>13, <2>1 DEF WakeFromPause, HeardInv
    <3> QED BY <1>13, <2>1, <3>1 DEF WakeFromPause, HeardInv, WaitStep
  <2>2. CASE p # "server"
    <3>1. pc'["server"] = pc["server"]
      BY <1>1, <1>13, <2>2 DEF WakeFromPause, Become
    <3> QED BY <1>13, <2>2, <3>1 DEF WakeFromPause, appVars, syncVars, HeardInv, WaitStep
  <2> QED BY <2>1, <2>2
<1>14. ASSUME NEW p \in Peers, TimeIsOver(p) PROVE HeardInv' /\ WaitStep
  BY <1>14 DEF TimeIsOver, appVars, syncVars, HeardInv, WaitStep
<1>15. CASE UNCHANGED pcapVars
  BY <1>15 DEF pcapVars, appVars, syncVars, HeardInv
<1> QED
  BY <1>2, <1>4, <1>5, <1>6, <1>7, <1>8, <1>9, <1>10, <1>11, <1>12, <1>13, <1>14, <1>15
     DEF PcapNext, ServerStep, Wake

\* After a restart the server sends nothing before it has read something from the
\* client (isAllowedToSend, isFirstPacketReceived), whatever else the captures hold, if
\* the first has more than one packet of the server.  With only one the server can
\* restart before it accepts: then what lets it send is the pending connection, not
\* what it reads.
THEOREM ServerHearsFirst == AcceptsFirst => (PcapSpec => ServerWaits)
<1> SUFFICES ASSUME AcceptsFirst PROVE PcapSpec => ServerWaits
  OBVIOUS
<1>1. PcapInit => HeardInv
  <2> SUFFICES ASSUME PcapInit PROVE HeardInv
    OBVIOUS
  <2>1. "server" \in Peers /\ 1 \in Files
    BY FilesAre DEF Peers
  <2>2. pcaps["server"][1] = FirstRead /\ pc["server"] = "awake"
    BY <2>1 DEF PcapInit, FirstRead
  <2> QED BY <2>2 DEF PcapInit, HeardInv
<1>2. PcapInv /\ HeardInv /\ [PcapNext]_pcapVars => HeardInv' /\ [WaitStep]_pcapVars
  BY StepWaits
<1>3. PcapSpec => [][WaitStep]_pcapVars
  BY InvHolds, <1>1, <1>2, PTL DEF PcapSpec
<1> QED BY <1>3 DEF ServerWaits, WaitStep
=============================================================================
