----------------------------- MODULE PcapReplay -----------------------------
(***************************************************************************)
(* pcap_replay: a client and a server that replay, over one connection of  *)
(* their own, the two sides of the connection in a list of captures, round *)
(* and round until their time is over.  Both run the same code on the same *)
(* captures; each sends the packets that its side sent there.              *)
(***************************************************************************)
EXTENDS Integers, Sequences, FiniteSets

CONSTANTS
    Captures,   \* Captures[f]: the packets of file f, in order
    Second,     \* microseconds in a second
    MTU,        \* units that one recv takes
    Cap,        \* units that a direction of the connection holds
    MayFail     \* whether opening a capture again may fail

Peers == {"client", "server"}
Files == DOMAIN Captures
Times == [sec : Nat, usec : 0 .. Second - 1]
Packets == [from : Peers \cup {"other"}, size : Nat, time : Times]

ASSUME PcapAssumption ==
    /\ Captures \in Seq(Seq(Packets)) /\ Captures # <<>>
    /\ Second \in Nat \ {0} /\ MTU \in Nat \ {0} /\ Cap \in Nat \ {0}
    /\ MayFail \in BOOLEAN
    /\ \A p \in Peers : \E i \in DOMAIN Captures[1] : Captures[1][i].from = p

VARIABLES
    pcaps,        \* pcapStructQueue: open captures, the one in use first
    paths,        \* pcapFilePathQueue
    nextPacket,   \* the packet that goes next
    pc,           \* "awake", asleep ("gap", "pause", "nap"), "spin" or "done"
    wait,         \* how long the sleep between two packets is
    late,         \* the timeout is over
    events,       \* what the client watches its socket for
    accepted,     \* the server has accepted the connection
    isAllowedToSend, isFirstPacketReceived,   \* the server's
    wire,         \* wire[p]: units that p has sent and the other not yet read
    last,         \* the last packet given to send_packet
    heard         \* the server has read something since its last restart

appVars == <<pcaps, paths, nextPacket>>
syncVars == <<isAllowedToSend, isFirstPacketReceived, heard>>
pcapVars == <<appVars, pc, wait, late, events, accepted, syncVars, wire, last>>

Other(p) == IF p = "client" THEN "server" ELSE "client"
Less(m, n) == IF m < n THEN m ELSE n
Zero == [sec |-> 0, usec |-> 0]
Nothing == [file |-> 0, idx |-> 0]

-----------------------------------------------------------------------------
(* The captures.  An open capture is a file and the packet read last.      *)

\* The packets of p that get_next_packet has still to come to.  The wrong variant
\* skips a packet after each it reads.
AheadButOne(cap, p) ==
    {i \in DOMAIN Captures[cap.file] : i > cap.pos + 1 /\ Captures[cap.file][i].from = p}
Ahead(cap, p) ==
    {i \in DOMAIN Captures[cap.file] : i > cap.pos /\ Captures[cap.file][i].from = p}

\* get_next_packet: read up to the next packet of p, or to the end of the file.
NextOf(cap, p) ==
    IF Ahead(cap, p) = {} THEN Len(Captures[cap.file])
    ELSE CHOOSE i \in Ahead(cap, p) : \A j \in Ahead(cap, p) : i <= j
ReadNext(cap, p) == [cap EXCEPT !.pos = NextOf(cap, p)]

More(p) == Ahead(pcaps[p][1], p) # {}
GetNextPacket(p) ==
    /\ pcaps' = [pcaps EXCEPT ![p][1] = ReadNext(@, p)]
    /\ nextPacket' = IF More(p)
                     THEN [nextPacket EXCEPT ![p].idx = NextOf(pcaps[p][1], p)]
                     ELSE nextPacket
    /\ UNCHANGED paths

\* change_pcap_file_to_send, when the file can be opened.
NextPaths(p) == Append(Tail(paths[p]), Head(paths[p]))
NextPcaps(p) == Append(Tail(pcaps[p]), [file |-> Head(paths[p]), pos |-> 0])

Packet(n) == Captures[n.file][n.idx]

\* timeval_subtract: x - y.  The wrong variant borrows a second that it does
\* not take away.
FreeBorrow(y, x) == [sec |-> x.sec - y.sec, usec |-> (x.usec - y.usec) % Second]
Subtract(y, x) ==
    LET borrow == IF x.usec < y.usec THEN (y.usec - x.usec) \div Second + 1 ELSE 0
        z == [sec |-> y.sec + borrow, usec |-> y.usec - Second * borrow]
        carry == IF x.usec - z.usec > Second THEN (x.usec - z.usec) \div Second ELSE 0
    IN  [sec |-> x.sec - (z.sec - carry), usec |-> x.usec - (z.usec + Second * carry)]

\* How long p sleeps between its packet and the next.
Gap(p) == Subtract(Packet(nextPacket[p]).time, Packet(nextPacket'[p]).time)

-----------------------------------------------------------------------------
(* The connection.                                                         *)

Closed(p) == pc[p] = "done"
Readable(p) == wire[Other(p)] > 0 \/ Closed(Other(p))
Writable(p) == wire[p] < Cap \/ Closed(Other(p))

\* What send takes of the next packet, and what recv returns.
Sent(p) ==
    IF Closed(Other(p)) THEN 0 ELSE Less(Packet(nextPacket[p]).size, Cap - wire[p])
Received(p) == Less(MTU, wire[Other(p)])

Exchange(p, out, in) ==
    wire' = [wire EXCEPT ![p] = @ + out, ![Other(p)] = @ - in]

\* send_packet is given the packet that was next, though get_next_packet has been
\* called since.  The wrong variant is given the packet just read.
SendNewPacket(p) ==
    last' = [last EXCEPT ![p] = [nextPacket[p] EXCEPT !.idx = NextOf(pcaps[p][1], p)]]
SendPacket(p) == last' = [last EXCEPT ![p] = nextPacket[p]]

Become(p, state) == pc' = [pc EXCEPT ![p] = state]

\* The next packet of the file, and a sleep until it is due.
GoOn(p) ==
    /\ GetNextPacket(p)
    /\ Become(p, "gap")
    /\ wait' = [wait EXCEPT ![p] = Gap(p)]

\* restart_client and restart_server: the next file from its start and a sleep, or
\* deinstanciate.
Restart(p) ==
    /\ UNCHANGED wait
    /\ \/ LET cap == Head(NextPcaps(p))
          IN  /\ paths' = [paths EXCEPT ![p] = NextPaths(p)]
              /\ pcaps' = [pcaps EXCEPT ![p] = [NextPcaps(p) EXCEPT ![1] = ReadNext(@, p)]]
              /\ IF Ahead(cap, p) = {}
                 THEN Become(p, "done") /\ UNCHANGED nextPacket
                 ELSE /\ Become(p, "pause")
                      /\ nextPacket' = [nextPacket EXCEPT ![p] =
                                            [file |-> cap.file, idx |-> NextOf(cap, p)]]
       \/ /\ MayFail
          /\ pcaps' = [pcaps EXCEPT ![p] = Tail(@)]
          /\ Become(p, "done")
          /\ UNCHANGED <<paths, nextPacket>>

\* After a recv that returned n: 0 is the end of the stream.
AfterRecv(p, n) == IF n = 0 THEN Restart(p) ELSE GoOn(p)

-----------------------------------------------------------------------------
(* The client: _pcap_activateClient.                                       *)

ClientIn == Readable("client") /\ "IN" \in events
ClientOut == Writable("client")
ClientAwake == pc["client"] = "awake"

ClientLast ==
    /\ ClientAwake /\ (ClientIn \/ ClientOut) /\ ~More("client")
    /\ SendPacket("client") /\ Exchange("client", Sent("client"), 0)
    /\ Restart("client")
    /\ UNCHANGED <<events, accepted, syncVars, late>>

ClientSendRecv ==
    /\ ClientAwake /\ ClientIn /\ ClientOut /\ More("client")
    /\ SendPacket("client") /\ Exchange("client", Sent("client"), Received("client"))
    /\ AfterRecv("client", Received("client"))
    /\ UNCHANGED <<events, accepted, syncVars, late>>

ClientSend ==
    /\ ClientAwake /\ ~ClientIn /\ ClientOut /\ More("client")
    /\ SendPacket("client") /\ Exchange("client", Sent("client"), 0)
    /\ events' = {"IN", "OUT"}
    /\ GoOn("client")
    /\ UNCHANGED <<accepted, syncVars, late>>

\* The packet that was next is freed without having been sent.
ClientRecv ==
    /\ ClientAwake /\ ClientIn /\ ~ClientOut /\ More("client")
    /\ Exchange("client", 0, Received("client"))
    /\ AfterRecv("client", Received("client"))
    /\ UNCHANGED <<events, accepted, syncVars, late, last>>

-----------------------------------------------------------------------------
(* The server: _pcap_activateServer.                                       *)

ServerIn == IF accepted THEN Readable("server") ELSE TRUE
ServerOut == accepted /\ Writable("server")
ServerAwake == pc["server"] = "awake"

\* It may go on to its next packet.  The wrong variants do not wait for the client
\* when there is nothing to read, and wait for what only going on can bring.
GoesUnheard ==
    /\ ServerAwake
    /\ \/ ServerIn /\ isAllowedToSend
       \/ ~ServerIn /\ ServerOut
GoesOnlyHeard ==
    /\ ServerAwake
    /\ ServerIn \/ ServerOut
    /\ isAllowedToSend /\ isFirstPacketReceived
ServerGoes ==
    /\ ServerAwake
    /\ \/ ServerIn /\ isAllowedToSend
       \/ ~ServerIn /\ ServerOut /\ isFirstPacketReceived

\* After a restart: read until recv fails.  The end of the stream is no failure.
ServerDrain ==
    /\ ServerAwake /\ ServerIn /\ ~isAllowedToSend
    /\ IF accepted
       THEN /\ Exchange("server", 0, wire["client"])
            /\ heard' = (heard \/ wire["client"] > 0)
       ELSE UNCHANGED <<wire, heard>>
    /\ IF accepted /\ Closed("client")
       THEN Become("server", "spin") /\ UNCHANGED isAllowedToSend
       ELSE isAllowedToSend' = TRUE /\ UNCHANGED pc
    /\ UNCHANGED <<appVars, wait, late, events, accepted, isFirstPacketReceived, last>>

\* Nothing to read since a restart: wait half a second.
ServerWait ==
    /\ ServerAwake /\ ~ServerIn /\ ServerOut /\ ~isFirstPacketReceived
    /\ Become("server", "nap")
    /\ UNCHANGED <<appVars, wait, late, events, accepted, syncVars, wire, last>>

\* With no connection yet, the last packet goes to the listening socket.
ServerLast ==
    /\ ServerGoes /\ ~More("server")
    /\ SendPacket("server")
    /\ Exchange("server", IF accepted THEN Sent("server") ELSE 0, 0)
    /\ Restart("server")
    /\ UNCHANGED <<events, accepted, syncVars, late>>

\* The packet that was next is freed without having been sent.
ServerAccept ==
    /\ ServerGoes /\ More("server") /\ ~accepted
    /\ accepted' = TRUE
    /\ GoOn("server")
    /\ UNCHANGED <<events, syncVars, late, wire, last>>

ServerSendRecv ==
    /\ ServerGoes /\ More("server") /\ accepted /\ ServerIn /\ ServerOut
    /\ SendPacket("server") /\ Exchange("server", Sent("server"), Received("server"))
    /\ isFirstPacketReceived' = TRUE
    /\ heard' = (heard \/ Received("server") > 0)
    /\ AfterRecv("server", Received("server"))
    /\ UNCHANGED <<events, accepted, isAllowedToSend, late>>

ServerRecv ==
    /\ ServerGoes /\ More("server") /\ accepted /\ ServerIn /\ ~ServerOut
    /\ Exchange("server", 0, Received("server"))
    /\ isFirstPacketReceived' = (isFirstPacketReceived \/ Received("server") > 0)
    /\ heard' = (heard \/ Received("server") > 0)
    /\ AfterRecv("server", Received("server"))
    /\ UNCHANGED <<events, accepted, isAllowedToSend, late, last>>

ServerSend ==
    /\ ServerGoes /\ More("server") /\ accepted /\ ~ServerIn
    /\ SendPacket("server") /\ Exchange("server", Sent("server"), 0)
    /\ GoOn("server")
    /\ UNCHANGED <<events, accepted, syncVars, late>>

-----------------------------------------------------------------------------
(* Time.                                                                   *)

\* A sleep between packets ends with a look at the clock; deinstanciate.  The wrong
\* variant does not look.
AlwaysOn(p) == "awake"
AfterGap(p) == IF late[p] THEN "done" ELSE "awake"
WakeFromGap(p) ==
    /\ pc[p] = "gap"
    /\ Become(p, AfterGap(p))
    /\ wait' = [wait EXCEPT ![p] = Zero]
    /\ UNCHANGED <<appVars, late, events, accepted, syncVars, wire, last>>

\* A sleep of restart_client or restart_server ends; the server then waits for the
\* client.
WakeFromPause(p) ==
    /\ pc[p] = "pause"
    /\ Become(p, "awake")
    /\ IF p = "server"
       THEN isAllowedToSend' = FALSE /\ isFirstPacketReceived' = FALSE /\ heard' = FALSE
       ELSE UNCHANGED syncVars
    /\ UNCHANGED <<appVars, wait, late, events, accepted, wire, last>>

WakeFromNap ==
    /\ pc["server"] = "nap"
    /\ Become("server", "awake")
    /\ UNCHANGED <<appVars, wait, late, events, accepted, syncVars, wire, last>>

TimeIsOver(p) ==
    /\ ~late[p] /\ ~Closed(p)
    /\ late' = [late EXCEPT ![p] = TRUE]
    /\ UNCHANGED <<appVars, pc, wait, events, accepted, syncVars, wire, last>>

-----------------------------------------------------------------------------
\* Both have been started; the connection is on its way to the server's backlog.
PcapInit ==
    /\ paths = [p \in Peers |-> [f \in Files |-> f]]
    /\ pcaps = [p \in Peers |-> [f \in Files |->
                    IF f = 1 THEN ReadNext([file |-> 1, pos |-> 0], p)
                    ELSE [file |-> f, pos |-> 0]]]
    /\ nextPacket = [p \in Peers |->
                        [file |-> 1, idx |-> NextOf([file |-> 1, pos |-> 0], p)]]
    /\ pc = [p \in Peers |-> "awake"] /\ wait = [p \in Peers |-> Zero]
    /\ late = [p \in Peers |-> FALSE]
    /\ events = {"OUT"} /\ accepted = FALSE
    /\ isAllowedToSend = TRUE /\ isFirstPacketReceived = TRUE /\ heard = TRUE
    /\ wire = [p \in Peers |-> 0] /\ last = [p \in Peers |-> Nothing]

ClientStep == ClientLast \/ ClientSendRecv \/ ClientSend \/ ClientRecv
ServerStep ==
    \/ ServerDrain \/ ServerWait \/ ServerLast \/ ServerAccept
    \/ ServerSendRecv \/ ServerRecv \/ ServerSend
Wake(p) == WakeFromGap(p) \/ WakeFromPause(p)

PcapNext ==
    \/ ClientStep \/ ServerStep \/ WakeFromNap
    \/ \E p \in Peers : Wake(p) \/ TimeIsOver(p)

\* The event loops run and sleeps end.
PcapFairness ==
    /\ WF_pcapVars(ClientStep) /\ WF_pcapVars(ServerStep) /\ WF_pcapVars(WakeFromNap)
    /\ \A p \in Peers : WF_pcapVars(Wake(p))

PcapSpec == PcapInit /\ [][PcapNext]_pcapVars /\ PcapFairness

-----------------------------------------------------------------------------
(* Properties.                                                             *)

Cursors == [file : Files, pos : Nat]
Places == [file : Files, idx : Nat]
Sleeps == [sec : Int, usec : 0 .. Second - 1]

\* Every variable has values the program can give it; a peer's sleep is one that
\* nanosleep takes (timespec normalised), and a direction holds no more than it can.
PcapTypeOK ==
    /\ pcaps \in [Peers -> Seq(Cursors)] /\ paths \in [Peers -> Seq(Files)]
    /\ nextPacket \in [Peers -> Places] /\ wait \in [Peers -> Sleeps]
    /\ pc \in [Peers -> {"awake", "gap", "pause", "nap", "spin", "done"}]
    /\ late \in [Peers -> BOOLEAN] /\ wire \in [Peers -> 0 .. Cap]
    /\ events \subseteq {"IN", "OUT"} /\ accepted \in BOOLEAN /\ heard \in BOOLEAN
    /\ isAllowedToSend \in BOOLEAN /\ isFirstPacketReceived \in BOOLEAN
    /\ last \in [Peers -> [file : Nat, idx : Nat]]

\* While a peer runs, its two queues name the same files in the same order, the
\* capture in use stands at the packet that goes next, and the others are unread: so
\* every round of every file starts at its first packet (change_pcap_file_to_send).
FilesInStep ==
    \A p \in Peers : pc[p] # "done" =>
        /\ Len(pcaps[p]) = Len(paths[p])
        /\ \A i \in DOMAIN paths[p] : pcaps[p][i].file = paths[p][i]
        /\ pcaps[p][1].pos = nextPacket[p].idx /\ paths[p][1] = nextPacket[p].file
        /\ \A i \in DOMAIN paths[p] \ {1} : pcaps[p][i].pos = 0

\* A packet is passed over only by the server that accepts, by a peer whose
\* connection is full, or when the other end has closed; every other packet that
\* goes next is handed to send before another takes its place.
NonePassedOver ==
    [][\A p \in Peers : nextPacket'[p] # nextPacket[p] =>
          \/ /\ last'[p].file = nextPacket[p].file
             /\ last'[p].idx = nextPacket[p].idx
          \/ p = "server" /\ accepted' # accepted
          \/ wire[p] = Cap
          \/ Closed(Other(p))]_pcapVars

\* Packets go in the order of the file, and after the last of them the first of the
\* next file goes, unless the other end has closed.
FileOrder ==
    [][\A p \in Peers : nextPacket'[p] # nextPacket[p] =>
          LET old == nextPacket[p]
              new == nextPacket'[p]
              mine(f) == {i \in DOMAIN Captures[f] : Captures[f][i].from = p}
          IN  \/ /\ new.file = old.file /\ new.idx > old.idx
                 /\ mine(old.file) \cap (old.idx + 1 .. new.idx - 1) = {}
              \/ /\ new.file = (old.file % Len(Captures)) + 1
                 /\ \A i \in mine(new.file) : new.idx <= i
                 /\ (\A i \in mine(old.file) : i <= old.idx) \/ Closed(Other(p))]_pcapVars

\* The sleep between two packets is the time between them in the capture.
Paced ==
    [][\A p \in Peers : pc[p] = "awake" /\ pc'[p] = "gap" =>
          LET micros(t) == Second * t.sec + t.usec
          IN  micros(wait'[p]) = micros(Packet(nextPacket'[p]).time)
                                 - micros(Packet(nextPacket[p]).time)]_pcapVars

\* After a restart the server sends nothing before it has read something from the
\* client ("it needs to wait for the client to send the first packet",
\* pcap_replay.c:197).
ServerWaits == [][last'["server"] # last["server"] => heard]_pcapVars

\* After a restart the server takes part again once it has drained what was pending
\* and the client has sent more, or the replay ends (isAllowedToSend and
\* isFirstPacketReceived are cleared together and set by different events).
ServerResumes ==
    (pc["server"] = "awake" /\ ~isFirstPacketReceived) ~>
        (isFirstPacketReceived \/ \E p \in Peers : Closed(p))

\* A peer whose timeout is over closes, unless the other does (the look at the clock
\* after each sleep between packets, which other paths return before).
OneQuits == \A p \in Peers : late[p] ~> \E q \in Peers : Closed(q)
=============================================================================
