--------------------------- MODULE TorControlSys ----------------------------
(***************************************************************************)
(* The torcontrol plug-in and the Tor process at the other end of the      *)
(* control port.  Tor answers commands in order, and sends events in       *)
(* between once they are asked for: when it has bootstrapped, when a       *)
(* circuit is extended, fails or is closed, when a stream is opened.       *)
(***************************************************************************)
EXTENDS TorControl, FiniteSets

CONSTANTS
    BootTimes,    \* when Tor finishes bootstrapping: "before" it is asked for
                  \* events, "during" set-up after that, "after" GETINFO
    MaxCircs,     \* circuits Tor makes (bound)
    MaxLosses,    \* circuits that fail or close by themselves (bound)
    MaxStreams    \* streams opened (bound)

ASSUME TorAssumption ==
    /\ BootTimes \subseteq {"before", "during", "after"}
    /\ MaxCircs \in Nat /\ MaxLosses \in Nat /\ MaxStreams \in Nat

VARIABLES
    down,      \* lines on their way to the plug-in
    when,      \* when Tor bootstraps
    booted,    \* Tor has bootstrapped
    events,    \* SETEVENTS was processed
    asked,     \* GETINFO was processed
    made,      \* what Tor was asked to build circuit 1, 2, ... for
    alive,     \* circuits that are up
    extended,  \* circuits of which that was reported
    failed,    \* circuits that failed
    losses, streams,  \* counters of MaxLosses, MaxStreams
    odd        \* history: "early" when the builder handled the news that Tor has
               \* bootstrapped before the answer to GETINFO, "short" when the socket
               \* got room for one command while the send buffer was not empty,
               \* "again" when a buffer was sent again after that

torVars == <<booted, events, asked, made, alive, extended, failed, losses, streams>>
ctlVars == <<mode, t, net, now, down, when, odd, torVars>>

Line(kind, val) == [kind |-> kind, val |-> val, status |-> "", more |-> FALSE]
CircLine(id, status) == [Line("circ", id) EXCEPT !.status = status]
Ok == Line("ok", 0)
Error == Line("error", 0)
Progress == IF booted THEN 100 ELSE 50

CtlInit ==
    /\ mode \in Modes /\ t = TorControlNew(mode) /\ net = "open" /\ now = 0
    /\ down = <<>> /\ when \in BootTimes /\ booted = (when = "before")
    /\ events = FALSE /\ asked = FALSE
    /\ made = <<>> /\ alive = {} /\ extended = {} /\ failed = {} /\ losses = 0 /\ streams = 0
    /\ odd = {}

-----------------------------------------------------------------------------
(* torControl_activate and the pinger's timer.                             *)

\* Lines that were read are handled before anything else happens, and nothing does
\* after a NULL pointer was used.
Busy == t.lines # <<>> \/ t.crashed

\* The step took a part of the send buffer and kept all of it.
Cut == t'.up # t.up /\ t'.sendBuf # <<>>

\* The socket can be written: set-up goes on, and the buffer is flushed.  (Bound: a
\* buffer of which a part was taken is sent again once.)
ActivateOut ==
    LET c == Initialize(t)
    IN  /\ ~Busy /\ t.interest = "OUT" /\ net # "blocked"
        /\ t' = IF c.sendBuf = <<>> THEN [c EXCEPT !.interest = "IN"] ELSE Put(c, c.sendBuf)
        /\ Cut => "again" \notin odd
        /\ odd' = IF Cut THEN odd \cup {"again"} ELSE odd
        /\ UNCHANGED <<mode, net, now, down, when, torVars>>

\* There is something to read: it is split into lines.
ActivateIn ==
    /\ ~Busy /\ t.interest = "IN"
    /\ \E n \in 1..Len(down) :
          /\ t' = [Initialize(t) EXCEPT !.lines = SubSeq(down, 1, n)]
          /\ down' = SubSeq(down, n + 1, Len(down))
    /\ UNCHANGED <<mode, net, now, when, torVars>> /\ UNCHANGED odd

\* The state of the builder before the answer to GETINFO.
SettingUp == t.state \in {"AUTHENTICATE", "SETCONFS", "SETEVENTS", "CHECKSTATUS",
                          "SEND_AUTHENTICATE", "RECV_AUTHENTICATE", "SEND_SETEVENTS"}
Early(l) == mode = "circuitBuild" /\ SettingUp /\ l.kind = "bootstrap"

\* The next of those lines ends a reply, or does not.
ReadLine ==
    LET l == Head(t.lines)
        r == Append(t.reply, l)
        c == [t EXCEPT !.lines = Tail(@)]
    IN  /\ Busy /\ ~t.crashed
        /\ odd' = IF Early(l) THEN odd \cup {"early"} ELSE odd
        /\ t' = IF l.more THEN [c EXCEPT !.reply = r]
                ELSE ProcessReply([c EXCEPT !.reply = <<>>], r)
        /\ UNCHANGED <<mode, net, now, down, when, torVars>>

\* _torcontrolpinger_doPingCallback.
PingTimer ==
    /\ ~Busy /\ t.timers > 0 /\ Len(made) < MaxCircs
    /\ t' = SendCommand([t EXCEPT !.timers = @ - 1], <<"EXTENDCIRCUIT", 0>>)
    /\ UNCHANGED <<mode, net, now, down, when, torVars>> /\ UNCHANGED odd

\* The time of the next circuit comes.
Clock ==
    /\ ~Busy /\ mode = "circuitBuild" /\ now < NumCircuits /\ now' = now + 1
    /\ UNCHANGED <<mode, t, net, down, when, torVars>> /\ UNCHANGED odd

NetChange ==
    /\ net' \in NetStates \ {net} /\ (net' = "open" \/ ~SettingUp)
    /\ odd' = IF net' = "tight" /\ t.sendBuf # <<>> THEN odd \cup {"short"} ELSE odd
    /\ UNCHANGED <<mode, t, now, down, when, torVars>>

-----------------------------------------------------------------------------
(* Tor.                                                                    *)

Send(lines) == down' = down \o lines
Emit(l) == down' = IF events THEN Append(down, l) ELSE down
exceptTor == <<mode, net, now, when, odd>>

\* The next command.
TorAnswers ==
    LET cmd == Head(t.up)
        id == Len(made) + 1
    IN  /\ t.up # <<>>
        /\ t' = [t EXCEPT !.up = Tail(@)]
        /\ \/ /\ cmd[1] \in {"AUTHENTICATE", "SETCONF"} /\ Send(<<Ok>>)
              /\ UNCHANGED torVars
           \/ /\ cmd[1] = "SETEVENTS" /\ Send(<<Ok>>) /\ events' = TRUE
              /\ UNCHANGED <<booted, asked, made, alive, extended, failed, losses, streams>>
           \/ /\ cmd[1] = "GETINFO" /\ asked' = TRUE
              /\ when = "during" => booted
              /\ Send(<<[Line("phase", Progress) EXCEPT !.more = TRUE], Ok>>)
              /\ UNCHANGED <<booted, events, made, alive, extended, failed, losses, streams>>
           \/ /\ cmd[1] = "EXTENDCIRCUIT" /\ booted
              /\ made' = Append(made, cmd[2]) /\ alive' = alive \cup {id}
              /\ Send(<<Line("extended", id)>>)
              /\ UNCHANGED <<booted, events, asked, extended, failed, losses, streams>>
           \/ /\ cmd[1] = "EXTENDCIRCUIT" /\ ~booted /\ Send(<<Error>>)
              /\ UNCHANGED torVars
           \/ /\ cmd[1] = "CLOSECIRCUIT" /\ alive' = alive \ {cmd[2]}
              /\ Send(IF cmd[2] \in alive THEN <<Ok, CircLine(cmd[2], "CLOSED")>> ELSE <<Error>>)
              /\ UNCHANGED <<booted, events, asked, made, extended, failed, losses, streams>>
           \/ /\ cmd[1] = "ATTACHSTREAM"
              /\ Send(IF cmd[3] \in alive \cup {0} THEN <<Ok>> ELSE <<Error>>)
              /\ UNCHANGED torVars
        /\ UNCHANGED exceptTor

TorBoots ==
    /\ ~booted /\ booted' = TRUE
    /\ events /\ (when = "after") = asked
    /\ Emit(Line("bootstrap", 100))
    /\ UNCHANGED <<exceptTor, t, events, asked, made, alive, extended, failed, losses, streams>>

\* A hop is added to a circuit of the pinger.
TorExtends ==
    /\ mode = "ping"
    /\ \E id \in alive \ extended :
          Emit(CircLine(id, "EXTENDED")) /\ extended' = extended \cup {id}
    /\ UNCHANGED <<exceptTor, t, booted, events, asked, made, alive, failed, losses, streams>>

TorLoses ==
    /\ losses < MaxLosses /\ losses' = losses + 1
    /\ \E id \in alive : \E status \in {"FAILED", "CLOSED"} :
          /\ alive' = alive \ {id}
          /\ failed' = IF status = "FAILED" THEN failed \cup {id} ELSE failed
          /\ Emit(CircLine(id, status))
    /\ UNCHANGED <<exceptTor, t, booted, events, asked, made, extended, streams>>

StreamOpens ==
    /\ booted /\ streams < MaxStreams /\ streams' = streams + 1
    /\ Emit(Line("stream", streams + 1))
    /\ UNCHANGED <<exceptTor, t, booted, events, asked, made, alive, extended, failed, losses>>

CtlNext ==
    \/ ActivateOut \/ ActivateIn \/ ReadLine \/ PingTimer \/ Clock \/ NetChange
    \/ TorAnswers \/ TorBoots \/ TorExtends \/ TorLoses \/ StreamOpens

\* The event loop and the timer run, Tor bootstraps, answers and extends, and the
\* socket can be written again and again.
CtlSpec ==
    /\ CtlInit /\ [][CtlNext]_ctlVars
    /\ SF_ctlVars(ActivateOut) /\ WF_ctlVars(ActivateIn) /\ WF_ctlVars(ReadLine)
    /\ SF_ctlVars(PingTimer) /\ WF_ctlVars(net # "open" /\ NetChange /\ net' = "open")
    /\ WF_ctlVars(TorAnswers) /\ WF_ctlVars(TorBoots) /\ WF_ctlVars(TorExtends)

-----------------------------------------------------------------------------
(* Properties.                                                             *)

\* Commands of one kind that were sent and not answered, and answers to
\* EXTENDCIRCUIT that were not read.
Waiting(cmd) ==
    Cardinality({i \in 1..Len(t.sendBuf) : t.sendBuf[i][1] = cmd})
      + Cardinality({i \in 1..Len(t.up) : t.up[i][1] = cmd})
Answers(kind) ==
    Cardinality({i \in 1..Len(down) : down[i].kind = kind})
      + Cardinality({i \in 1..Len(t.lines) : t.lines[i].kind = kind})

\* The builder asks for one circuit at a time, so that the next EXTENDED reply is
\* the answer for the circuit at the head of its queue: bootstrap replies and
\* events, closed circuits and streams never make it ask twice, or stop asking, and
\* neither torControl_buildCircuit nor the reply handler meets an empty queue.  It ends
\* with an odd event, and with no other: the bootstrap event before the answer to
\* GETINFO, or a send of a part of the buffer.
OneBuild ==
    mode = "circuitBuild" /\ odd = {} =>
        /\ Waiting("EXTENDCIRCUIT") + Answers("extended")
             = IF t.state = "GET_CIRC_ID" THEN 1 ELSE 0
        /\ t.state = "GET_CIRC_ID" => t.queue # <<>>
        /\ ~t.crashed

\* "pop off circuit from queue, assign circ ID" (torcontrol-circuitbuild.c:243):
\* the id of a circuit is one that Tor gave to that circuit, until one of the odd
\* events.
CircuitIdsReal ==
    odd = {} => \A k \in Circuits :
        t.circID[k] # -1 => t.circID[k] \in DOMAIN made /\ made[t.circID[k]] = k

\* The pinger has one ping under way: asked for, on its way, or due.  A buffer that is
\* sent again in part never asks for a second one.
OnePing ==
    mode = "ping" =>
        Waiting("EXTENDCIRCUIT") + Answers("extended") + Cardinality(t.outstanding)
          + t.timers <= 1

\* In the end every circuit is up, or lost in the one way the builder does not
\* react to (status FAILED), unless there was an odd event.
AllBuilt ==
    <>[](mode = "circuitBuild" /\ odd = {} =>
            \A k \in Circuits : t.circID[k] \in alive \cup failed)

\* If Tor had bootstrapped when the pinger asked for its first circuit, it goes
\* on pinging, whether circuits extend, fail or are closed.
PingsContinue == <>(mode = "ping" /\ when = "before" => Len(made) = MaxCircs)
=============================================================================
