----------------------------- MODULE TorControl -----------------------------
(***************************************************************************)
(* A connection of the torcontrol plug-in to a Tor control port            *)
(* (torcontrol.c) and the three modules that can run on it: the circuit    *)
(* builder, the logger and the pinger (torcontrol-circuitbuild.c,          *)
(* torcontrol-logger.c, torcontrol-pinger.c).  The connection, with the    *)
(* data of its module, is one record t; handlers map records to records,   *)
(* and the commands they send end up in t.up.  A command and a reply line  *)
(* are single values; the plug-in buffers parts of lines correctly.        *)
(***************************************************************************)
EXTENDS Integers, Sequences

CONSTANTS
    NumCircuits,   \* circuits the builder is told to build, in order of time
    Modes,         \* modules: subset of {"circuitBuild", "log", "ping"}
    NetStates      \* what the socket may be: "open", "blocked", or "tight", when it
                   \* takes a part of what it is given

ASSUME TorControlAssumption ==
    /\ NumCircuits \in Nat \ {0}
    /\ Modes \subseteq {"circuitBuild", "log", "ping"}
    /\ NetStates \subseteq {"open", "blocked", "tight"} /\ "open" \in NetStates

VARIABLES
    mode,   \* the module of the connection
    t,      \* the connection and its module's data
    net,    \* the state of the socket, one of NetStates
    now     \* the circuit whose time it is, 0 before the first

Circuits == 1..NumCircuits

\* g_new0, torControl_createConnection and the modules' constructors.
TorControlNew(m) ==
    [sendBuf |-> <<>>, up |-> <<>>, interest |-> "OUT", lines |-> <<>>, reply |-> <<>>,
     state |-> IF m = "circuitBuild" THEN "AUTHENTICATE" ELSE "SEND_AUTHENTICATE",
     nextState |-> IF m = "circuitBuild" THEN "AUTHENTICATE" ELSE "IDLE",
     waiting |-> FALSE, bootstrapped |-> FALSE,
     queue |-> [k \in Circuits |-> k], circID |-> [k \in Circuits |-> -1],
     outstanding |-> {}, timers |-> 0, crashed |-> FALSE]

-----------------------------------------------------------------------------
(* Sending.                                                                *)

\* How many of these commands send takes.
Taken(cmds) ==
    CASE net = "open" -> Len(cmds)
      [] net = "tight" -> 1
      [] net = "blocked" -> 0

\* What stays in the send buffer after n of cmds were taken: all of it, unless all
\* were.
Unsent(cmds, n) == IF n >= Len(cmds) THEN <<>> ELSE cmds

\* What to wait for then.
WaitFor(cmds, n) == IF n >= Len(cmds) THEN "IN" ELSE "OUT"

\* One send of the whole buffer.
Put(c, cmds) ==
    LET n == Taken(cmds)
    IN  [c EXCEPT !.up = @ \o SubSeq(cmds, 1, n),
                  !.sendBuf = Unsent(cmds, n),
                  !.interest = WaitFor(cmds, n)]

\* torControl_sendCommand, and whether it returned a positive number.
SendCommand(c, cmd) == Put(c, Append(c.sendBuf, cmd))
Accepted(c, cmd) == Taken(Append(c.sendBuf, cmd)) > 0

\* Send a command and move on if it was accepted.
Try(c, cmd, s, next, wait) ==
    IF Accepted(c, cmd)
    THEN [SendCommand(c, cmd) EXCEPT !.state = s, !.nextState = next, !.waiting = wait]
    ELSE SendCommand(c, cmd)

\* torControl_buildCircuit for the circuit at the head of the queue, which the
\* callers take for granted.
BuildHead(c) ==
    IF c.queue = <<>> THEN [c EXCEPT !.crashed = TRUE]
    ELSE SendCommand(c, <<"EXTENDCIRCUIT", Head(c.queue)>>)

-----------------------------------------------------------------------------
(* The circuit builder.                                                    *)

CircuitBuildInitialize(c) ==
    CASE c.waiting -> c
      [] ~c.waiting /\ c.state = "AUTHENTICATE" ->
            Try(c, <<"AUTHENTICATE">>, "AUTHENTICATE", "SETCONFS", TRUE)
      [] ~c.waiting /\ c.state = "SETCONFS" ->
            Try(c, <<"SETCONF">>, "SETCONFS", "SETEVENTS", TRUE)
      [] ~c.waiting /\ c.state = "SETEVENTS" ->
            Try(c, <<"SETEVENTS">>, "SETEVENTS", "CHECKSTATUS", TRUE)
      [] ~c.waiting /\ c.state = "CHECKSTATUS" ->
            Try(c, <<"GETINFO">>, "CHECKSTATUS", "CREATE_CIRCUIT", TRUE)
      [] OTHER -> c

\* case CHECKSTATUS of the response handler, with the bootstrap phase.
CheckStatus(c, progress) ==
    IF progress = 100
    THEN [BuildHead([c EXCEPT !.bootstrapped = TRUE]) EXCEPT !.state = "GET_CIRC_ID"]
    ELSE [c EXCEPT !.state = "CREATE_CIRCUIT"]

\* The next circuit is built, if there is one.
BuildNext(c) ==
    IF c.queue = <<>> THEN [c EXCEPT !.state = "ATTACH_STREAMS"]
    ELSE [BuildHead(c) EXCEPT !.state = "GET_CIRC_ID"]

\* case GET_CIRC_ID: the head of the queue gets this id.
GetCircID(c, id) ==
    IF c.queue = <<>> THEN [c EXCEPT !.crashed = TRUE]
    ELSE BuildNext([c EXCEPT !.queue = Tail(@), !.circID[Head(c.queue)] = id])

\* A line's user data is the progress of a bootstrap phase or the id of a new
\* circuit, and nothing tells the handler which: both structures begin with it.
\* The wrong variant takes any line for one with data.
AnyLine(l) == TRUE
HasData(l) == l.kind \in {"phase", "extended"}

CircuitBuildResponse(c, first, l) ==
    LET d == CASE c.state \in {"AUTHENTICATE", "SETCONFS", "SETEVENTS"} ->
                    [c EXCEPT !.state = c.nextState, !.waiting = FALSE]
               [] c.state = "CHECKSTATUS" /\ HasData(l) -> CheckStatus(c, l.val)
               [] c.state = "GET_CIRC_ID" /\ HasData(l) -> GetCircID(c, l.val)
               [] OTHER -> c
    IN  IF first.kind = "error" THEN c ELSE CircuitBuildInitialize(d)

\* The status after which a circuit is built again; the wrong variant knows none.
NoStatus(status) == FALSE
Rebuilt(status) == status = "CLOSED"

\* A circuit joins the queue; it is only asked for if no other one is.  The wrong
\* variant asks at once.
AskNow(c) == BuildHead(c)
AskIfIdle(c) == IF Len(c.queue) = 1 THEN BuildHead(c) ELSE c

\* A circuit of ours was closed: build it again.  Any other status is ignored.
CircuitBuildCirc(c, id, status) ==
    IF ~Rebuilt(status) \/ \A k \in Circuits : c.circID[k] # id THEN c
    ELSE LET k == CHOOSE k \in Circuits :
                      c.circID[k] = id /\ \A j \in Circuits : c.circID[j] = id => k <= j
         IN  [AskIfIdle([c EXCEPT !.queue = Append(@, k)]) EXCEPT !.state = "GET_CIRC_ID"]

\* A new stream is attached to the circuit whose time it is, built or not, or to
\* none.
CircuitBuildStream(c, s) ==
    IF ~c.bootstrapped THEN c
    ELSE SendCommand(c, <<"ATTACHSTREAM", s, IF now = 0 THEN 0 ELSE c.circID[now]>>)

CircuitBuildStatus(c, progress) ==
    IF progress # 100 THEN c
    ELSE LET d == [c EXCEPT !.bootstrapped = TRUE]
         IN  IF d.queue = <<>> THEN d
             ELSE [BuildHead(d) EXCEPT !.state = "GET_CIRC_ID"]

-----------------------------------------------------------------------------
(* The logger and the pinger, which differ in what follows the set-up.     *)

ManageState(c) ==
    CASE c.state = "SEND_AUTHENTICATE" ->
            Try(c, <<"AUTHENTICATE">>, "IDLE", "RECV_AUTHENTICATE", FALSE)
      [] c.state \in {"RECV_AUTHENTICATE", "SEND_SETEVENTS"} ->
            Try([c EXCEPT !.state = "SEND_SETEVENTS"], <<"SETEVENTS">>,
                "IDLE", "RECV_SETEVENTS", FALSE)
      [] c.state = "RECV_SETEVENTS" ->
            LET d == [c EXCEPT !.state = "IDLE", !.nextState = "IDLE"]
            IN  IF mode = "ping" THEN SendCommand(d, <<"EXTENDCIRCUIT", 0>>) ELSE d
      [] OTHER -> c

\* A circuit extended for a ping is remembered with its start time.
ManagedResponse(c, first, l) ==
    IF first.kind = "error" THEN c
    ELSE ManageState([c EXCEPT !.state = c.nextState,
                               !.outstanding = IF mode = "ping" /\ first.kind = "extended"
                                               THEN @ \cup {first.val} ELSE @])

\* The ping has come back, or failed: forget it, close its circuit, and ask for
\* the next one.  The wrong variant keeps it in the table.
StillOutstanding(c, id) == c.outstanding
OutstandingAfter(c, id) == c.outstanding \ {id}

\* What ends a ping; the wrong variant overlooks circuits that are lost.
EndsWell(status) == status = "EXTENDED"
EndsPing(status) == status \in {"EXTENDED", "FAILED", "CLOSED"}

PingerCirc(c, id, status) ==
    IF id \notin c.outstanding \/ ~EndsPing(status) THEN c
    ELSE [SendCommand([c EXCEPT !.outstanding = OutstandingAfter(c, id)],
                      <<"CLOSECIRCUIT", id>>)
            EXCEPT !.timers = @ + 1]

-----------------------------------------------------------------------------
(* Dispatch.                                                               *)

Initialize(c) == IF mode = "circuitBuild" THEN CircuitBuildInitialize(c) ELSE ManageState(c)

Response(c, first, l) ==
    IF mode = "circuitBuild" THEN CircuitBuildResponse(c, first, l)
    ELSE ManagedResponse(c, first, l)

\* An event goes to the module's handler for it, if it has one.
AsyncCircReply(c, l) ==
    CASE mode = "circuitBuild" -> CircuitBuildCirc(c, l.val, l.status)
      [] mode = "ping" -> PingerCirc(c, l.val, l.status)
      [] OTHER -> c

AsyncStreamReply(c, l) == IF mode = "circuitBuild" THEN CircuitBuildStream(c, l.val) ELSE c

AsyncStatusReply(c, l) == IF mode = "circuitBuild" THEN CircuitBuildStatus(c, l.val) ELSE c

\* A reply goes to the response handler once for each of its lines, in order.
Responses(c, r) ==
    LET after[n \in 0..Len(r)] == IF n = 0 THEN c ELSE Response(after[n - 1], r[1], r[n])
    IN  after[Len(r)]

\* torControl_processReply.
ProcessReply(c, r) ==
    LET l == r[1]
    IN  CASE l.kind \in {"ok", "error", "phase", "extended"} -> Responses(c, r)
          [] l.kind = "circ" -> AsyncCircReply(c, l)
          [] l.kind = "stream" -> AsyncStreamReply(c, l)
          [] l.kind = "bootstrap" -> AsyncStatusReply(c, l)
=============================================================================
