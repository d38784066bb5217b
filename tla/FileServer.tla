----------------------------- MODULE FileServer -----------------------------
(***************************************************************************)
(* The HTTP file server of the filetransfer plug-in (fileserver.c): a      *)
(* single-threaded epoll loop over non-blocking sockets that runs one      *)
(* state machine per connection.                                           *)
(*                                                                         *)
(* An activation of a connection (fileserver_activate) is a run of steps,  *)
(* one per trip through the switch or per system call in it.  The server   *)
(* runs nothing else meanwhile (cur), but the peer, on another machine,    *)
(* may send, read or close between any two steps.                          *)
(***************************************************************************)
EXTENDS Net

CONSTANTS
    BufSize,      \* sizeof(reply.buf), FT_BUF_SIZE
    ReqBufSize,   \* sizeof(request.buf), FT_STR_SIZE
    Faults        \* the system calls that may fail: subset of FaultKinds

FaultKinds == {"epoll", "recv", "send", "file"}

FSStates == {"FS_IDLE", "FS_REQUEST", "FS_REPLY_404_START",
             "FS_REPLY_FILE_START", "FS_REPLY_FILE_CONTINUE", "FS_REPLY_SEND"}

\* FT_BUF_SIZE holds both headers, so the FS_ERR_BUFSPACE exits are never taken;
\* FT_STR_SIZE leaves room for a request besides its final NUL.
ASSUME BufferAssumption ==
    /\ BufSize \in Nat /\ HdrLen < BufSize /\ NotFoundLen <= BufSize
    /\ ReqBufSize \in Nat /\ ReqBufSize > 1
ASSUME FaultsAssumption == Faults \subseteq FaultKinds

VARIABLES
    cur,          \* the connection whose activation is running, or NoSock
    pc,           \* where it is: at the switch, or fallen through to recv/send
    state,        \* c->state
    interest,     \* the epoll event the connection is watched for
    rbuf,         \* c->request.buf up to its write offset
    kind,         \* what is being replied: the requested file or NotFound
    fopened,      \* c->reply.f # NULL
    foff,         \* c->reply.f_read_offset
    buf,          \* c->reply.buf
    rd,           \* c->reply.buf_read_offset
    wr,           \* c->reply.buf_write_offset
    replyDone,    \* c->reply.done
    progress,     \* the caller's fileserver_progress_t
    report,       \* what filetransfer_activate logs of the last activation
    replies,      \* completed replies (fs->replies_sent), per connection
    sent,         \* history: units of the current reply handed to the socket
    why           \* history: why the server closed the connection

connVars == <<conn, interest>>
requestVars == <<rbuf, kind>>
replyVars == <<fopened, foff, buf, rd, wr, sent>>
statVars == <<replyDone, replies, why>>
reportVars == <<progress, report>>
serverVars == <<cur, pc, conn, state, interest, rbuf, kind, fopened, foff,
                buf, rd, wr, replyDone, progress, report, replies, sent, why>>
vars == <<serverVars, netVars>>

-----------------------------------------------------------------------------
(* The small decisions of the state machine, each after a wrong variant    *)
(* that a slip in the code would give; the variants are used only to show  *)
(* that the properties tell the two apart.                                 *)

\* fread(space) sets the end-of-file flag when fewer units than asked are left.
FeofNever(left, space) == FALSE
Feof(left, space) == left < space

\* The event a reply waits for once the request is in: changed by FS_REPLY_FILE_START.
ReplyInterestNotSet(c) == interest[c]
ReplyInterest(c) == "OUT"

\* The offsets into reply.buf after send took n units: reset when it is drained.
NoReadReset(c, n) == rd[c] + n
NextRead(c, n) == IF rd[c] + n = wr[c] THEN 0 ELSE rd[c] + n
NoWriteReset(c, n) == wr[c]
NextWrite(c, n) == IF rd[c] + n = wr[c] THEN 0 ELSE wr[c]

\* How much fread may add to reply.buf.
FillSpace(c) == BufSize - wr[c]

\* The exit test of FS_REPLY_SEND: drained, and nothing left to read.
DrainedOnly(c, n) == rd[c] + n = wr[c]
ReplyFinished(c, n) == rd[c] + n = wr[c] /\ ~fopened[c]

-----------------------------------------------------------------------------
Init ==
    /\ cur = NoSock
    /\ pc = "switch"
    /\ conn = [c \in Socks |-> "free"]
    /\ state = [c \in Socks |-> "FS_IDLE"]
    /\ interest = [c \in Socks |-> "IN"]
    /\ rbuf = [c \in Socks |-> <<>>]
    /\ kind = [c \in Socks |-> NotFound]
    /\ fopened = [c \in Socks |-> FALSE]
    /\ foff = [c \in Socks |-> 0]
    /\ buf = [c \in Socks |-> [i \in 1..BufSize |-> <<NotFound, 0>>]]
    /\ rd = [c \in Socks |-> 0]
    /\ wr = [c \in Socks |-> 0]
    /\ replyDone = [c \in Socks |-> FALSE]
    /\ progress = [changed |-> FALSE, reply_done |-> FALSE]
    /\ report = "none"
    /\ replies = [c \in Socks |-> 0]
    /\ sent = [c \in Socks |-> 0]
    /\ why = [c \in Socks |-> "none"]
    /\ cli = [c \in Socks |-> "none"]
    /\ req = [c \in Socks |-> <<>>]
    /\ rep = [c \in Socks |-> <<>>]

-----------------------------------------------------------------------------
(* The event loop of filetransfer_activate.                                *)

\* epoll is level triggered, and reports a hang-up whatever the interest.
EpollReady(c) ==
    \/ cli[c] = "closed"
    \/ interest[c] = "IN" /\ req[c] # <<>>
    \/ interest[c] = "OUT" /\ Len(rep[c]) < SndCap

\* fileserver_activate on a connection's descriptor: fill in the progress
\* record and enter the state machine.
Activate(c) ==
    /\ cur = NoSock
    /\ conn[c] = "accepted"
    /\ EpollReady(c)
    /\ cur' = c
    /\ pc' = "switch"
    /\ progress' = [changed |-> FALSE, reply_done |-> replyDone[c]]
    /\ report' = "none"
    /\ UNCHANGED <<connVars, state, requestVars, replyVars, statVars, netVars>>

\* What filetransfer_activate logs when an activation returns with progress p.
ReportOf(p) ==
    IF ~p.changed THEN "none"
    ELSE IF p.reply_done THEN "complete" ELSE "progress"

\* A new connection object (g_new0) for each socket of S.
Fresh(f, S, v) == [c \in Socks |-> IF c \in S THEN v ELSE f[c]]

\* fileserver_activate on the listening socket: accept until it would block.
\* An epoll_ctl failure ends the loop, and the socket it failed for is neither
\* watched nor closed.
AcceptAll ==
    /\ cur = NoSock
    /\ \E S \in SUBSET {c \in Socks : conn[c] = "pending"} :
          \E leaked \in SUBSET ({c \in Socks : conn[c] = "pending"} \ S) :
             /\ S \cup leaked # {}
             /\ \/ leaked = {} /\ S = {c \in Socks : conn[c] = "pending"}
                \/ "epoll" \in Faults /\ \E c \in leaked : leaked = {c}
             /\ conn' = Fresh(Fresh(conn, S, "accepted"), leaked, "leaked")
             /\ state' = Fresh(state, S, "FS_IDLE")
             /\ interest' = Fresh(interest, S, "IN")
             /\ replyDone' = Fresh(replyDone, S, FALSE)
             /\ replies' = Fresh(replies, S, 0)
             /\ why' = Fresh(why, S, "none")
    /\ UNCHANGED <<cur, pc, requestVars, replyVars, reportVars, netVars>>

-----------------------------------------------------------------------------
(* One step of a running activation.                                       *)

\* The activation returns, with progress p, and the connection stays.
Return(p) ==
    /\ cur' = NoSock
    /\ pc' = "switch"
    /\ progress' = p
    /\ report' = ReportOf(p)
    /\ UNCHANGED conn

\* goto start, or a fall-through to the recv or the send of the next case.
Continue(p, next) ==
    /\ pc' = next
    /\ progress' = p
    /\ UNCHANGED <<cur, report, conn>>

\* fileserve_connection_close and return: the table's destroy function closes
\* the file and the socket; whatever the client had not sent yet is lost.
Close(c, reason) ==
    /\ conn' = [conn EXCEPT ![c] = "closed"]
    /\ why' = [why EXCEPT ![c] = reason]
    /\ fopened' = [fopened EXCEPT ![c] = FALSE]
    /\ cur' = NoSock
    /\ pc' = "switch"
    /\ report' = ReportOf(progress)
    /\ req' = [req EXCEPT ![c] = <<>>]
    /\ UNCHANGED <<state, interest, requestVars, foff, buf, rd, wr, sent,
                   replyDone, replies, progress, cli, rep>>

\* case FS_IDLE: forget the previous exchange, wait for the next request.
Idle(c) ==
    /\ cur = c /\ pc = "switch" /\ state[c] = "FS_IDLE"
    /\ rbuf' = [rbuf EXCEPT ![c] = <<>>]
    /\ fopened' = [fopened EXCEPT ![c] = FALSE]
    /\ foff' = [foff EXCEPT ![c] = 0]
    /\ rd' = [rd EXCEPT ![c] = 0]
    /\ wr' = [wr EXCEPT ![c] = 0]
    /\ interest' = [interest EXCEPT ![c] = "IN"]
    /\ sent' = [sent EXCEPT ![c] = 0]
    /\ Continue(progress, "recv")
    /\ UNCHANGED <<state, kind, buf, statVars, netVars>>

AtRecv(c) ==
    /\ cur = c
    /\ pc = "recv" \/ (pc = "switch" /\ state[c] = "FS_REQUEST")

ReqSpace(c) == ReqBufSize - Len(rbuf[c]) - 1

\* case FS_REQUEST with a full buffer: give up on the request.
RequestTooLong(c) ==
    /\ AtRecv(c)
    /\ ReqSpace(c) <= 0
    /\ state' = [state EXCEPT ![c] = "FS_REPLY_404_START"]
    /\ Continue(progress, "switch")
    /\ UNCHANGED <<interest, requestVars, replyVars, statVars, netVars>>

\* recv gives EWOULDBLOCK.
RecvWouldBlock(c) ==
    /\ AtRecv(c)
    /\ ReqSpace(c) > 0
    /\ req[c] = <<>> /\ cli[c] # "closed"
    /\ Return(progress)
    /\ UNCHANGED <<state, interest, requestVars, replyVars, statVars, netVars>>

\* recv gives 0, the client closed, or an error.
RecvEnd(c) ==
    /\ AtRecv(c)
    /\ ReqSpace(c) > 0
    /\ \/ req[c] = <<>> /\ cli[c] = "closed" /\ Close(c, "peer")
       \/ cli[c] = "closed" /\ Close(c, "reset")
       \/ "recv" \in Faults /\ Close(c, "fault")

\* What a request buffer that holds a blank line asks for: the first "GET" in it.
\* The tail of a request whose head was given up on holds none.
Parse(b) ==
    IF \E i \in 1..Len(b) : b[i].first
    THEN b[CHOOSE i \in 1..Len(b) :
             b[i].first /\ \A j \in 1..i-1 : ~b[j].first].k
    ELSE Malformed

\* recv gives data; with the blank line the request is complete and parsed.
RecvData(c) ==
    LET n == Smaller(ReqSpace(c), Len(req[c]))
        got == rbuf[c] \o SubSeq(req[c], 1, n)
        complete == \E i \in 1..Len(got) : got[i].last
        asked == Parse(got)
        p == [progress EXCEPT !.changed = TRUE]
    IN  /\ AtRecv(c)
        /\ ReqSpace(c) > 0
        /\ req[c] # <<>>
        /\ rbuf' = [rbuf EXCEPT ![c] = got]
        /\ req' = [req EXCEPT ![c] = SubSeq(@, n + 1, Len(@))]
        /\ \/ /\ ~complete
              /\ state' = [state EXCEPT ![c] = "FS_REQUEST"]
              /\ Return(p)
              /\ UNCHANGED kind
           \/ /\ complete /\ asked = Malformed
              /\ state' = [state EXCEPT ![c] = "FS_REPLY_404_START"]
              /\ Continue(p, "switch")
              /\ UNCHANGED kind
           \/ /\ complete /\ asked # Malformed
              /\ kind' = [kind EXCEPT ![c] = Reply(asked)]
              /\ state' = [state EXCEPT ![c] = "FS_REPLY_FILE_START"]
              /\ Continue(p, "switch")
        /\ UNCHANGED <<interest, replyVars, statVars, cli, rep>>

\* case FS_REPLY_404_START.  The epoll interest is left as it is.
Reply404Start(c) ==
    /\ cur = c /\ pc = "switch" /\ state[c] = "FS_REPLY_404_START"
    /\ kind' = [kind EXCEPT ![c] = NotFound]
    /\ buf' = [buf EXCEPT ![c] =
                  [i \in 1..BufSize |->
                     IF i <= NotFoundLen THEN <<NotFound, i>> ELSE buf[c][i]]]
    /\ wr' = [wr EXCEPT ![c] = NotFoundLen]
    /\ fopened' = [fopened EXCEPT ![c] = FALSE]
    /\ state' = [state EXCEPT ![c] = "FS_REPLY_SEND"]
    /\ Continue(progress, "switch")
    /\ UNCHANGED <<interest, rbuf, foff, rd, sent, statVars, netVars>>

\* case FS_REPLY_FILE_START: watch for writability, open the file, write the
\* header.  An empty file is closed again at once.
ReplyFileStart(c) ==
    /\ cur = c /\ pc = "switch" /\ state[c] = "FS_REPLY_FILE_START"
    /\ interest' = [interest EXCEPT ![c] = ReplyInterest(c)]
    /\ \/ /\ kind[c] = NotFound \/ "file" \in Faults
          /\ state' = [state EXCEPT ![c] = "FS_REPLY_404_START"]
          /\ UNCHANGED <<buf, wr, fopened>>
       \/ /\ kind[c] # NotFound
          /\ buf' = [buf EXCEPT ![c] =
                        [i \in 1..BufSize |->
                           IF i <= HdrLen THEN <<kind[c], i>> ELSE buf[c][i]]]
          /\ wr' = [wr EXCEPT ![c] = HdrLen]
          /\ fopened' = [fopened EXCEPT ![c] = FileLen[kind[c]] # 0]
          /\ state' = [state EXCEPT ![c] =
                          IF FileLen[kind[c]] = 0 THEN "FS_REPLY_SEND"
                                                  ELSE "FS_REPLY_FILE_CONTINUE"]
    /\ Continue(progress, "switch")
    /\ UNCHANGED <<requestVars, foff, rd, sent, statVars, netVars>>

\* case FS_REPLY_FILE_CONTINUE: top up the buffer from the file.  Only a read
\* that wants more than is left sets the end-of-file flag.
FileContinue(c) ==
    LET left == FileLen[kind[c]] - foff[c]
        space == FillSpace(c)
        n == Smaller(space, left)
        feof == Feof(left, space)
    IN  /\ cur = c /\ pc = "switch" /\ state[c] = "FS_REPLY_FILE_CONTINUE"
        /\ \/ /\ space > 0 /\ left # 0
              /\ buf' = [buf EXCEPT ![c] =
                            [i \in 1..BufSize |->
                               IF i \in wr[c] + 1 .. wr[c] + n
                               THEN <<kind[c], HdrLen + foff[c] + (i - wr[c])>>
                               ELSE buf[c][i]]]
              /\ wr' = [wr EXCEPT ![c] = @ + n]
              /\ foff' = [foff EXCEPT ![c] = @ + n]
              /\ fopened' = [fopened EXCEPT ![c] = ~feof]
              /\ state' = [state EXCEPT ![c] =
                              IF feof THEN "FS_REPLY_SEND" ELSE @]
           \/ /\ space = 0 \/ left = 0
              /\ UNCHANGED <<buf, wr, foff, fopened, state>>
        /\ Continue(progress, "send")
        /\ UNCHANGED <<interest, requestVars, rd, sent, statVars, netVars>>

\* fread fails.
FileError(c) ==
    /\ cur = c /\ pc = "switch" /\ state[c] = "FS_REPLY_FILE_CONTINUE"
    /\ "file" \in Faults
    /\ wr[c] < BufSize /\ foff[c] # FileLen[kind[c]]
    /\ Close(c, "fault")

AtSend(c) ==
    /\ cur = c
    /\ pc = "send" \/ (pc = "switch" /\ state[c] = "FS_REPLY_SEND")

SendLen(c) == wr[c] - rd[c]

\* send gives EWOULDBLOCK.
SendWouldBlock(c) ==
    /\ AtSend(c)
    /\ SendLen(c) > 0
    /\ Len(rep[c]) >= SndCap /\ cli[c] # "closed"
    /\ Return(progress)
    /\ UNCHANGED <<state, interest, requestVars, replyVars, statVars, netVars>>

\* send gives 0, which it does for an empty buffer, or an error.
SendEnd(c) ==
    /\ AtSend(c)
    /\ \/ SendLen(c) = 0 /\ Close(c, "zero-send")
       \/ cli[c] = "closed" /\ Close(c, "reset")
       \/ "send" \in Faults /\ Close(c, "fault")

\* send takes some units.  A drained buffer is reset, and with the file closed
\* the reply is complete.
SendData(c) ==
    LET n == Smaller(SendLen(c), SndCap - Len(rep[c]))
        p == [progress EXCEPT !.changed = TRUE]
    IN  /\ AtSend(c)
        /\ n > 0
        /\ rep' = [rep EXCEPT ![c] = @ \o [i \in 1..n |-> buf[c][rd[c] + i]]]
        /\ sent' = [sent EXCEPT ![c] = @ + n]
        /\ rd' = [rd EXCEPT ![c] = NextRead(c, n)]
        /\ wr' = [wr EXCEPT ![c] = NextWrite(c, n)]
        /\ \/ /\ ReplyFinished(c, n)
              /\ replyDone' = [replyDone EXCEPT ![c] = TRUE]
              /\ replies' = [replies EXCEPT ![c] = @ + 1]
              /\ state' = [state EXCEPT ![c] = "FS_IDLE"]
              /\ Return([changed |-> TRUE, reply_done |-> TRUE])
           \/ /\ ~ReplyFinished(c, n)
              /\ Continue(p, "switch")
              /\ UNCHANGED <<state, replyDone, replies>>
        /\ UNCHANGED <<interest, requestVars, fopened, foff, buf, why, cli, req>>

ServerStep(c) ==
    \/ Activate(c)
    \/ Idle(c)
    \/ RequestTooLong(c) \/ RecvWouldBlock(c) \/ RecvEnd(c) \/ RecvData(c)
    \/ Reply404Start(c) \/ ReplyFileStart(c)
    \/ FileContinue(c) \/ FileError(c)
    \/ SendWouldBlock(c) \/ SendEnd(c) \/ SendData(c)

ServerNext == AcceptAll \/ \E c \in Socks : ServerStep(c)

-----------------------------------------------------------------------------
ProgressRecords == [changed : BOOLEAN, reply_done : BOOLEAN]

ControlType ==
    /\ cur \in Socks \cup {NoSock}
    /\ pc \in {"switch", "recv", "send"}
    /\ conn \in [Socks -> {"free", "pending", "accepted", "leaked", "closed"}]
    /\ state \in [Socks -> FSStates]
    /\ interest \in [Socks -> {"IN", "OUT"}]
    /\ why \in [Socks -> {"none", "peer", "reset", "fault", "zero-send"}]

ReportType ==
    /\ replyDone \in [Socks -> BOOLEAN]
    /\ progress \in ProgressRecords
    /\ report \in {"none", "progress", "complete"}
    /\ replies \in [Socks -> Nat]

BufferType ==
    /\ kind \in [Socks -> ReplyKinds]
    /\ fopened \in [Socks -> BOOLEAN]
    /\ foff \in [Socks -> Nat]
    /\ buf \in [Socks -> [1..BufSize -> Units]]
    /\ rd \in [Socks -> 0..BufSize]
    /\ wr \in [Socks -> 0..BufSize]
    /\ sent \in [Socks -> Nat]

StreamType ==
    /\ rbuf \in [Socks -> Seq(ReqUnits)]
    /\ cli \in [Socks -> {"none", "connecting", "refused", "stray", "open", "closed"}]
    /\ req \in [Socks -> Seq(ReqUnits)]
    /\ rep \in [Socks -> Seq(Units)]

TypeOK == ControlType /\ ReportType /\ BufferType /\ StreamType

\* n units fill the reply buffer a whole number of times.
Aligned(n) == \E q \in 0..n : n = q * BufSize
=============================================================================
