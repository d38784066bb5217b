--------------------------- MODULE FileServerSys ---------------------------
(***************************************************************************)
(* The file server with clients that keep to the protocol: a client asks   *)
(* for one thing at a time, its request arrives in fragments of any size,  *)
(* it reads the reply at its own pace, asks again on the same connection   *)
(* once it has the whole reply, and may close at any moment.               *)
(***************************************************************************)
EXTENDS FileServer

CONSTANT MaxRequests   \* bound: requests a client makes on one connection
ASSUME MaxRequestsAssumption == MaxRequests \in Nat

VARIABLES
    asked,     \* the request the client is sending or waiting on, or NoKind
    unsent,    \* how much of the request it has still to send
    got,       \* units of the reply it has read
    requests   \* requests made on the connection

clientVars == <<asked, unsent, got, requests>>
sysVars == <<vars, clientVars>>

SysInit ==
    /\ Init
    /\ asked = [c \in Socks |-> NoKind]
    /\ unsent = [c \in Socks |-> 0]
    /\ got = [c \in Socks |-> 0]
    /\ requests = [c \in Socks |-> 0]

\* connect: the kernel may reuse a descriptor once both ends have closed it.
ClientConnect(c) ==
    /\ cli[c] # "open" /\ conn[c] \in {"free", "closed"}
    /\ cli' = [cli EXCEPT ![c] = "open"]
    /\ conn' = [conn EXCEPT ![c] = "pending"]
    /\ req' = [req EXCEPT ![c] = <<>>]
    /\ rep' = [rep EXCEPT ![c] = <<>>]
    /\ asked' = [asked EXCEPT ![c] = NoKind]
    /\ unsent' = [unsent EXCEPT ![c] = 0]
    /\ got' = [got EXCEPT ![c] = 0]
    /\ requests' = [requests EXCEPT ![c] = 0]
    /\ UNCHANGED <<cur, pc, state, interest, requestVars, replyVars, statVars,
                   reportVars>>

ClientAsk(c, k) ==
    /\ cli[c] = "open" /\ conn[c] # "closed"
    /\ asked[c] = NoKind
    /\ requests[c] < MaxRequests
    /\ asked' = [asked EXCEPT ![c] = k]
    /\ unsent' = [unsent EXCEPT ![c] = ReqLen[k]]
    /\ got' = [got EXCEPT ![c] = 0]
    /\ requests' = [requests EXCEPT ![c] = @ + 1]
    /\ UNCHANGED vars

\* A fragment of the request arrives.
ClientSend(c) ==
    /\ cli[c] = "open" /\ conn[c] # "closed"
    /\ \E n \in 1..unsent[c] :
          /\ req' = [req EXCEPT ![c] = @ \o
                [i \in 1..n |-> [k |-> asked[c],
                                 first |-> ReqLen[asked[c]] - unsent[c] + i = 1,
                                 last |-> i = unsent[c]]]]
          /\ unsent' = [unsent EXCEPT ![c] = @ - n]
    /\ UNCHANGED <<serverVars, cli, rep, asked, got, requests>>

ClientRead(c) ==
    /\ cli[c] = "open"
    /\ asked[c] # NoKind
    /\ \E n \in 1..Len(rep[c]) :
          LET done == got[c] + n >= Total(Reply(asked[c]))
              m == IF done THEN Total(Reply(asked[c])) - got[c] ELSE n
          IN  /\ rep' = [rep EXCEPT ![c] = SubSeq(@, m + 1, Len(@))]
              /\ got' = [got EXCEPT ![c] = @ + m]
              /\ asked' = [asked EXCEPT ![c] = IF done THEN NoKind ELSE @]
              /\ unsent' = [unsent EXCEPT ![c] = IF done THEN 0 ELSE @]
    /\ UNCHANGED <<serverVars, cli, req, requests>>

ClientClose(c) ==
    /\ cli[c] = "open"
    /\ cli' = [cli EXCEPT ![c] = "closed"]
    /\ UNCHANGED <<serverVars, req, rep, clientVars>>

Server == ServerNext /\ UNCHANGED clientVars

ClientStep(c) ==
    \/ ClientConnect(c)
    \/ \E k \in RequestKinds : ClientAsk(c, k)
    \/ ClientSend(c) \/ ClientRead(c) \/ ClientClose(c)

SysNext == Server \/ \E c \in Socks : ClientStep(c)

SysSpec == SysInit /\ [][SysNext]_sysVars

\* epoll_wait hands the event loop every ready connection in turn, however often
\* the others are ready too, and a client that asked sends all of its request and
\* keeps reading.
SysFairness ==
    /\ WF_sysVars(AcceptAll /\ UNCHANGED clientVars)
    /\ \A c \in Socks :
          /\ SF_sysVars(ServerStep(c) /\ UNCHANGED clientVars)
          /\ WF_sysVars(ClientSend(c))
          /\ WF_sysVars(ClientRead(c))
SysFairSpec == SysSpec /\ SysFairness

-----------------------------------------------------------------------------
(* Properties.                                                             *)

ClientType ==
    /\ asked \in [Socks -> RequestKinds \cup {NoKind}]
    /\ unsent \in [Socks -> Nat]
    /\ got \in [Socks -> Nat]
    /\ requests \in [Socks -> 0..MaxRequests]

\* Every variable of the server and of its clients has its type; the offsets
\* into reply.buf stay inside the buffer.
SysTypeOK == TypeOK /\ ClientType

\* What is on its way to a client is always the next part of the reply to what
\* it asked for, in order and without gaps, and nothing when it asked nothing:
\* the buffer refills, partial sends and offset resets of FS_REPLY_FILE_CONTINUE
\* and FS_REPLY_SEND neither lose, repeat nor reorder a byte, and no reply is
\* sent that was not asked for.
StreamFaithful ==
    \A c \in Socks : cli[c] = "open" =>
        IF asked[c] = NoKind
        THEN rep[c] = <<>>
        ELSE \A i \in 1..Len(rep[c]) : rep[c][i] = <<Reply(asked[c]), got[c] + i>>

\* fs->replies_sent counts a reply only when all of it was handed to the socket.
ReplyExact ==
    [][\A c \in Socks :
          replies'[c] = replies[c] + 1 => sent'[c] = Total(kind[c])]_sysVars

\* What a step hands to a socket is the next part of the reply in progress, in
\* order, without gap or repetition, whatever the sizes of the buffer, the file
\* and the chunks send takes.
SendInOrder ==
    [][\A c \in Socks :
          Len(rep'[c]) > Len(rep[c]) =>
             \E n \in 1..SndCap :
                /\ rep'[c] = rep[c] \o [i \in 1..n |-> <<kind[c], sent[c] + i>>]
                /\ sent'[c] = sent[c] + n]_sysVars

\* The server hangs up on a live client of its own accord only after the whole
\* reply is out, and only if header and file together fill the buffer a whole
\* number of times: then fread never reports the end of the file, and the next
\* send has nothing to send (FS_REPLY_FILE_CONTINUE).
CloseOnlyAligned ==
    \A c \in Socks :
        why[c] = "zero-send" => sent[c] = Total(kind[c]) /\ Aligned(sent[c])

\* What makes the three properties above inductive.  An activation runs only on
\* a registered connection.
Registered ==
    /\ cur # NoSock => conn[cur] = "accepted"
    /\ \A c \in Socks : conn[c] = "accepted" => why[c] = "none"

\* The buffer window rd+1..wr holds the next units of the reply.
Window(c) ==
    /\ rd[c] < wr[c] \/ (rd[c] = 0 /\ wr[c] = 0)
    /\ \A i \in rd[c] + 1 .. wr[c] : buf[c][i] = <<kind[c], sent[c] + i - rd[c]>>

\* Where each state of the machine stands in the reply: before it, filling
\* buffers from the open file, or with all that is left of it in the buffer.
NotStarted(c) == rd[c] = 0 /\ wr[c] = 0 /\ foff[c] = 0 /\ sent[c] = 0

Filling(c) ==
    /\ kind[c] \in Files /\ fopened[c]
    /\ FileLen[kind[c]] > 0 /\ foff[c] <= FileLen[kind[c]]
    /\ sent[c] + wr[c] - rd[c] = HdrLen + foff[c]
    /\ Window(c)
    /\ rd[c] <= sent[c] /\ Aligned(sent[c] - rd[c])
    /\ wr[c] \in {0, BufSize} \/ foff[c] = 0
    /\ cur = c /\ pc = "send" =>
          wr[c] = BufSize \/ (wr[c] = 0 /\ foff[c] = FileLen[kind[c]])

Flushing(c) ==
    /\ ~fopened[c]
    /\ sent[c] + wr[c] - rd[c] = Total(kind[c])
    /\ Window(c) /\ rd[c] < wr[c]

ConnInv(c) ==
    /\ cur = c /\ pc = "recv" => state[c] = "FS_IDLE" /\ NotStarted(c)
    /\ cur = c /\ pc = "send" =>
          state[c] \in {"FS_REPLY_FILE_CONTINUE", "FS_REPLY_SEND"}
    /\ state[c] \in {"FS_REQUEST", "FS_REPLY_404_START", "FS_REPLY_FILE_START"}
          => NotStarted(c)
    /\ state[c] = "FS_REPLY_FILE_CONTINUE" => Filling(c)
    /\ state[c] = "FS_REPLY_SEND" => Flushing(c)

\* Every connection is where its state says: the buffer arithmetic of the reply
\* states holds at every step of an activation and across activations.
ReplyInv == \A c \in Socks : conn[c] = "accepted" => ConnInv(c)

\* A client is never past the end of the reply it waits for.
ClientInv ==
    \A c \in Socks :
        /\ asked[c] # NoKind => got[c] < Total(Reply(asked[c]))
        /\ asked[c] = NoKind => unsent[c] = 0

\* Every request is eventually answered in full, unless the client gives up.
Answered ==
    \A c \in Socks :
        (cli[c] = "open" /\ asked[c] # NoKind)
          ~> (asked[c] = NoKind \/ cli[c] # "open")
=============================================================================
