--------------------------- MODULE FileGetterSys ---------------------------
(***************************************************************************)
(* The filegetter with a caller that keeps to its protocol and an abstract *)
(* peer, which is the SOCKS proxy, the HTTP server behind it, or both: it  *)
(* answers each request in chunks of any size, and may hang up.            *)
(***************************************************************************)
EXTENDS FileGetter

CONSTANTS
    MaxDownloads,   \* bound: calls of filegetter_download
    MayHangUp       \* the peer may close a connection that is in use
ASSUME DriverAssumption == MaxDownloads \in Nat /\ MayHangUp \in BOOLEAN

VARIABLES
    pout,        \* what the peer has still to send
    downloads    \* calls of filegetter_download so far

allVars == <<conn, netVars, getterVars, pout, downloads>>

GetterSysInit ==
    /\ GetterInit
    /\ conn = [c \in Socks |-> "free"]
    /\ cli = [c \in Socks |-> "none"]
    /\ req = [c \in Socks |-> <<>>]
    /\ rep = [c \in Socks |-> <<>>]
    /\ pout = [c \in Socks |-> <<>>]
    /\ downloads = 0

-----------------------------------------------------------------------------
(* The caller.                                                             *)

\* Codes after which the caller restarts the filegetter.
Broken == {"FG_ERR_FATAL", "FG_ERR_SOCKSINIT", "FG_ERR_SOCKSCONN"}
             \cup (IF Persistent THEN {} ELSE {"FG_ERR_404"})

Idling == run \in {"no", "back"} /\ ~aborted

\* filegetter_download, when the filegetter waits for a specification.
CallDownload ==
    /\ Idling /\ fg.state = "FG_SPEC" /\ ret \notin Broken
    /\ downloads < MaxDownloads
    /\ downloads' = downloads + 1
    /\ \E k \in RequestKinds :
          \/ ReuseConnection(k)
          \/ \E c \in Socks : NewConnection(k, c)
          \/ ConnectFails(k)
    /\ ret' = NoCode
    /\ run' = "no"
    /\ UNCHANGED <<aborted, pout>>

\* filegetter_activate, when epoll reports the socket.
CallActivate ==
    /\ Idling /\ FgReady /\ ret \notin Broken
    /\ run' = "enter"
    /\ UNCHANGED <<fg, ret, aborted, conn, netVars, pout, downloads>>

\* filegetter_shutdown and filegetter_start.
CallRestart ==
    /\ Idling /\ ret \in Broken
    /\ Disconnect
    /\ fg' = FgStarted
    /\ ret' = NoCode
    /\ run' = "no"
    /\ UNCHANGED <<aborted, pout, downloads>>

Activation == GetterStep /\ UNCHANGED <<pout, downloads>>
Network == (\E c \in Socks : Establish(c)) /\ UNCHANGED <<pout, downloads>>

-----------------------------------------------------------------------------
(* The peer.                                                               *)

PeerAccept(c) ==
    /\ conn[c] = "pending"
    /\ conn' = [conn EXCEPT ![c] = "accepted"]
    /\ pout' = [pout EXCEPT ![c] = <<>>]
    /\ UNCHANGED <<netVars, getterVars, downloads>>

\* What may be answered to message k, and the units of an answer.
Answers(k) == CASE k = "socks-init" -> Choices
                [] k = "socks-conn" -> SocksReplies
                [] OTHER -> {Reply(k)}
AnswerUnits(a) ==
    [i \in 1..(IF a \in SocksMessages THEN SocksLen[a] ELSE Total(a)) |-> <<a, i>>]

\* The peer reads a unit, and with the last one of a message makes its answer.
PeerRead(c) ==
    /\ conn[c] = "accepted" /\ req[c] # <<>>
    /\ req' = [req EXCEPT ![c] = Tail(@)]
    /\ \/ /\ ~Head(req[c]).last
          /\ UNCHANGED pout
       \/ /\ Head(req[c]).last
          /\ \E a \in Answers(Head(req[c]).k) :
                pout' = [pout EXCEPT ![c] = @ \o AnswerUnits(a)]
    /\ UNCHANGED <<conn, cli, rep, getterVars, downloads>>

PeerSend(c) ==
    /\ conn[c] = "accepted" /\ cli[c] = "open"
    /\ \E n \in 1..Smaller(Len(pout[c]), SndCap - Len(rep[c])) :
          /\ rep' = [rep EXCEPT ![c] = @ \o SubSeq(pout[c], 1, n)]
          /\ pout' = [pout EXCEPT ![c] = SubSeq(@, n + 1, Len(@))]
    /\ UNCHANGED <<conn, cli, req, getterVars, downloads>>

\* The peer hangs up: on a client that did, or because it wants to.
PeerClose(c) ==
    /\ conn[c] \in {"pending", "accepted"}
    /\ cli[c] # "open" \/ MayHangUp
    /\ conn' = [conn EXCEPT ![c] = "closed"]
    /\ req' = [req EXCEPT ![c] = <<>>]
    /\ pout' = [pout EXCEPT ![c] = <<>>]
    /\ UNCHANGED <<cli, rep, getterVars, downloads>>

Peer(c) == PeerAccept(c) \/ PeerRead(c) \/ PeerSend(c) \/ PeerClose(c)

GetterSysNext ==
    \/ CallDownload \/ CallActivate \/ CallRestart \/ Activation \/ Network
    \/ \E c \in Socks : Peer(c)

\* The event loop activates what is ready, the network connects and the peer
\* answers.
GetterSysSpec ==
    /\ GetterSysInit /\ [][GetterSysNext]_allVars
    /\ WF_allVars(CallActivate) /\ WF_allVars(CallRestart)
    /\ WF_allVars(Activation) /\ WF_allVars(Network)
    /\ \A c \in Socks :
          /\ WF_allVars(PeerAccept(c)) /\ WF_allVars(PeerRead(c))
          /\ WF_allVars(PeerSend(c))
          /\ WF_allVars(PeerClose(c) /\ cli[c] # "open")

-----------------------------------------------------------------------------
(* Properties.                                                             *)

\* A download that was started returns a result: the state machine never waits
\* for something that does not come.
Between == {"FG_SPEC", "FG_IDLE"}
Finishes == fg.state \notin Between ~> fg.state \in Between \/ ret \in Broken
=============================================================================
