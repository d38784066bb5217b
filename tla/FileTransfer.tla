---------------------------- MODULE FileTransfer ----------------------------
(***************************************************************************)
(* The filetransfer plug-in at both ends of the network: the download      *)
(* service and its filegetter on one host, the file server on another.     *)
(***************************************************************************)
EXTENDS FileServer, ServiceFileGetter

clientOnly == <<getterVars, serviceVars>>
serverOnly == <<cur, pc, state, interest, requestVars, replyVars, statVars, reportVars>>
ftVars == <<vars, clientOnly>>

FtInit == Init /\ ServiceInit

Serve == ServerNext /\ UNCHANGED clientOnly
Download == ServiceStep /\ UNCHANGED serverOnly
Connect == (\E c \in Socks : Establish(c)) /\ UNCHANGED <<serverOnly, serviceVars>>

FtNext == Serve \/ Download \/ Connect

\* Both event loops run what is ready, the network connects, and time passes.
FtFairness ==
    /\ WF_ftVars(AcceptAll /\ UNCHANGED clientOnly)
    /\ \A c \in Socks : WF_ftVars(ServerStep(c) /\ UNCHANGED clientOnly)
    /\ WF_ftVars(Download) /\ WF_ftVars(Tick /\ UNCHANGED serverOnly)
    /\ WF_ftVars(Connect)
FtSpec == FtInit /\ [][FtNext]_ftVars
FtFairSpec == FtSpec /\ FtFairness

-----------------------------------------------------------------------------
(* Properties.                                                             *)

\* A download the client takes for complete is one the server has counted as a
\* complete reply on that connection ([fg-download-complete] at one end has its
\* [fs-reply-complete] at the other), but for the replies that fill the server's
\* buffer a whole number of times: those it never counts, since it goes on to a
\* send of nothing and takes its 0 for a hang-up of the client (fileserver.c:436).
ServerCounted ==
    [][(run = "switch" /\ run' = "back" /\ ret' = "FG_OK_200")
          => replies[fg.sockd] = IF Aligned(Total(fg.spec)) THEN 0 ELSE 1]_ftVars

\* The service finishes, with aggregate statistics ([fg-finished]) that cover every
\* download it completed.
Settles == <>(sstate = "SFG_DONE" /\ final >= bytes)

\* The service makes the downloads it was asked for, no more, and stops early only at
\* its expiration.
CountExact ==
    Requested > 0 =>
        /\ completed <= Requested
        /\ sstate = "SFG_DONE" => completed = Requested \/ RunTime > 0
=============================================================================
