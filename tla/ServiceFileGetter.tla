------------------------- MODULE ServiceFileGetter -------------------------
(***************************************************************************)
(* The download service around the filegetter (service-filegetter.c): it   *)
(* downloads file after file, pausing between them if it is told to,       *)
(* retries later after a fatal error, and stops after a number of          *)
(* downloads or a length of time.                                          *)
(*                                                                         *)
(* Time is kept relative to now: wait, life and timers are what remains    *)
(* until the wake-up time, the expiration and the scheduled callbacks.     *)
(* Code takes no time, as in Shadow; Tick lets a second pass.              *)
(***************************************************************************)
EXTENDS FileGetter

CONSTANTS
    Downloads,    \* what the service is told to download
    Multi,        \* SFG_MULTI, else SFG_SINGLE
    ThinkTimes,   \* values of the think time distribution, {} for none
    Requested,    \* downloads_requested, 0 for no limit
    RunTime,      \* runtime_seconds, 0 for no limit
    RetryTime     \* the 60 seconds of a retry

ASSUME ServiceAssumption ==
    /\ Downloads \subseteq RequestKinds /\ Downloads # {}
    /\ Multi \in BOOLEAN /\ ThinkTimes \subseteq Nat
    /\ Requested \in Nat /\ RunTime \in Nat /\ RetryTime \in Nat \ {0}
    /\ ~Multi => Cardinality(Downloads) = 1 /\ Requested > 0 /\ RunTime = 0
    /\ ~Persistent

VARIABLES
    sstate,      \* sfg->state, or "NULL" when the service was not started
    completed,   \* sfg->downloads_completed
    wait,        \* seconds until sfg->wakeup
    life,        \* seconds until sfg->expire, -1 when it has passed
    timers,      \* seconds until each scheduled wake-up callback
    bytes,       \* history: bytes of the downloads completed
    final        \* the aggregate that [fg-finished] reports, -1 before that

serviceVars == <<sstate, completed, wait, life, timers, bytes, final>>

ServiceInit ==
    /\ GetterInit
    /\ sstate = "SFG_NONE"
    /\ completed = 0
    /\ wait = 0
    /\ life = RunTime
    /\ timers = <<>>
    /\ bytes = 0
    /\ final = -1

NotRunning == run = "no" /\ ~aborted

\* service_filegetter_download_next, called in state SFG_THINKING, which it leaves
\* if the download could be started.
DownloadNext ==
    \E k \in Downloads :
        \/ (\E c \in Socks : NewConnection(k, c)) /\ sstate' = "SFG_DOWNLOADING"
        \/ ConnectFails(k) /\ sstate' = "SFG_THINKING"

\* service_filegetter_start_* and the first activation, or giving up.
SfgStart ==
    /\ sstate = "SFG_NONE"
    /\ \E k \in Downloads :
          \/ /\ \E c \in Socks : NewConnection(k, c)
             /\ sstate' = "SFG_DOWNLOADING"
             /\ run' = "enter"
          \/ /\ ConnectFails(k)
             /\ sstate' = "NULL"
             /\ UNCHANGED run
    /\ UNCHANGED <<ret, aborted, completed, wait, life, timers, bytes, final>>

\* service_filegetter_expire and _stop: report, shut down.
SfgExpire ==
    /\ final' = fg.all
    /\ sstate' = "SFG_DONE"
    /\ fg' = FgStopped
    /\ Disconnect
    /\ run' = "no"

Expired == RunTime > 0 /\ life < 0

\* service_filegetter_activate for the descriptor of socket s (NoSock for 0), as
\* far as filegetter_activate.  same: a socket opened meanwhile may have got the
\* descriptor again.
SfgEnter(s, same) ==
    \/ /\ sstate \in {"SFG_THINKING", "SFG_DOWNLOADING"} /\ Expired
       /\ SfgExpire
    \/ /\ sstate = "SFG_THINKING" /\ ~Expired /\ wait > 0
       /\ run' = "no"
       /\ UNCHANGED <<fg, sstate, final>> /\ NetUnchanged
    \/ /\ sstate = "SFG_THINKING" /\ ~Expired /\ wait = 0
       /\ DownloadNext
       /\ run' \in {"no"} \cup (IF same /\ sstate' = "SFG_DOWNLOADING"
                                THEN {"enter"} ELSE {})
       /\ UNCHANGED final
    \/ /\ sstate = "SFG_DOWNLOADING" /\ ~Expired
       /\ run' = IF fg.sockd = s THEN "enter" ELSE "no"
       /\ UNCHANGED <<fg, sstate, final>> /\ NetUnchanged
    \/ /\ sstate = "SFG_DONE"
       /\ run' = "no"
       /\ UNCHANGED <<fg, sstate, final>> /\ NetUnchanged

\* The event loop of filetransfer_activate finds the client's socket ready.
SfgReady ==
    /\ NotRunning /\ FgReady
    /\ SfgEnter(fg.sockd, FALSE)
    /\ UNCHANGED <<ret, aborted, completed, wait, life, timers, bytes>>

\* A callback is due: _filetransfer_wakeupCallback activates for descriptor 0.
SfgWake ==
    /\ NotRunning
    /\ \E i \in 1..Len(timers) :
          /\ timers[i] = 0
          /\ timers' = SubSeq(timers, 1, i - 1) \o SubSeq(timers, i + 1, Len(timers))
    /\ SfgEnter(NoSock, FALSE)
    /\ UNCHANGED <<ret, aborted, completed, wait, life, bytes>>

\* goto start_over, after a download, with the descriptor of its closed socket.
SfgStartOver ==
    /\ run = "over"
    /\ SfgEnter(NoSock, TRUE)
    /\ UNCHANGED <<ret, aborted, completed, wait, life, timers, bytes>>

-----------------------------------------------------------------------------
(* filegetter_activate has returned.                                       *)

\* Fatal: start afresh, and sleep before the next attempt.
Sleep(t) == Append(timers, t)

SfgRetry ==
    /\ run = "back" /\ ret \in {"FG_ERR_FATAL", "FG_ERR_SOCKSCONN"}
    /\ Disconnect
    /\ fg' = FgStarted
    /\ sstate' = "SFG_THINKING"
    /\ wait' = RetryTime
    /\ timers' = Sleep(RetryTime)
    /\ run' = "no"
    /\ UNCHANGED <<ret, aborted, completed, life, bytes, final>>

\* Any other error: shut down, and stay as it is.
SfgGiveUp ==
    /\ run = "back" /\ ret \in {"FG_ERR_404", "FG_ERR_NEEDFSPEC", "FG_ERR_SOCKSINIT"}
    /\ Disconnect
    /\ fg' = FgStopped
    /\ run' = "no"
    /\ UNCHANGED <<ret, aborted, serviceVars>>

SfgWouldBlock ==
    /\ run = "back" /\ ret = "FG_ERR_WOULDBLOCK"
    /\ run' = "no"
    /\ UNCHANGED <<fg, ret, aborted, serviceVars>> /\ NetUnchanged

\* The wrong variant is off by one.
EnoughTooLate(n) == Requested > 0 /\ n > Requested
EnoughDownloads(n) == Requested > 0 /\ n >= Requested

\* A download is complete: stop, think, or download the next one at once.  When
\* the next one cannot be started the filegetter is activated all the same.
SfgComplete ==
    /\ run = "back" /\ ret = "FG_OK_200"
    /\ completed' = completed + 1
    /\ bytes' = bytes + Len(fg.body)
    /\ \/ /\ EnoughDownloads(completed + 1)
          /\ SfgExpire
          /\ UNCHANGED <<wait, timers>>
       \/ /\ ~EnoughDownloads(completed + 1)
          /\ Multi /\ ThinkTimes # {}
          /\ \E t \in ThinkTimes :
                /\ wait' = t
                /\ \/ /\ RunTime > 0 /\ t > life
                      /\ SfgExpire
                      /\ UNCHANGED timers
                   \/ /\ ~(RunTime > 0 /\ t > life)
                      /\ timers' = Sleep(t)
                      /\ sstate' = "SFG_THINKING"
                      /\ run' = "over"
                      /\ UNCHANGED <<fg, final>> /\ NetUnchanged
       \/ /\ ~EnoughDownloads(completed + 1)
          /\ ~(Multi /\ ThinkTimes # {})
          /\ DownloadNext
          /\ run' = "enter"
          /\ UNCHANGED <<wait, timers, final>>
    /\ UNCHANGED <<ret, aborted, life>>

\* A second passes; callbacks that are due come first.
Tick ==
    /\ NotRunning
    /\ \A i \in 1..Len(timers) : timers[i] > 0
    /\ wait' = IF wait > 0 THEN wait - 1 ELSE 0
    /\ life' = IF RunTime > 0 /\ life >= 0 THEN life - 1 ELSE life
    /\ timers' = [i \in 1..Len(timers) |-> timers[i] - 1]
    /\ <<wait, life, timers>>' # <<wait, life, timers>>
    /\ UNCHANGED <<fg, run, ret, aborted, sstate, completed, bytes, final>>
    /\ NetUnchanged

ServiceStep ==
    \/ SfgStart \/ SfgReady \/ SfgWake \/ SfgStartOver
    \/ SfgRetry \/ SfgGiveUp \/ SfgWouldBlock \/ SfgComplete \/ Tick
    \/ GetterStep /\ UNCHANGED serviceVars

(* Properties.                                                             *)

\* A service that sleeps has asked to be woken: "retrying in 60 seconds"
\* (service-filegetter.c:382) and "[fg-pause]" are followed by another attempt.
SleeperHasTimer == NotRunning /\ sstate = "SFG_THINKING" => timers # <<>>
=============================================================================
