------------------------------ MODULE PageLoad ------------------------------
(***************************************************************************)
(* What loading pages promises, whatever the connections do: a load asks   *)
(* for the document and for what it and its scripts name, each at most     *)
(* once, gets the body of each in order, and ends with one report, which   *)
(* is "success" only for a page of which all has come.                     *)
(***************************************************************************)
EXTENDS Integers, Sequences

CONSTANTS
    Urls, Doc, Size, Expected,
    Scripts,      \* those whose bodies name what to load next
    Links         \* [Urls -> sequence of [at, url]]

VARIABLES
    phase,    \* "idle" between loads, else "loading"
    asked,    \* what the load has asked for
    done,     \* what it waits for no longer
    bytes,    \* how much of each body has come
    last      \* the last report

vars == <<phase, asked, done, bytes, last>>

Nothing == [u \in Urls |-> 0]

Init ==
    /\ phase = "loading" /\ asked = {Doc} /\ done = {} /\ bytes = Nothing
    /\ last = "none"

\* What the first n pieces of u's body name.
NamedIn(u, n) ==
    {Links[u][k].url : k \in {j \in 1..Len(Links[u]) : Links[u][j].at <= n}}

\* More of the body of u comes, and of no other.
Progress(u) == bytes' \in {[bytes EXCEPT ![u] = n] : n \in bytes[u]..Size[u]}

\* What ends now; what the scripts among it name is asked for.
Ended(us) ==
    /\ done' = done \cup us
    /\ asked' = asked \cup UNION {NamedIn(w, bytes'[w]) : w \in (us \cap Scripts) \ {Doc}}

\* More of a body comes, or it ends or is given up; when it ends, what was to come next
\* on its connection may be given up with it.
Work ==
    /\ phase = "loading"
    /\ \E u, next \in asked \ done :
          Progress(u) /\ \E us \in {{}, {u}, {u, next}} : Ended(us)
    /\ UNCHANGED <<phase, last>>

\* What the document names is asked for.
Discover ==
    /\ phase = "loading" /\ asked = {Doc} /\ done = {Doc}
    /\ asked' = {Doc} \cup NamedIn(Doc, bytes[Doc])
    /\ UNCHANGED <<phase, done, bytes, last>>

End ==
    /\ phase = "loading"
    /\ phase' = "idle" /\ asked' = {} /\ done' = {} /\ bytes' = Nothing

Complete == \A u \in Expected : u \in done /\ bytes[u] = Size[u]

\* Nothing is waited for any more: the page is reported.
Report ==
    /\ End
    /\ asked = done
    /\ last' = IF Complete /\ asked = Expected THEN "success" ELSE "FAILED"

\* The load takes too long.
TimeOut == End /\ last' = "timedout"

Start ==
    /\ phase = "idle"
    /\ phase' = "loading" /\ asked' = {Doc} /\ done' = {} /\ bytes' = Nothing
    /\ UNCHANGED last

Next == Work \/ Discover \/ Report \/ TimeOut \/ Start

Spec == Init /\ [][Next]_vars
=============================================================================
