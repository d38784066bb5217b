------------------------- MODULE ConnectionManager --------------------------
(***************************************************************************)
(* The browser's connections to each server (connection_manager.cc).       *)
(* s.srv[h] is the entry of server h in servers_: the requests that wait   *)
(* for a free connection, and the connections, at most s.persist           *)
(* (max_persist_cnx_per_srv_).                                             *)
(***************************************************************************)
EXTENDS WebConnection

CONSTANTS
    MaxRetries    \* max_retries_per_resource_

ASSUME ManagerAssumption == MaxRetries \in Nat

NoServer == [reqs |-> <<>>, conns |-> <<>>]

\* Connection i takes the request at the front of its server's queue.
SubmitFront(s, i) ==
    LET h == s.conn[i].host
    IN  [ConnSubmit(s, i, Head(s.srv[h].reqs)) EXCEPT !.srv[h].reqs = Tail(@)]

FreeId(s) == CHOOSE i \in ConnIds : s.conn[i].st = "none"

\* submit_request: an idle connection, or a new one if there may be more, takes
\* the request at the front of the queue.
SubmitRequest(s, u) ==
    LET h == Host[u]
        queued == [s EXCEPT !.srv[h].reqs = Append(@, u)]
        conns == s.srv[h].conns
        idle == {k \in DOMAIN conns : QueueSize(s.conn[conns[k]]) = 0}
        new == FreeId(s)
    IN  IF idle # {} THEN SubmitFront(queued, conns[Min(idle)])
        ELSE IF Len(conns) >= s.persist THEN queued
        ELSE SubmitFront([queued EXCEPT !.conn[new] = NewConnection(h, s.proxy),
                                        !.srv[h].conns = Append(@, new)], new)

\* cnx_request_done_cb: the connection takes the next request that waits.  The wrong
\* variant leaves it waiting.
LeftWaiting(s, i) == s
RequestDone(s, i) ==
    LET server == s.srv[s.conn[i].host]
    IN  IF server.conns = <<>> THEN Abort(s, "no-server")
        ELSE IF server.reqs = <<>> THEN s
        ELSE SubmitFront(s, i)

DeleteLater(s, is) == [s EXCEPT !.cbs = @ \o [k \in 1..Len(is) |-> is[k]]]

\* Whether a server's entry goes, with these connections left.  The wrong variant
\* removes it with any connection.
EntryDropped(left) == TRUE
EntryGoes(left) == left = <<>>

\* release_conn: with its last connection the server's entry goes, and with it the
\* requests that wait there (history: s.lost).
ReleaseConn(s, i) ==
    LET h == s.conn[i].host
        left == RemoveFirst(s.srv[h].conns, i)
        t == DeleteLater(s, <<i>>)
    IN  IF ~Contains(s.srv[h].conns, i) THEN Abort(t, "not-listed")
        ELSE IF ~EntryGoes(left) THEN [t EXCEPT !.srv[h].conns = left]
        ELSE [t EXCEPT !.srv[h] = NoServer, !.lost = @ \cup ToSet(s.srv[h].reqs)]

\* reset: all connections are scheduled to go, nothing waits any more.
AllConns(s) == SetToSeq({i \in ConnIds : \E h \in Hosts : Contains(s.srv[h].conns, i)})
ManagerReset(s) ==
    [DeleteLater(s, AllConns(s)) EXCEPT !.srv = [h \in Hosts |-> NoServer], !.lost = {}]

\* What a retry asks for: the rest of the body, if any of it came.  The wrong variant
\* asks for all of it.
FromTheStart(r) == [r EXCEPT !.retries = @ + 1]
Retried(r) ==
    [r EXCEPT !.retries = @ + 1, !.first = IF r.size > 0 THEN r.size ELSE @]
=============================================================================
