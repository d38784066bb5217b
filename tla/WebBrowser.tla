----------------------------- MODULE WebBrowser -----------------------------
(***************************************************************************)
(* Loading pages in the web plug-in (web/browser/browser.cc): a document,  *)
(* then the objects it and its scripts name, then the next page.  s.b is   *)
(* the browser_t object.                                                   *)
(***************************************************************************)
EXTENDS ConnectionManager, FiniteSets

CONSTANTS
    Doc,          \* the page's URL
    Links,        \* [Urls -> sequence of [at, url]]: what the body names, and how
                  \* much of the body it takes to see it
    Scripts,      \* the URLs ending in .js
    Expected      \* the page specification's expected objects

ASSUME BrowserAssumption ==
    /\ Doc \in Urls /\ Scripts \subseteq Urls /\ Expected \subseteq Urls
    /\ Links \in [Urls -> Seq([at : Nat, url : Urls])]

\* The document and the scripts name no object twice, and not the document: RequestOneUrl
\* fails for a page that asks for an object it still waits for.
NamedOnce ==
    \A u, v \in {Doc} \cup Scripts : \A j \in 1..Len(Links[u]), k \in 1..Len(Links[v]) :
        Links[u][j].url # Doc /\ (Links[u][j].url = Links[v][k].url => u = v /\ j = k)

\* notify: on_notified is scheduled, at once or, when, after the think time.
Notify(s, when) ==
    IF s.b.notified THEN Abort(s, "notified-twice")
    ELSE [s EXCEPT !.b.notified = TRUE,
                   !.cbs = IF when = "now" THEN Append(@, 0) ELSE @,
                   !.nap = IF when = "nap" THEN TRUE ELSE @]

\* request_one_url.
RequestOneUrl(s, u) ==
    IF u \in s.b.pending THEN Abort(s, "requested-twice")
    ELSE [SubmitRequest([s EXCEPT !.req[u] = NewRequest], u) EXCEPT
             !.b.embedded = @ \cup {u}, !.b.pending = @ \cup {u}]

\* The URLs that are named in the part of u's body which was received, in their order.
RequestNamed(s, u) ==
    LET links == Links[u]
        after[k \in 0..Len(links)] ==
            IF k = 0 THEN s
            ELSE IF links[k].at <= s.req[u].size
            THEN RequestOneUrl(after[k - 1], links[k].url)
            ELSE after[k - 1]
    IN  after[Len(links)]

IsPageDone(s) == Cardinality(s.b.embedded) = Cardinality(s.b.received)

\* validate_one_resource.  The wrong variant does not compare the size.
ValidateName(s, u) ==
    [s EXCEPT !.b.vr = IF u \in s.b.expected THEN @ ELSE "VR_FAIL", !.b.expected = @ \ {u}]
Validate(s, u) ==
    [s EXCEPT !.b.vr = IF u \in s.b.expected /\ s.req[u].size = Size[u] THEN @ ELSE "VR_FAIL",
              !.b.expected = @ \ {u}]

\* response_finished_cb, which does not look at success: a resource given up for
\* lost is received, too.  A script names what to load next.
ResponseFinished(s, u) ==
    LET v == [Validate(s, u) EXCEPT !.b.pending = @ \ {u}]
        r == [v EXCEPT !.b.received = @ \cup {u}]
        t == IF u \in Scripts THEN RequestNamed(r, u) ELSE r
    IN  IF u = Doc THEN Notify([v EXCEPT !.b.state = "SB_DONE_DOCUMENT"], "now")
        ELSE IF s.b.state # "SB_FETCHING_EMBEDDED" THEN Abort(s, "not-embedded")
        ELSE IF IsPageDone(t) THEN Notify([t EXCEPT !.b.state = "SB_DONE"], "now")
        ELSE t

\* load: the timer, if the browser was given a timeout (s.timed), is told the
\* number of the load.
Load(s) ==
    LET t == [s EXCEPT !.req[Doc] = NewRequest,
                       !.timers = IF s.timed THEN Append(@, s.b.loadnum) ELSE @]
    IN  [SubmitRequest(t, Doc) EXCEPT
            !.b.state = "SB_FETCHING_DOCUMENT", !.b.vr = "VR_SUCCESS",
            !.b.expected = Expected, !.b.pending = {Doc}]

\* reset: back to SB_INIT, every connection to be deleted.
Reset(s) ==
    IF s.b.pending # {} THEN Abort(s, "pending-at-reset")
    ELSE [ManagerReset(s) EXCEPT
            !.b = [@ EXCEPT !.state = "SB_INIT", !.notified = FALSE, !.html = FALSE,
                            !.vr = "VR_NONE", !.embedded = {}, !.received = {}],
            !.req = [u \in Urls |-> NewRequest]]

\* stop_load deletes the requests first.
StopLoad(s) == Reset([s EXCEPT !.b.pending = {}])

\* verify_page_load and report_result (history: s.report).
Report(s) ==
    [s EXCEPT !.report = IF s.b.vr = "VR_SUCCESS" /\ s.b.expected = {}
                         THEN "success" ELSE "FAILED"]

NextLoad(s) == [s EXCEPT !.b.loadnum = @ + 1]

\* What on_notified does for a page that is complete.
PageDone(s) == Notify(NextLoad(Reset(Report(s))), "nap")

\* What on_notified does once the document is there.
DocumentDone(s) ==
    LET t == IF s.b.html THEN RequestNamed(s, Doc) ELSE s
    IN  IF IsPageDone(t) THEN PageDone([t EXCEPT !.b.state = "SB_DONE"])
        ELSE [t EXCEPT !.b.state = "SB_FETCHING_EMBEDDED"]

OnNotified(s) ==
    LET t == [s EXCEPT !.b.notified = FALSE]
    IN  CASE ~s.b.notified -> Abort(s, "not-notified")
          [] s.b.notified /\ s.b.state = "SB_INIT" -> Load(t)
          [] s.b.notified /\ s.b.state = "SB_DONE_DOCUMENT" -> DocumentDone(t)
          [] s.b.notified /\ s.b.state = "SB_DONE" -> PageDone(t)
          [] OTHER -> t

\* The timer that fired is the one of the load under way.
OwnTimer(s, n) == n = s.b.loadnum

\* on_timeout_timer_fired for load n.
OnTimeout(s, n) ==
    IF ~OwnTimer(s, n) THEN s
    ELSE Notify(NextLoad(StopLoad([s EXCEPT !.report = "timedout"])), "now")

Browser ==
    [state |-> "SB_INIT", notified |-> FALSE, loadnum |-> 1, vr |-> "VR_NONE",
     html |-> FALSE, expected |-> {}, pending |-> {}, embedded |-> {}, received |-> {}]
=============================================================================
