---------------------------- MODULE MCWebClient -----------------------------
(***************************************************************************)
(* A page with a script at the document's server, which names three more   *)
(* objects there, and an image at another server.                          *)
(***************************************************************************)
EXTENDS WebClient

MCUrls == {"doc", "img", "js", "late", "other", "pic"}
MCHost == [u \in MCUrls |-> IF u = "other" THEN "cdn" ELSE "www"]
MCSize == [u \in MCUrls |-> IF u = "doc" THEN 2 ELSE 1]
Link(at, url) == [at |-> at, url |-> url]
MCLinks ==
    [u \in MCUrls |->
        CASE u = "doc" -> <<Link(1, "js"), Link(1, "img"), Link(2, "pic")>>
          [] u = "js" -> <<Link(1, "late"), Link(1, "other")>>
          [] OTHER -> <<>>]

\* The page is one that loads.
ASSUME PageAssumption == NamedOnce

Setting(timed, proxy, persist, n, m) ==
    [timed |-> timed, proxy |-> proxy, persist |-> persist, drops |-> n, odds |-> m]
MCSettings ==
    {Setting(FALSE, FALSE, 1, 2, 1), Setting(TRUE, TRUE, 1, 1, 1),
     Setting(FALSE, TRUE, 2, 1, 0), Setting(FALSE, FALSE, 2, 2, 0)}
=============================================================================
