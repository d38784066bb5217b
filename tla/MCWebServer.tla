---------------------------- MODULE MCWebServer -----------------------------
(***************************************************************************)
(* Files of less than a block, of a block, and of more; a browser, and a   *)
(* client that pipelines.                                                  *)
(***************************************************************************)
EXTENDS WebServer

MCFiles == {"small", "block", "large"}
MCSize == [f \in MCFiles |-> CASE f = "small" -> 1 [] f = "block" -> 2 [] OTHER -> 5]
Get(path, first) == [path |-> path, first |-> first]
MCWishes ==
    <<{<<Get("block", -1), Get("large", 3), Get("small", -1)>>,
       <<Get("large", -1), Get("block", 1)>>,
       <<Get("small", -1), Get("large", 1)>>},
      {<<Get("large", 2)>>}>>
MCSettings ==
    {[ahead |-> 1, cap |-> 2], [ahead |-> 1, cap |-> 6],
     [ahead |-> 2, cap |-> 2], [ahead |-> 2, cap |-> 6]}
=============================================================================
