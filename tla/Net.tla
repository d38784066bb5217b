-------------------------------- MODULE Net --------------------------------
(***************************************************************************)
(* The wire between the filetransfer client and server: connections, what  *)
(* travels on them, and the sizes both ends agree on.                      *)
(*                                                                         *)
(* Bytes are units.  Unit <<k, p>> is byte p of the whole reply for k: the *)
(* header (bytes 1..HdrLen, which announces the length of k) followed by   *)
(* the contents of file k, or, for k = NotFound, the 404 line.  A request  *)
(* is a run of units that know what is asked for and whether they are its  *)
(* first ("GET ") or its last (the blank line).                            *)
(***************************************************************************)
EXTENDS Integers, Sequences, FiniteSets

CONSTANTS
    Socks,        \* connections the kernels can have at a time
    Files,        \* files under the server's docroot
    FileLen,      \* FileLen[f]: size of file f in units
    HdrLen,       \* length of the 200 header
    NotFoundLen,  \* FT_HTTP_404_LEN
    ReqLen,       \* ReqLen[k]: length of a request of kind k
    SndCap        \* capacity of the path from a server socket to its client

VARIABLES
    conn,         \* the server's end of each connection
    cli,          \* the client's end of each connection
    req,          \* units on their way to the server
    rep           \* units on their way to the client

netVars == <<cli, req, rep>>

NoSock == "no-sock"
NoKind == "no-kind"
NotFound == "404"
Missing == "missing"       \* a well-formed request for a file that is not there
Malformed == "malformed"   \* no GET, no path, or a path that is too long

RequestKinds == Files \cup {Missing, Malformed}
ReplyKinds == Files \cup {NotFound}
Units == ReplyKinds \X Nat
ReqUnits == [k : RequestKinds, first : BOOLEAN, last : BOOLEAN]

ASSUME SocksAssumption == NoSock \notin Socks
ASSUME KindsAssumption == Files \cap {NoKind, NotFound, Missing, Malformed} = {}
ASSUME SizesAssumption ==
    /\ FileLen \in [Files -> Nat]
    /\ ReqLen \in [RequestKinds -> Nat \ {0}]
    /\ HdrLen \in Nat \ {0}
    /\ NotFoundLen \in Nat \ {0}
    /\ SndCap \in Nat \ {0}

\* The whole length of the reply of kind k.
Total(k) == IF k = NotFound THEN NotFoundLen ELSE HdrLen + FileLen[k]

\* The reply the server owes a request of kind k.
Reply(k) == IF k \in Files THEN k ELSE NotFound

Smaller(m, n) == IF m < n THEN m ELSE n
=============================================================================
