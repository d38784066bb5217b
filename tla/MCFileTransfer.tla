--------------------------- MODULE MCFileTransfer ---------------------------
(* Model-checking instances of client and server together.                 *)
EXTENDS FileTransfer, TLC

CONSTANTS f1, f2   \* files, named for their lengths

Lengths == f1 :> 1 @@ f2 :> 2
MCFileLen == [f \in Files |-> Lengths[f]]
MCReqLen == [k \in RequestKinds |-> 1]
MCSocksLen == [m \in SocksMessages |-> 1]
=============================================================================
