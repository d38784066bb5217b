---------------------------- MODULE MCFileGetter ----------------------------
(* Model-checking instances of the filegetter with an abstract peer.       *)
EXTENDS FileGetterSys, TLC

CONSTANTS f0, f4   \* files, named for their lengths

Lengths == f0 :> 0 @@ f4 :> 4
MCFileLen == [f \in Files |-> Lengths[f]]
MCReqLen == [k \in RequestKinds |-> 2]
MCSocksLen == [m \in SocksMessages |-> IF m \in SocksRequests THEN 1 ELSE 2]
=============================================================================
