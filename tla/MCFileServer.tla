---------------------------- MODULE MCFileServer ----------------------------
(* Model-checking instances of the file server and its clients.            *)
EXTENDS FileServerSys, TLC

CONSTANTS
    f0, f1, f3, f4, f6,   \* files, named for their lengths
    FileReqLen,           \* length of a request for a file
    MissingReqLen         \* length of the request for a file that is not there

Lengths == f0 :> 0 @@ f1 :> 1 @@ f3 :> 3 @@ f4 :> 4 @@ f6 :> 6
MCFileLen == [f \in Files |-> Lengths[f]]
MCReqLen == [k \in RequestKinds |->
                CASE k = Missing -> MissingReqLen
                  [] k = Malformed -> 1
                  [] OTHER -> FileReqLen]
=============================================================================
