---------------------------- MODULE MCDeviceOps ----------------------------
(***************************************************************************)
(* An instance of DeviceOps for TLC: two brightness levels, and a change   *)
(* of both settings or of the level alone.                                 *)
(***************************************************************************)
EXTENDS DeviceOps, TLC

MCFound == {[level |-> 1, mode |-> "manual"]}
MCWanted == [t \in Tasks |-> [level |-> 2, mode |-> "automatic"]]

CONSTANTS t1, t2
MCOps == t1 :> {"capture", "read"} @@ t2 :> {"capture", "brightness", "alert"}
MCSymmetry == Permutations(Sockets)
=============================================================================
