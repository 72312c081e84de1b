---------------------------- MODULE MCSupervisor ----------------------------
(* An instance of Supervisor for TLC: d0 is installed, and the releases of *)
(* two deployments that were staged later and rolled back are still there. *)
EXTENDS Supervisor

MCRelease ==
  [d \in Deployments |-> CASE d = "d1" -> "r1" [] d = "d2" -> "r2"
                           [] d = "d3" -> "r3" [] OTHER -> "r0"]
MCOnDisk ==
  [r \in Releases |-> CASE r = "r0" -> 1 [] r = "r2" -> 2 [] r = "r3" -> 3
                        [] OTHER -> 0]
=============================================================================
