------------------------------ MODULE HealthGate ------------------------------
(***************************************************************************)
(* What the supervisor promises about deployments: one at a time is put on *)
(* trial; it comes into force if it proves healthy, and otherwise the one  *)
(* in force before stays, and the trial is recorded as rolled back.  Only  *)
(* the end of the supervisor itself may cut a trial short, and leaves one  *)
(* of the two in force.                                                    *)
(***************************************************************************)
CONSTANTS Deployments, NoDeployment, Installed

VARIABLES inForce,     \* the deployment in force
          trial,       \* the one on trial, or NoDeployment
          rolledBack,  \* those with a recorded roll-back
          life         \* of the supervisor: another one after it has stopped

Init == inForce = Installed /\ trial = NoDeployment /\ rolledBack = {}

Begin(d) ==
  /\ trial = NoDeployment
  /\ trial' = d
  /\ UNCHANGED <<inForce, rolledBack, life>>

Commit ==
  /\ trial # NoDeployment
  /\ inForce' = trial
  /\ trial' = NoDeployment
  /\ UNCHANGED <<rolledBack, life>>

RollBack ==
  /\ trial # NoDeployment
  /\ trial' = NoDeployment
  /\ rolledBack' = rolledBack \cup {trial}
  /\ UNCHANGED <<inForce, life>>

Stop ==
  /\ life' # life
  /\ trial' = NoDeployment
  /\ inForce' \in {inForce, trial} \ {NoDeployment}
  /\ rolledBack' \in {rolledBack, rolledBack \cup ({trial} \ {NoDeployment})}

Next == (\E d \in Deployments : Begin(d)) \/ Commit \/ RollBack \/ Stop

Spec == Init /\ [][Next]_<<inForce, trial, rolledBack, life>>
=============================================================================
