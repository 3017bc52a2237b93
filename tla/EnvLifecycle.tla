---------------------------- MODULE EnvLifecycle ----------------------------
(***************************************************************************)
(* What the operator promises whoever watches one LabEnvironment: the      *)
(* order of the lives and phases it can be seen in. The attempt-controller *)
(* relies on exactly this order (module LabCluster); LabEnvOperator is     *)
(* checked to implement it.                                                *)
(***************************************************************************)
VARIABLES
  life,   \* "absent", "live", or "deleting" while the finalizer holds it
  phase,  \* status.phase
  failed  \* whether a call of the operator has failed, it has restarted, or a stale
          \* cache has told it that a namespace was gone

PodPhases == {"Pending", "Degraded", "Ready"}

Init == life = "absent" /\ phase = "none" /\ failed = FALSE

\* The object is created under a free name.
Create == life = "absent" /\ life' = "live" /\ phase' = "none"

\* While the object is live its phase follows the pods.
Report ==
  /\ life = "live"
  /\ phase' \in PodPhases
  /\ UNCHANGED life

\* A delete is requested: by its owner, or by the operator at expiry.
Condemn == life = "live" /\ life' = "deleting" /\ UNCHANGED phase

\* A delete before the operator ever held the object removes it at once.
Cancel == life = "live" /\ phase = "none" /\ life' = "absent" /\ UNCHANGED phase

\* A condemned environment only ever says Terminating.
Terminate == life = "deleting" /\ phase' = "Terminating" /\ UNCHANGED life

\* Cleanup is complete, or is taken to be. An environment that had a phase has said
\* Terminating, unless something had failed.
Vanish ==
  /\ life = "deleting"
  /\ phase \in PodPhases => failed'
  /\ life' = "absent" /\ phase' = "none"

Next ==
  /\ \/ Create \/ Report \/ Condemn \/ Cancel \/ Terminate \/ Vanish
     \/ UNCHANGED <<life, phase>>
  /\ failed' \in {failed, TRUE}

Spec == Init /\ [][Next]_<<life, phase, failed>>
=============================================================================
