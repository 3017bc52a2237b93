---------------------------- MODULE AttemptBase ----------------------------
(***************************************************************************)
(* What the parts of the attempt life cycle share: the states an attempt   *)
(* moves through, the phases of a LabEnvironment, and the budget of faults *)
(* the environment may inject.                                             *)
(***************************************************************************)
EXTENDS Naturals, Sequences, FiniteSets

CONSTANTS
  Users,       \* people with an account
  Attempts,    \* identifiers PocketBase may hand out; also LabEnvironment names
  Versions,    \* opaque Kubernetes resource versions, compared for equality only
  FaultKinds,  \* faults this instance may inject, a subset of AllFaultKinds
  MaxFaults    \* bound: how many faults a behaviour may contain

CurrentStates == {"new", "provisioning", "provisioned",
                  "decommissioning", "decommissioned"}
DesiredStates == {"provisioned", "decommissioned"}

\* The phases the operator writes; "none" is the empty phase of a new object.
Phases == {"none", "Pending", "Degraded", "Ready", "Terminating"}

\* patch:   a PATCH to PocketBase fails        get:     a GET to PocketBase fails
\* kube:    a call to the API server fails     stream:  the SSE stream breaks
\* watch:   the Kubernetes watch must re-list  restart: the controller restarts
\* status:  the operator's Terminating status write fails
AllFaultKinds == {"patch", "get", "kube", "stream", "watch", "restart", "status"}

ASSUME FiniteAssumption == IsFiniteSet(Attempts)
ASSUME FaultsAssumption == FaultKinds \subseteq AllFaultKinds /\ MaxFaults \in Nat

\* Not an identifier, a version or a timestamp: the unset value of each.
None == "none"
ASSUME NoneAssumption == None \notin Versions /\ None \notin Users

\* Every order in which a set can be listed.
Orderings(S) == {s \in [1..Cardinality(S) -> S] :
                   \A i, j \in DOMAIN s : s[i] = s[j] => i = j}

VARIABLE faults  \* faults injected so far

Fail(kind) == /\ kind \in FaultKinds
              /\ faults < MaxFaults
              /\ faults' = faults + 1

NoFault == UNCHANGED faults
=============================================================================
