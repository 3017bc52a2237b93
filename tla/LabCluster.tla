----------------------------- MODULE LabCluster -----------------------------
(***************************************************************************)
(* The LabEnvironment objects on the Kubernetes API server as the          *)
(* attempt-controller sees them, the operator's writes to them, and the    *)
(* watch that carries them to the upstream reconciler. LabEnvOperator      *)
(* models the operator itself.                                             *)
(***************************************************************************)
EXTENDS AttemptBase

CONSTANTS
  PodPhases,  \* the phases the pods' readiness goes through
  MaxWatch    \* bound: watch events not yet delivered to the informer

ASSUME LabClusterAssumption ==
  /\ PodPhases \subseteq {"Pending", "Degraded", "Ready"}
  /\ MaxWatch \in Nat /\ MaxWatch > 1

VARIABLES
  env,      \* env[a]: the LabEnvironment named a
  watch,    \* events the API server has sent and the informer has not processed
  seen,     \* seen[a]: the informer's cached copy of a's object
  lastRV    \* lastRV[a]: upstream's record of the version it last wrote back

clusterVars == <<env, watch, seen, lastRV>>

\* life: "live" until a delete is requested, "deleting" while the finalizer
\* holds the object. born names the incarnation: its creation time, hence its
\* expiry. exp is status.expiresAt, set with the first status the operator writes.
Objects == [life  : {"absent", "live", "deleting"},
            phase : Phases,
            born  : Versions \cup {None},
            exp   : Versions \cup {None},
            rv    : Versions \cup {None}]

Absent == [life |-> "absent", phase |-> "none", born |-> None, exp |-> None, rv |-> None]

WatchEvents == [id : Attempts, kind : {"set", "del"}, obj : Objects]

Exists(a) == env[a].life # "absent"

ClusterTypeOK ==
  /\ env \in [Attempts -> Objects]
  /\ watch \in Seq(WatchEvents)
  /\ seen \in [Attempts -> Objects]
  /\ lastRV \in [Attempts -> Versions \cup {None}]

ClusterInit ==
  /\ env = [a \in Attempts |-> Absent]
  /\ watch = <<>>
  /\ seen = [a \in Attempts |-> Absent]
  /\ lastRV = [a \in Attempts |-> None]

-----------------------------------------------------------------------------
\* A version nobody remembers for a: a resource version is never reused, and
\* the program only ever asks whether two of them are equal. inUse are those
\* the backend still holds as expiry times.
HeldBy(a) == {env[a].rv, env[a].born, seen[a].rv, seen[a].born, lastRV[a]}
               \cup UNION {{watch[i].obj.rv, watch[i].obj.born} :
                             i \in {j \in DOMAIN watch : watch[j].id = a}}

Unused(a, inUse) == Versions \ (HeldBy(a) \cup inUse)

Fresh(a, inUse) == CHOOSE v \in Unused(a, inUse) : TRUE

\* Room on the watch for one event; room for a write nobody waits for.
Room   == Len(watch) < MaxWatch
Spare  == Len(watch) < MaxWatch - 1

\* A write that leaves object o under name a, with a fresh version, announced
\* to the watch.
Write(a, o, inUse) ==
  /\ Room
  /\ Unused(a, inUse) # {}
  /\ LET new == [o EXCEPT !.rv = Fresh(a, inUse)]
     IN  /\ env' = [env EXCEPT ![a] = new]
         /\ watch' = Append(watch, [id |-> a, kind |-> "set", obj |-> new])
  /\ UNCHANGED <<seen, lastRV>>

\* The object leaves the API server.
Drop(a) ==
  /\ Room
  /\ env' = [env EXCEPT ![a] = Absent]
  /\ watch' = Append(watch, [id |-> a, kind |-> "del", obj |-> Absent])
  /\ UNCHANGED <<seen, lastRV>>

\* Server-side apply: creates a missing object; on an existing one, even one
\* being deleted, the unchanged spec is no change.
Apply(a, inUse) ==
  IF Exists(a)
    THEN UNCHANGED clusterVars
    ELSE /\ Unused(a, inUse) # {}
         /\ Write(a, [Absent EXCEPT !.life = "live", !.born = Fresh(a, inUse)], inUse)

\* DELETE of an existing object: the finalizer holds it; an object the operator
\* has not put its finalizer on yet goes at once. A second delete is no change.
Delete(a, inUse) ==
  \/ env[a].life = "live" /\ Write(a, [env[a] EXCEPT !.life = "deleting"], inUse)
  \/ env[a].life = "live" /\ env[a].phase = "none" /\ Drop(a)
  \/ env[a].life = "deleting" /\ UNCHANGED clusterVars

-----------------------------------------------------------------------------
\* The operator reports the pods' readiness, and with it the expiry time.
Report(a, p, inUse) ==
  /\ env[a].life = "live"
  /\ Write(a, [env[a] EXCEPT !.phase = p, !.exp = env[a].born], inUse)
  /\ NoFault

ReportFirst(a, inUse) ==
  env[a].phase = "none" /\ \E p \in PodPhases : Report(a, p, inUse)

ReportChange(a, inUse) ==
  /\ env[a].phase \in PodPhases
  /\ Spare
  /\ \E p \in PodPhases \ {env[a].phase} : Report(a, p, inUse)

\* The time to live is over: the operator deletes the object.
Expire(a, inUse) ==
  /\ env[a].life = "live"
  /\ Delete(a, inUse)
  /\ NoFault

\* The operator sees the delete, requests the namespace's and says so.
ReportTerminating(a, inUse) ==
  /\ env[a].life = "deleting"
  /\ env[a].phase # "Terminating"
  /\ Write(a, [env[a] EXCEPT !.phase = "Terminating"], inUse)
  /\ NoFault

\* The namespace is gone and the finalizer removed. The Terminating phase is
\* there unless there was no namespace to wait for, or its write, whose error
\* is only logged, failed every time.
Finalize(a) ==
  /\ env[a].life = "deleting"
  /\ IF env[a].phase \in {"none", "Terminating"} THEN NoFault ELSE Fail("status")
  /\ Drop(a)

OperatorNext(a, inUse) ==
  \/ ReportFirst(a, inUse)
  \/ ReportChange(a, inUse)
  \/ Expire(a, inUse)
  \/ ReportTerminating(a, inUse)
  \/ Finalize(a)
=============================================================================
