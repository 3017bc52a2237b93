--------------------------- MODULE AttemptSystem ---------------------------
(***************************************************************************)
(* The life of an attempt, end to end: owners create and stop attempts in  *)
(* PocketBase, the downstream goroutines of attempt-controller turn them   *)
(* into LabEnvironments, the operator provisions and expires those, and    *)
(* the upstream goroutine writes their status back.                        *)
(***************************************************************************)
EXTENDS Downstream, Upstream

vars == <<faults, pbVars, clusterVars, downVars, upVars>>

TypeOK ==
  /\ faults \in 0..MaxFaults
  /\ PBTypeOK
  /\ ClusterTypeOK
  /\ DownTypeOK
  /\ UpTypeOK

Init ==
  /\ faults = 0
  /\ PBInit
  /\ ClusterInit
  /\ DownInit
  /\ UpInit

\* The controller stops and starts again. Nothing it held survives, and the
\* informer's first list shows only the objects there are.
Restart ==
  /\ Fail("restart")
  /\ conn' = "down" /\ feed' = <<>>
  /\ todo' = [t \in Threads |-> <<>>]
  /\ mark' = [t \in Threads |-> None]
  /\ seen' = [a \in Attempts |-> Absent]
  /\ lastRV' = [a \in Attempts |-> None]
  /\ expiresAtWritten' = {} /\ hidden' = {}
  /\ watch' \in Relist([a \in Attempts |-> Absent])
  /\ UNCHANGED <<rec, checked, env>>

\* A step of each part, completed with what it leaves to the others.
Down(A)     == A /\ UNCHANGED upVars
Up(A)       == A /\ UNCHANGED downVars
Operator(A) == A /\ UNCHANGED <<pbVars, downVars, upVars>>

Next ==
  \/ PBNext /\ UNCHANGED <<clusterVars, downVars, upVars>>
  \/ Down(DownNext)
  \/ Up(UpNext)
  \/ \E a \in Attempts : Operator(OperatorNext(a, InUse(a)))
  \/ Restart

\* A live controller goroutine does its next step, its timers fire, the
\* informer is served, and the operator does what it re-queued itself to do.
\* Nothing makes a person act, pods change, or a fault happen.
ControllerFairness ==
  /\ WF_vars(Down(TickResync))
  /\ WF_vars(Down(Subscribe))
  /\ WF_vars(Down(ConnectResync))
  /\ WF_vars(Down(HandleEvent))
  /\ \A t \in Threads : /\ WF_vars(Down(Reconcile(t)))
                        /\ WF_vars(Down(MarkDecommissioned(t)))
  /\ WF_vars(Up(Deliver))
  /\ \A a \in Attempts : WF_vars(Up(Redeliver(a)))

OperatorFairness ==
  \A a \in Attempts :
    /\ WF_vars(Operator(ReportFirst(a, InUse(a))))
    /\ WF_vars(Operator(Expire(a, InUse(a))))
    /\ WF_vars(Operator(ReportTerminating(a, InUse(a))))
    /\ WF_vars(Operator(Finalize(a)))

Spec     == Init /\ [][Next]_vars
FairSpec == Spec /\ ControllerFairness /\ OperatorFairness

-----------------------------------------------------------------------------
\* Safety.

\* A controller goroutine carries the intent to delete a's LabEnvironment, or to
\* mark a decommissioned, only when a was stopped or its record is gone, however
\* long ago it read that (ReconcileAttempt acts on what it is handed).
IsStopped(r) == r.life = "erased" \/ (r.life = "live" /\ r.des = "decommissioned")
Stopped(a)   == IsStopped(rec[a])

NoWrongfulDelete ==
  \A t \in Threads :
    /\ \A i \in DOMAIN todo[t] : todo[t][i].des = "decommissioned" => Stopped(todo[t][i].id)
    /\ mark[t] # None => Stopped(mark[t])

\* While an attempt is wanted, once upstream has recorded the object's current
\* version as synced, the record shows that object's phase: the resourceVersion
\* deduplication never hides a status that was not written.
SyncedStateMatches ==
  \A a \in Attempts :
    Live(a) /\ rec[a].des = "provisioned" /\ Exists(a) /\ lastRV[a] = env[a].rv
      => rec[a].cur = phaseToState(env[a].phase)

\* Likewise, the expires_at a user's timer counts down to is that of the
\* LabEnvironment there is, not of an earlier one of the same name; or a re-list
\* showed the one in place of the other, and upstream (expiresAtWritten) took the
\* re-creation for an update.
SyncedExpiryMatches ==
  \A a \in Attempts :
    Live(a) /\ Exists(a) /\ lastRV[a] = env[a].rv /\ env[a].exp # None
      => rec[a].exp = env[a].exp \/ a \in hidden

-----------------------------------------------------------------------------
\* Liveness, under FairSpec.

\* An attempt that is stopped, or whose record is erased, ends for good: it has no
\* LabEnvironment any more and, if it has a record, that says decommissioned,
\* whatever the goroutines still held and whatever event was lost.
DecommissionCompletes ==
  \A a \in Attempts :
    Stopped(a) ~> [](~Exists(a) /\ (Live(a) => rec[a].cur = "decommissioned"))

\* A new attempt does not stay new: it is provisioned, or stopped, or erased.
PickedUp ==
  \A a \in Attempts : (Live(a) /\ rec[a].cur = "new") ~> (~Live(a) \/ rec[a].cur # "new")

-----------------------------------------------------------------------------
\* What the documents say, and the code does not keep to.

\* A user has at most one active attempt at a time.
OneActiveAttempt == \A u \in Users : Cardinality(ActiveOf(u)) <= 1

\* A write to PocketBase that was missed is made good: a record does not go on
\* showing a provisioned lab whose LabEnvironment is gone.
MissedWriteHealed ==
  \A a \in Attempts :
    (Live(a) /\ rec[a].cur = "provisioned" /\ ~Exists(a))
      ~> (~Live(a) \/ rec[a].cur # "provisioned" \/ Exists(a))

\* expires_at is written once and never overwritten.
ExpiryWrittenOnce ==
  [][\A a \in Attempts : rec[a].exp # None => rec'[a].exp = rec[a].exp]_vars

\* A record shows decommissioned only when its LabEnvironment is gone.
DecommissionedMeansGone ==
  \A a \in Attempts : Live(a) /\ rec[a].cur = "decommissioned" => env[a].phase # "Terminating"
=============================================================================
