------------------------ MODULE AttemptSystem_proofs ------------------------
(***************************************************************************)
(* Type correctness of the attempt life cycle, and the theorem that no     *)
(* goroutine of attempt-controller ever acts to delete or to decommission  *)
(* an attempt that is still wanted.                                        *)
(***************************************************************************)
EXTENDS AttemptSystem, FiniteSetTheorems, SequenceTheorems, TLAPS

-----------------------------------------------------------------------------
\* Writes keep the types of what they write (Save: every PocketBase write).

\* A save of a well-typed record keeps the backend's and the stream's types.
LEMMA SaveType ==
  ASSUME PBTypeOK, NEW a \in Attempts, NEW r \in Records, Save(a, r),
         checked' \in [Users -> 0..MaxRequests]
  PROVE  PBTypeOK'
<1> DEFINE ev == [id |-> a, cur |-> r.cur, des |-> r.des]
<1>1. rec' \in [Attempts -> Records]
  BY DEF Save, PBTypeOK
<1>2. ev \in Events
  BY DEF Records, Events
<1>3. Append(feed, ev) \in Seq(Events) /\ <<>> \in Seq(Events)
  BY <1>2 DEF PBTypeOK
<1>4. feed' \in Seq(Events) /\ conn' \in {"down", "subscribed", "up"}
  BY <1>3 DEF Save, Publish, PBTypeOK
<1> QED  BY <1>1, <1>4 DEF PBTypeOK

\* A write to an object keeps the types of the objects and of the watch.
LEMMA WriteType ==
  ASSUME ClusterTypeOK, NEW a \in Attempts, NEW o \in Objects, NEW inUse,
         Write(a, o, inUse)
  PROVE  ClusterTypeOK'
<1> DEFINE new == [o EXCEPT !.rv = Fresh(a, inUse)]
           ev  == [id |-> a, kind |-> "set", obj |-> new]
<1>1. Fresh(a, inUse) \in Versions
  BY DEF Write, Fresh, Unused
<1>2. new \in Objects
  BY <1>1 DEF Objects
<1>3. ev \in WatchEvents
  BY <1>2 DEF WatchEvents
<1>4. Append(watch, ev) \in Seq(WatchEvents)
  BY <1>3 DEF ClusterTypeOK
<1>5. env' = [env EXCEPT ![a] = new] /\ watch' = Append(watch, ev)
      /\ UNCHANGED <<seen, lastRV>>
  BY DEF Write
<1> QED  BY <1>2, <1>4, <1>5 DEF ClusterTypeOK

\* The object that is not there is an object of the type.
LEMMA AbsentType == Absent \in Objects
BY DEF Absent, Objects, Phases

\* Removing an object keeps them too.
LEMMA DropType ==
  ASSUME ClusterTypeOK, NEW a \in Attempts, Drop(a)
  PROVE  ClusterTypeOK'
<1> DEFINE ev == [id |-> a, kind |-> "del", obj |-> Absent]
<1>1. ev \in WatchEvents
  BY AbsentType DEF WatchEvents
<1>2. Append(watch, ev) \in Seq(WatchEvents)
  BY <1>1 DEF ClusterTypeOK
<1> QED  BY <1>2, AbsentType DEF Drop, ClusterTypeOK

\* downstream's Delete keeps the types of the objects and of the watch.
LEMMA DeleteType ==
  ASSUME ClusterTypeOK, NEW a \in Attempts, NEW inUse, Delete(a, inUse)
  PROVE  ClusterTypeOK'
<1>1. [env[a] EXCEPT !.life = "deleting"] \in Objects
  BY DEF ClusterTypeOK, Objects
<1>2. CASE Write(a, [env[a] EXCEPT !.life = "deleting"], inUse)
  BY <1>1, <1>2, WriteType
<1>3. CASE Drop(a)
  BY <1>3, DropType
<1>4. CASE UNCHANGED clusterVars
  BY <1>4 DEF clusterVars, ClusterTypeOK
<1> QED  BY <1>2, <1>3, <1>4 DEF Delete

\* So does the server-side apply.
LEMMA ApplyType ==
  ASSUME ClusterTypeOK, NEW a \in Attempts, NEW inUse, Apply(a, inUse)
  PROVE  ClusterTypeOK'
<1> DEFINE o == [Absent EXCEPT !.life = "live", !.born = Fresh(a, inUse)]
<1>1. CASE Exists(a)
  BY <1>1 DEF Apply, clusterVars, ClusterTypeOK
<1>2. CASE ~Exists(a)
  <2>1. Unused(a, inUse) # {} /\ Write(a, o, inUse)
    BY <1>2 DEF Apply
  <2>2. Fresh(a, inUse) \in Versions
    BY <2>1 DEF Fresh, Unused
  <2>3. o \in Objects
    BY <2>2 DEF Absent, Objects, Phases
  <2> QED  BY <2>1, <2>3, WriteType
<1> QED  BY <1>1, <1>2

\* So do the steps of the operator on the object of one attempt.
LEMMA OperatorType ==
  ASSUME ClusterTypeOK, NEW a \in Attempts, NEW inUse, OperatorNext(a, inUse)
  PROVE  ClusterTypeOK'
<1> USE LabClusterAssumption
<1>0. env[a] \in Objects
  BY DEF ClusterTypeOK
<1>1. ASSUME NEW p \in PodPhases, Report(a, p, inUse)
      PROVE  ClusterTypeOK'
  <2>1. [env[a] EXCEPT !.phase = p, !.exp = env[a].born] \in Objects
    BY <1>0 DEF Objects, Phases
  <2> QED  BY <1>1, <2>1, WriteType DEF Report
<1>2. CASE ReportFirst(a, inUse)
  BY <1>1, <1>2 DEF ReportFirst
<1>3. CASE ReportChange(a, inUse)
  BY <1>1, <1>3 DEF ReportChange
<1>4. CASE Expire(a, inUse)
  BY <1>4, DeleteType DEF Expire
<1>5. CASE ReportTerminating(a, inUse)
  <2>1. [env[a] EXCEPT !.phase = "Terminating"] \in Objects
    BY <1>0 DEF Objects, Phases
  <2> QED  BY <1>5, <2>1, WriteType DEF ReportTerminating
<1>6. CASE Finalize(a)
  BY <1>6, DropType DEF Finalize
<1> QED  BY <1>2, <1>3, <1>4, <1>5, <1>6 DEF OperatorNext

-----------------------------------------------------------------------------
\* What a resync and a re-list hand over is a sequence of the right things.

\* Listing the unsettled attempts yields work items (ResyncAttempts).
LEMMA ItemsType ==
  ASSUME PBTypeOK, NEW S \in SUBSET Attempts, NEW s \in Orderings(S)
  PROVE  AsItems(s) \in Seq(Items)
<1>1. IsFiniteSet(S)
  BY FiniteAssumption, FS_Subset
<1>2. Cardinality(S) \in Nat
  BY <1>1, FS_CardinalityType
<1>3. s \in [1..Cardinality(S) -> S]
  BY DEF Orderings
<1>4. \A i \in DOMAIN s : [id |-> s[i], des |-> rec[s[i]].des] \in Items
  <2> TAKE i \in DOMAIN s
  <2>1. s[i] \in Attempts
    BY <1>3
  <2>2. rec[s[i]].des \in DesiredStates
    BY <2>1 DEF PBTypeOK, Records
  <2> QED  BY <2>1, <2>2 DEF Items
<1>5. AsItems(s) \in [1..Cardinality(S) -> Items]
  BY <1>3, <1>4 DEF AsItems
<1> QED  BY <1>2, <1>5, IsASeq

\* Listing the LabEnvironments yields watch events (the informer's Replace).
LEMMA RelistType ==
  ASSUME ClusterTypeOK, NEW c, NEW w \in Relist(c)
  PROVE  w \in Seq(WatchEvents)
<1> DEFINE gone == {a \in Attempts : ~Exists(a) /\ c[a].life # "absent"}
           all  == gone \cup {a \in Attempts : Exists(a)}
           event(a) == [id |-> a, kind |-> IF a \in gone THEN "del" ELSE "set",
                        obj |-> env[a]]
<1>1. PICK s \in Orderings(all) : w = [i \in DOMAIN s |-> event(s[i])]
  BY DEF Relist
<1>2. Cardinality(all) \in Nat
  BY FiniteAssumption, FS_Subset, FS_CardinalityType
<1>3. s \in [1..Cardinality(all) -> all]
  BY DEF Orderings
<1>4. \A a \in all : event(a) \in WatchEvents
  BY DEF WatchEvents, ClusterTypeOK
<1> HIDE DEF all, event
<1>5. w \in [1..Cardinality(all) -> WatchEvents]
  BY <1>1, <1>3, <1>4
<1> QED  BY <1>2, <1>5, IsASeq

\* A sequence of items keeps its type when its head is taken off.
LEMMA TailType ==
  ASSUME NEW S, NEW q \in Seq(S), q # <<>>
  PROVE  Head(q) \in S /\ Tail(q) \in Seq(S)
BY HeadTailProperties

-----------------------------------------------------------------------------
\* Type correctness.

\* The count of faults stays within its bound, whether a step is one or not.
LEMMA FailType ==
  ASSUME faults \in 0..MaxFaults, NEW kind, Fail(kind) \/ NoFault
  PROVE  faults' \in 0..MaxFaults
BY FaultsAssumption DEF Fail, NoFault

\* Before anything has happened every variable has its type.
LEMMA InitType == Init => TypeOK
<1> SUFFICES ASSUME Init PROVE TypeOK
  OBVIOUS
<1> USE FaultsAssumption, PocketBaseAssumption, AbsentType
<1>1. PBTypeOK
  BY DEF Init, PBInit, PBTypeOK, Records, CurrentStates, DesiredStates
<1>2. ClusterTypeOK
  BY DEF Init, ClusterInit, ClusterTypeOK
<1>3. DownTypeOK
  BY DEF Init, DownInit, DownTypeOK
<1> QED  BY <1>1, <1>2, <1>3 DEF Init, UpInit, UpTypeOK, TypeOK

\* The owners' and the superuser's requests.
LEMMA PBNextType ==
  ASSUME PBTypeOK, faults \in 0..MaxFaults, PBNext
  PROVE  PBTypeOK' /\ faults' \in 0..MaxFaults
<1> USE PocketBaseAssumption
<1>0. \A a \in Attempts : rec[a] \in Records
  BY DEF PBTypeOK
<1>1. ASSUME NEW u \in Users, CheckCreate(u)
      PROVE  PBTypeOK' /\ faults' \in 0..MaxFaults
  BY <1>1 DEF CheckCreate, PBTypeOK, NoFault
<1>2. ASSUME NEW u \in Users, NEW a \in Attempts, SaveCreate(u, a)
      PROVE  PBTypeOK' /\ faults' \in 0..MaxFaults
  <2> DEFINE r == [life |-> "live", user |-> u, cur |-> "new",
                   des |-> "provisioned", exp |-> None]
  <2>1. r \in Records
    BY DEF Records, CurrentStates, DesiredStates
  <2>2. Save(a, r) /\ faults' = faults
    BY <1>2 DEF SaveCreate, NoFault
  <2>3. checked' \in [Users -> 0..MaxRequests]
    BY <1>2 DEF SaveCreate, PBTypeOK
  <2> QED  BY <2>1, <2>2, <2>3, SaveType
<1>3. ASSUME NEW a \in Attempts, NEW d \in UserDesired, OwnerUpdate(a, d)
      PROVE  PBTypeOK' /\ faults' \in 0..MaxFaults
  <2>1. [rec[a] EXCEPT !.des = d] \in Records
    BY <1>0 DEF Records
  <2>2. checked' \in [Users -> 0..MaxRequests]
    BY <1>3 DEF OwnerUpdate, PBTypeOK
  <2> QED  BY <1>3, <2>1, <2>2, SaveType DEF OwnerUpdate, NoFault
<1>4. ASSUME NEW a \in Attempts, Erase(a)
      PROVE  PBTypeOK' /\ faults' \in 0..MaxFaults
  <2>1. [rec[a] EXCEPT !.life = "erased"] \in Records
    BY <1>0 DEF Records
  <2>2. checked' \in [Users -> 0..MaxRequests]
    BY <1>4 DEF Erase, PBTypeOK
  <2> QED  BY <1>4, <2>1, <2>2, SaveType DEF Erase, NoFault
<1>5. CASE StreamBreak
  BY <1>5, FailType DEF StreamBreak, PBTypeOK
<1> QED  BY <1>1, <1>2, <1>3, <1>4, <1>5 DEF PBNext

\* A record whose state is another state, or that is also stopped, is a record.
LEMMA RecordUpdate ==
  ASSUME NEW r \in Records, NEW s \in CurrentStates, NEW x \in Versions \cup {None}
  PROVE  /\ [r EXCEPT !.cur = s] \in Records
         /\ [r EXCEPT !.cur = s, !.exp = x] \in Records
         /\ [r EXCEPT !.cur = s, !.des = "decommissioned"] \in Records
BY DEF Records, DesiredStates

\* What the upstream controller writes of an object is a record.
LEMMA SyncedType ==
  ASSUME PBTypeOK, NEW a \in Attempts, NEW o \in Objects
  PROVE  Synced(a, o) \in Records
<1> DEFINE r == rec[a]
           c == phaseToState(o.phase)
           x == IF a \notin expiresAtWritten /\ o.exp # None THEN o.exp ELSE r.exp
<1>1. r \in Records
  BY DEF PBTypeOK
<1>2. c \in CurrentStates
  BY DEF phaseToState, CurrentStates
<1>3. o.exp \in Versions \cup {None} /\ r.exp \in Versions \cup {None}
  BY <1>1 DEF Objects, Records
<1>4. x \in Versions \cup {None}
  BY <1>3
<1>5. Synced(a, o) = [r EXCEPT !.cur = c, !.exp = x]
  BY DEF Synced
<1> HIDE DEF r, c, x
<1>6. [r EXCEPT !.cur = c, !.exp = x] \in Records
  BY <1>1, <1>2, <1>4, RecordUpdate
<1> QED  BY <1>5, <1>6

\* A PATCH by the controller, successful or not.
LEMMA PatchType ==
  ASSUME PBTypeOK, faults \in 0..MaxFaults, NEW a \in Attempts, NEW r \in Records,
         PatchOK(a, r) \/ PatchFails(a)
  PROVE  PBTypeOK' /\ faults' \in 0..MaxFaults
<1>1. CASE PatchOK(a, r)
  <2>1. checked' \in [Users -> 0..MaxRequests]
    BY <1>1 DEF PatchOK, PBTypeOK
  <2> QED  BY <1>1, <2>1, SaveType DEF PatchOK, NoFault
<1>2. CASE PatchFails(a)
  <2>1. UNCHANGED pbVars
    BY <1>2 DEF PatchFails
  <2>2. faults' \in 0..MaxFaults
    BY <1>2, FailType DEF PatchFails
  <2> QED  BY <2>1, <2>2 DEF pbVars, PBTypeOK
<1> QED  BY <1>1, <1>2

\* What the two downstream goroutines do.
LEMMA DownNextType ==
  ASSUME TypeOK, DownNext, UNCHANGED upVars
  PROVE  TypeOK'
<1> USE DEF TypeOK, UpTypeOK, upVars
<1>0. Unsettled \ Malformed \in SUBSET Attempts
  BY DEF Unsettled
<1>1. ASSUME NEW t \in Threads, Resync(t)
      PROVE  DownTypeOK' /\ ClusterTypeOK' /\ faults' \in 0..MaxFaults
  <2>1. ClusterTypeOK'
    BY <1>1 DEF Resync, clusterVars, ClusterTypeOK
  <2>2. faults' \in 0..MaxFaults
    BY <1>1, FailType DEF Resync, GetFails
  <2>3. ASSUME NEW s \in Orderings(Unsettled \ Malformed),
               todo' = [todo EXCEPT ![t] = AsItems(s)]
        PROVE  todo' \in [Threads -> Seq(Items)]
    <3>1. AsItems(s) \in Seq(Items)
      BY <1>0, ItemsType
    <3> QED  BY <2>3, <3>1 DEF DownTypeOK
  <2>4. todo' \in [Threads -> Seq(Items)]
    BY <1>1, <2>3 DEF Resync, DownTypeOK
  <2> QED  BY <1>1, <2>1, <2>2, <2>4 DEF Resync, DownTypeOK
<1>2. CASE TickResync
  <2>1. PBTypeOK'
    BY <1>2 DEF TickResync, pbVars, PBTypeOK
  <2>2. Resync("tick") /\ "tick" \in Threads
    BY <1>2 DEF TickResync, Threads
  <2> QED  BY <1>1, <2>1, <2>2
<1>3. CASE Subscribe
  BY <1>3 DEF Subscribe, downVars, clusterVars, NoFault, PBTypeOK, DownTypeOK, ClusterTypeOK
<1>4. CASE ConnectResync
  <2>1. PBTypeOK'
    BY <1>4 DEF ConnectResync, PBTypeOK
  <2>2. Resync("sub") /\ "sub" \in Threads
    BY <1>4 DEF ConnectResync, Threads
  <2> QED  BY <1>1, <2>1, <2>2
<1>5. CASE HandleEvent
  <2>1. Head(feed) \in Events /\ Tail(feed) \in Seq(Events)
    BY <1>5, TailType DEF HandleEvent, PBTypeOK
  <2>2. PBTypeOK'
    BY <1>5, <2>1 DEF HandleEvent, PBTypeOK
  <2>3. \A d \in DesiredStates : <<[id |-> Head(feed).id, des |-> d]>> \in Seq(Items)
    BY <2>1 DEF Events, Items
  <2>4. rec[Head(feed).id].des \in DesiredStates /\ "decommissioned" \in DesiredStates
    BY <2>1 DEF PBTypeOK, Events, Records, DesiredStates
  <2>5. Handled(Head(feed)) \in Seq(Items)
    BY <2>3, <2>4 DEF Handled
  <2>6. DownTypeOK'
    BY <1>5, <2>5 DEF HandleEvent, NextEvent, DownTypeOK, Threads
  <2>7. faults' \in 0..MaxFaults
    BY <1>5, FailType DEF HandleEvent, GetFails
  <2> QED  BY <1>5, <2>2, <2>6, <2>7 DEF HandleEvent, clusterVars, ClusterTypeOK
<1>6. ASSUME NEW t \in Threads, Reconcile(t)
      PROVE  TypeOK'
  <2> DEFINE a == Head(todo[t]).id
             d == Head(todo[t]).des
  <2>1. Head(todo[t]) \in Items /\ Tail(todo[t]) \in Seq(Items)
    BY <1>6, TailType DEF Reconcile, DownTypeOK
  <2>2. a \in Attempts
    BY <2>1 DEF Items
  <2>3. PBTypeOK'
    BY <1>6 DEF Reconcile, pbVars, PBTypeOK
  <2>4. faults' \in 0..MaxFaults
    BY <1>6, FailType DEF Reconcile
  <2>5. todo' = [todo EXCEPT ![t] = Tail(todo[t])]
        /\ (UNCHANGED mark \/ mark' = [mark EXCEPT ![t] = a])
    BY <1>6 DEF Reconcile
  <2>6. DownTypeOK'
    BY <2>1, <2>2, <2>5 DEF DownTypeOK
  <2> HIDE DEF a
  <2>7. UNCHANGED clusterVars \/ Delete(a, InUse(a)) \/ Apply(a, InUse(a))
    BY <1>6 DEF Reconcile, a
  <2>8. ClusterTypeOK'
    BY <2>2, <2>7, DeleteType, ApplyType DEF clusterVars, ClusterTypeOK
  <2> QED  BY <1>6, <2>3, <2>4, <2>6, <2>8
<1>7. ASSUME NEW t \in Threads, MarkDecommissioned(t)
      PROVE  TypeOK'
  <2> DEFINE a == mark[t]
             r == [rec[a] EXCEPT !.cur = "decommissioned"]
  <2>1. a \in Attempts
    BY <1>7 DEF MarkDecommissioned, DownTypeOK
  <2>2. r \in Records
    <3>1. rec[a] \in Records /\ "decommissioned" \in CurrentStates /\ None \in Versions \cup {None}
      BY <2>1 DEF PBTypeOK, CurrentStates
    <3> HIDE DEF a
    <3> QED  BY <3>1, RecordUpdate
  <2>3. PatchOK(a, r) \/ PatchFails(a)
    BY <1>7 DEF MarkDecommissioned
  <2>4. DownTypeOK' /\ ClusterTypeOK'
    BY <1>7 DEF MarkDecommissioned, DownTypeOK, clusterVars, ClusterTypeOK
  <2> HIDE DEF a, r
  <2>5. PBTypeOK' /\ faults' \in 0..MaxFaults
    BY <2>1, <2>2, <2>3, PatchType
  <2> QED  BY <1>7, <2>4, <2>5
<1> QED  BY <1>2, <1>3, <1>4, <1>5, <1>6, <1>7 DEF DownNext

\* What the upstream goroutine does.
LEMMA UpNextType ==
  ASSUME TypeOK, UpNext, UNCHANGED downVars
  PROVE  TypeOK'
<1> USE DEF TypeOK, UpTypeOK
<1>0. DownTypeOK'
  BY DEF downVars, DownTypeOK
<1>1. ASSUME NEW a \in Attempts, NEW o \in Objects, ReconcileLabEnv(a, o)
      PROVE  /\ PBTypeOK' /\ faults' \in 0..MaxFaults
             /\ lastRV' \in [Attempts -> Versions \cup {None}]
             /\ expiresAtWritten' \subseteq Attempts
  <2>1. Synced(a, o) \in Records
    BY SyncedType
  <2>2. CASE NoFault /\ UNCHANGED <<pbVars, lastRV, expiresAtWritten>>
    <3>1. PBTypeOK'
      BY <2>2 DEF pbVars, PBTypeOK
    <3>2. faults' \in 0..MaxFaults
      BY <2>2 DEF NoFault
    <3>3. lastRV' \in [Attempts -> Versions \cup {None}] /\ expiresAtWritten' \subseteq Attempts
      BY <2>2 DEF ClusterTypeOK
    <3> QED  BY ONLY <3>1, <3>2, <3>3
  <2>3. CASE PatchOK(a, Synced(a, o)) \/ PatchFails(a)
    <3>1. PBTypeOK' /\ faults' \in 0..MaxFaults
      BY <2>1, <2>3, PatchType
    <3>2. lastRV' \in [Attempts -> Versions \cup {None}]
      BY <1>1 DEF ReconcileLabEnv, ClusterTypeOK, Objects
    <3>3. expiresAtWritten' \subseteq Attempts
      BY <1>1 DEF ReconcileLabEnv
    <3> QED  BY ONLY <3>1, <3>2, <3>3
  <2> QED  BY <1>1, <2>2, <2>3 DEF ReconcileLabEnv
<1>2. ASSUME NEW a \in Attempts, ReconcileDelete(a)
      PROVE  /\ PBTypeOK' /\ faults' \in 0..MaxFaults
             /\ lastRV' \in [Attempts -> Versions \cup {None}]
             /\ expiresAtWritten' \subseteq Attempts
  <2>1. [rec[a] EXCEPT !.cur = "decommissioned", !.des = "decommissioned"] \in Records
    BY DEF PBTypeOK, Records, CurrentStates, DesiredStates
  <2>2. PBTypeOK' /\ faults' \in 0..MaxFaults
    BY <1>2, <2>1, PatchType DEF ReconcileDelete
  <2> QED  BY <1>2, <2>2 DEF ReconcileDelete, ClusterTypeOK
<1>3. CASE Deliver
  <2> DEFINE ev == Head(watch)
  <2>1. ev \in WatchEvents /\ watch' \in Seq(WatchEvents)
    BY <1>3, TailType DEF Deliver, ClusterTypeOK
  <2>2. ev.id \in Attempts /\ ev.obj \in Objects
    BY <2>1 DEF WatchEvents
  <2> HIDE DEF ev
  <2>3. seen' = [seen EXCEPT ![ev.id] = ev.obj] /\ UNCHANGED env
    BY <1>3 DEF Deliver, ev
  <2>4. /\ ReconcileLabEnv(ev.id, ev.obj) \/ ReconcileDelete(ev.id)
        /\ hidden' \subseteq Attempts
    BY <1>3 DEF Deliver, ev
  <2> QED  BY <1>0, <1>1, <1>2, <2>1, <2>2, <2>3, <2>4 DEF ClusterTypeOK
<1>4. ASSUME NEW a \in Attempts, Redeliver(a)
      PROVE  TypeOK'
  <2>1. seen[a] \in Objects
    BY DEF ClusterTypeOK
  <2> QED  BY <1>0, <1>1, <1>4, <2>1 DEF Redeliver, ClusterTypeOK
<1>5. CASE WatchBreak
  <2>1. watch' \in Seq(WatchEvents)
    BY <1>5, RelistType DEF WatchBreak
  <2>2. faults' \in 0..MaxFaults
    BY <1>5, FailType DEF WatchBreak
  <2> QED  BY <1>0, <1>5, <2>1, <2>2 DEF WatchBreak, Replaced, pbVars, PBTypeOK, ClusterTypeOK
<1> QED  BY <1>3, <1>4, <1>5 DEF UpNext

\* Every state of the attempt life cycle is well typed, for any number of users
\* and attempts, any faults, any queue bounds.
THEOREM TypeCorrect == Spec => []TypeOK
<1>1. ASSUME TypeOK, [Next]_vars
      PROVE  TypeOK'
  <2>1. CASE PBNext /\ UNCHANGED <<clusterVars, downVars, upVars>>
    BY <1>1, <2>1, PBNextType
       DEF TypeOK, UpTypeOK, upVars, clusterVars, downVars, ClusterTypeOK, DownTypeOK
  <2>2. CASE Down(DownNext)
    BY <1>1, <2>2, DownNextType DEF Down
  <2>3. CASE Up(UpNext)
    BY <1>1, <2>3, UpNextType DEF Up
  <2>4. ASSUME NEW a \in Attempts, Operator(OperatorNext(a, InUse(a)))
        PROVE  TypeOK'
    <3>1. ClusterTypeOK'
      BY <1>1, <2>4, OperatorType DEF Operator, TypeOK
    <3>2. faults' \in 0..MaxFaults
      BY <1>1, <2>4, FailType
         DEF Operator, OperatorNext, ReportFirst, ReportChange, Report, Expire,
             ReportTerminating, Finalize, TypeOK
    <3> QED  BY <1>1, <2>4, <3>1, <3>2
           DEF Operator, TypeOK, UpTypeOK, upVars, pbVars, downVars, PBTypeOK, DownTypeOK
  <2>5. CASE Restart
    <3>1. watch' \in Seq(WatchEvents)
      BY <1>1, <2>5, RelistType DEF Restart, TypeOK
    <3>2. faults' \in 0..MaxFaults
      BY <1>1, <2>5, FailType DEF Restart, TypeOK
    <3>3. PBTypeOK'
      BY <1>1, <2>5 DEF Restart, TypeOK, PBTypeOK
    <3>4. ClusterTypeOK'
      BY <1>1, <2>5, <3>1, AbsentType DEF Restart, TypeOK, ClusterTypeOK
    <3>5. DownTypeOK' /\ UpTypeOK'
      BY <2>5 DEF Restart, DownTypeOK, UpTypeOK
    <3> QED  BY <3>2, <3>3, <3>4, <3>5 DEF TypeOK
  <2>6. CASE UNCHANGED vars
    BY <1>1, <2>6 DEF vars, pbVars, clusterVars, downVars, upVars, TypeOK, PBTypeOK,
                      ClusterTypeOK, DownTypeOK, UpTypeOK
  <2> QED  BY <1>1, <2>1, <2>2, <2>3, <2>4, <2>5, <2>6 DEF Next
<1> QED  BY <1>1, InitType, PTL DEF Spec

-----------------------------------------------------------------------------
\* No wrongful delete. What a goroutine holds comes from the stream or from a
\* read of the records, so the events still in the stream must be justified too.

FeedJustified ==
  \A i \in DOMAIN feed : /\ rec[feed[i].id].life # "unused"
                         /\ feed[i].des = "decommissioned" => Stopped(feed[i].id)

\* No record goes back: a used one stays used, a stopped one stays stopped.
OnlyForward ==
  \A x \in Attempts : /\ rec[x].life # "unused" => rec'[x].life # "unused"
                      /\ Stopped(x) => IsStopped(rec'[x])

IInv == TypeOK /\ NoWrongfulDelete /\ FeedJustified

\* Owners only ever stop attempts, as the frontend does (removeAttempt).
OwnersOnlyStop == UserDesired \subseteq {"decommissioned"}

\* A save that keeps every stopped attempt stopped, and announces truly, keeps
\* the stream justified.
LEMMA SaveJustified ==
  ASSUME PBTypeOK, FeedJustified, NEW a \in Attempts, NEW r \in Records, Save(a, r),
         r.life \in {"live", "erased"},
         Stopped(a) => r.life = "erased" \/ r.des = "decommissioned"
  PROVE  FeedJustified' /\ OnlyForward
<1>1. rec' = [rec EXCEPT ![a] = r] /\ Publish(a, r) /\ a \in DOMAIN rec
  BY DEF Save, PBTypeOK
<1>2. rec'[a] = r /\ \A x \in Attempts : x # a => rec'[x] = rec[x]
  BY <1>1 DEF PBTypeOK
<1>3. OnlyForward
  BY <1>2 DEF OnlyForward, Stopped, IsStopped
<1>4. r.des = "decommissioned" => IsStopped(rec'[a])
  BY <1>2 DEF IsStopped
<1>5. ASSUME NEW i \in DOMAIN feed'
      PROVE  /\ rec'[feed'[i].id].life # "unused"
             /\ feed'[i].des = "decommissioned" => IsStopped(rec'[feed'[i].id])
  <2>1. feed \in Seq(Events)
    BY DEF PBTypeOK
  <2>2. ASSUME i \in DOMAIN feed, feed'[i] = feed[i]
        PROVE  /\ rec'[feed'[i].id].life # "unused"
               /\ feed'[i].des = "decommissioned" => IsStopped(rec'[feed'[i].id])
    <3>1. i \in 1..Len(feed)
      BY <2>1, <2>2, LenProperties
    <3>2. feed[i] \in Events
      BY <2>1, <3>1, ElementOfSeq
    <3>3. feed[i].id \in Attempts
      BY <3>2 DEF Events
    <3>4. /\ rec[feed[i].id].life # "unused"
          /\ feed[i].des = "decommissioned" => Stopped(feed[i].id)
      BY <2>2 DEF FeedJustified
    <3> QED  BY <1>3, <2>2, <3>3, <3>4 DEF OnlyForward
  <2>3. CASE UNCHANGED feed
    BY <2>2, <2>3
  <2>4. CASE feed' = Append(feed, [id |-> a, cur |-> r.cur, des |-> r.des])
    <3>1. CASE i \in DOMAIN feed
      BY <2>1, <2>2, <2>4, <3>1
    <3>2. CASE i \notin DOMAIN feed
      <4>1. feed'[i] = [id |-> a, cur |-> r.cur, des |-> r.des]
        BY <1>5, <2>1, <2>4, <3>2
      <4> QED  BY <1>2, <1>4, <4>1
    <3> QED  BY <3>1, <3>2
  <2>5. CASE feed' = <<>>
    BY <1>5, <2>5
  <2> QED  BY <1>1, <2>3, <2>4, <2>5 DEF Publish
<1> QED  BY <1>3, <1>5 DEF FeedJustified, Stopped

\* Whatever a well-typed goroutine holds is about an attempt.
LEMMA HeldIds ==
  ASSUME DownTypeOK, NEW t \in Threads
  PROVE  /\ \A i \in DOMAIN todo[t] : todo[t][i].id \in Attempts
         /\ mark[t] # None => mark[t] \in Attempts
<1>1. todo[t] \in Seq(Items)
  BY DEF DownTypeOK
<1>2. ASSUME NEW i \in DOMAIN todo[t]
      PROVE  todo[t][i].id \in Attempts
  <2>1. i \in 1..Len(todo[t])
    BY <1>1, LenProperties
  <2>2. todo[t][i] \in Items
    BY <1>1, <2>1, ElementOfSeq
  <2> QED  BY <2>2 DEF Items
<1> QED  BY <1>2 DEF DownTypeOK

\* If stopped attempts stay stopped and the goroutines keep what they hold,
\* what they hold stays justified.
LEMMA HeldStaysJustified ==
  ASSUME TypeOK, NoWrongfulDelete, UNCHANGED downVars,
         OnlyForward
  PROVE  NoWrongfulDelete'
<1>1. ASSUME NEW t \in Threads, NEW i \in DOMAIN todo[t],
             todo[t][i].des = "decommissioned"
      PROVE  IsStopped(rec'[todo[t][i].id])
  <2>1. todo[t][i].id \in Attempts
    BY HeldIds DEF TypeOK
  <2> QED  BY <1>1, <2>1 DEF NoWrongfulDelete, OnlyForward
<1>2. ASSUME NEW t \in Threads, mark[t] # None
      PROVE  IsStopped(rec'[mark[t]])
  <2>1. mark[t] \in Attempts
    BY <1>2, HeldIds DEF TypeOK
  <2> QED  BY <1>2, <2>1 DEF NoWrongfulDelete, OnlyForward
<1>3. todo' = todo /\ mark' = mark
  BY DEF downVars
<1> QED  BY <1>1, <1>2, <1>3 DEF NoWrongfulDelete, Stopped

\* What owners and the superuser do withdraws no reason for a deletion.
LEMMA PBNextJustified ==
  ASSUME IInv, OwnersOnlyStop, PBNext, UNCHANGED downVars
  PROVE  NoWrongfulDelete' /\ FeedJustified'
<1> USE DEF IInv, TypeOK
<1>0. \A a \in Attempts : rec[a] \in Records
  BY DEF PBTypeOK
<1> SUFFICES FeedJustified' /\ OnlyForward
  BY HeldStaysJustified
<1>1. ASSUME NEW u \in Users, CheckCreate(u)
      PROVE  FeedJustified' /\ OnlyForward
  BY <1>1 DEF CheckCreate, FeedJustified, OnlyForward, Stopped, IsStopped, Live
<1>2. ASSUME NEW u \in Users, NEW a \in Attempts, SaveCreate(u, a)
      PROVE  FeedJustified' /\ OnlyForward
  <2> DEFINE r == [life |-> "live", user |-> u, cur |-> "new",
                   des |-> "provisioned", exp |-> None]
  <2>1. r \in Records
    BY DEF Records, CurrentStates, DesiredStates
  <2>2. Save(a, r) /\ ~Stopped(a)
    BY <1>2 DEF SaveCreate, Stopped, IsStopped, Live
  <2> QED  BY <2>1, <2>2, SaveJustified
<1>3. ASSUME NEW a \in Attempts, NEW d \in UserDesired, OwnerUpdate(a, d)
      PROVE  FeedJustified' /\ OnlyForward
  <2> DEFINE r == [rec[a] EXCEPT !.des = d]
  <2>1. d = "decommissioned" /\ rec[a].life = "live"
    BY <1>3 DEF OwnersOnlyStop, OwnerUpdate, Live
  <2>2. r \in Records /\ r.life = "live" /\ r.des = "decommissioned"
    BY <1>0, <2>1 DEF Records, DesiredStates
  <2>3. Save(a, r)
    BY <1>3 DEF OwnerUpdate
  <2> QED  BY <2>2, <2>3, SaveJustified
<1>4. ASSUME NEW a \in Attempts, Erase(a)
      PROVE  FeedJustified' /\ OnlyForward
  <2> DEFINE r == [rec[a] EXCEPT !.life = "erased"]
  <2>1. r \in Records /\ r.life = "erased"
    BY <1>0 DEF Records
  <2>2. Save(a, r)
    BY <1>4 DEF Erase
  <2> QED  BY <2>1, <2>2, SaveJustified
<1>5. CASE StreamBreak
  BY <1>5 DEF StreamBreak, FeedJustified, OnlyForward, Stopped, IsStopped, Live
<1> QED  BY <1>1, <1>2, <1>3, <1>4, <1>5 DEF PBNext

\* A PATCH by the controller that leaves a stopped attempt stopped.
LEMMA PatchJustified ==
  ASSUME PBTypeOK, FeedJustified, NEW a \in Attempts, NEW r \in Records,
         PatchOK(a, r) \/ PatchFails(a),
         r.life = rec[a].life, r.des \in {rec[a].des, "decommissioned"}
  PROVE  FeedJustified' /\ OnlyForward
<1>1. CASE PatchOK(a, r)
  <2>1. Save(a, r) /\ rec[a].life = "live"
    BY <1>1 DEF PatchOK, Live
  <2>2. Stopped(a) => r.des = "decommissioned"
    BY <2>1 DEF Stopped, IsStopped, Live
  <2> QED  BY <2>1, <2>2, SaveJustified
<1>2. CASE PatchFails(a)
  BY <1>2 DEF PatchFails, pbVars, FeedJustified, OnlyForward, Stopped, IsStopped, Live
<1> QED  BY <1>1, <1>2

\* Nor does what upstream writes: only that an attempt is decommissioned.
LEMMA UpNextJustified ==
  ASSUME IInv, UpNext, UNCHANGED downVars
  PROVE  NoWrongfulDelete' /\ FeedJustified'
<1> USE DEF IInv, TypeOK
<1> SUFFICES FeedJustified' /\ OnlyForward
  BY HeldStaysJustified
<1>0. ASSUME UNCHANGED pbVars
      PROVE  FeedJustified' /\ OnlyForward
  BY <1>0 DEF pbVars, FeedJustified, OnlyForward, Stopped
<1>1. ASSUME NEW a \in Attempts, NEW o \in Objects, ReconcileLabEnv(a, o)
      PROVE  FeedJustified' /\ OnlyForward
  <2>1. /\ Synced(a, o) \in Records
        /\ Synced(a, o).life = rec[a].life
        /\ Synced(a, o).des = rec[a].des
    BY DEF Synced, phaseToState, PBTypeOK, Records, CurrentStates, Objects
  <2>2. UNCHANGED pbVars \/ PatchOK(a, Synced(a, o)) \/ PatchFails(a)
    BY <1>1 DEF ReconcileLabEnv
  <2> QED  BY <1>0, <2>1, <2>2, PatchJustified
<1>2. ASSUME NEW a \in Attempts, ReconcileDelete(a)
      PROVE  FeedJustified' /\ OnlyForward
  <2> DEFINE r == [rec[a] EXCEPT !.cur = "decommissioned", !.des = "decommissioned"]
  <2>1. r \in Records /\ r.life = rec[a].life /\ r.des = "decommissioned"
    BY DEF PBTypeOK, Records, CurrentStates, DesiredStates
  <2>2. PatchOK(a, r) \/ PatchFails(a)
    BY <1>2 DEF ReconcileDelete
  <2> QED  BY <2>1, <2>2, PatchJustified
<1>3. CASE Deliver
  <2>1. Head(watch) \in WatchEvents
    BY <1>3, TailType DEF Deliver, ClusterTypeOK
  <2>2. Head(watch).id \in Attempts /\ Head(watch).obj \in Objects
    BY <2>1 DEF WatchEvents
  <2>3. \/ ReconcileLabEnv(Head(watch).id, Head(watch).obj)
        \/ ReconcileDelete(Head(watch).id)
    BY <1>3 DEF Deliver
  <2> QED  BY <1>1, <1>2, <2>2, <2>3
<1>4. ASSUME NEW a \in Attempts, Redeliver(a)
      PROVE  FeedJustified' /\ OnlyForward
  <2>1. seen[a] \in Objects
    BY DEF ClusterTypeOK
  <2> QED  BY <1>1, <1>4, <2>1 DEF Redeliver
<1>5. CASE WatchBreak
  BY <1>0, <1>5 DEF WatchBreak
<1> QED  BY <1>3, <1>4, <1>5 DEF UpNext

\* Goroutine t takes on a justified list of work; nobody else's changes.
LEMMA NewWorkJustified ==
  ASSUME TypeOK, NoWrongfulDelete, NEW t \in Threads, NEW q \in Seq(Items),
         \A i \in DOMAIN q : q[i].des = "decommissioned" => Stopped(q[i].id),
         todo' = [todo EXCEPT ![t] = q], UNCHANGED <<rec, mark>>
  PROVE  NoWrongfulDelete'
<1>1. todo'[t] = q /\ \A s \in Threads \ {t} : todo'[s] = todo[s]
  BY DEF TypeOK, DownTypeOK
<1>2. ASSUME NEW s \in Threads, NEW i \in DOMAIN todo'[s],
             todo'[s][i].des = "decommissioned"
      PROVE  IsStopped(rec[todo'[s][i].id])
  BY <1>1, <1>2 DEF NoWrongfulDelete, Stopped
<1> QED  BY <1>2 DEF NoWrongfulDelete, Stopped

\* A resync reads what the records say.
LEMMA ResyncJustified ==
  ASSUME TypeOK, NoWrongfulDelete, NEW t \in Threads, Resync(t), UNCHANGED rec
  PROVE  NoWrongfulDelete'
<1>1. ASSUME NEW s \in Orderings(Unsettled \ Malformed),
             todo' = [todo EXCEPT ![t] = AsItems(s)]
      PROVE  NoWrongfulDelete'
  <2>1. Unsettled \ Malformed \in SUBSET Attempts
    BY DEF Unsettled
  <2>2. AsItems(s) \in Seq(Items)
    BY <2>1, ItemsType DEF TypeOK
  <2>3. ASSUME NEW i \in DOMAIN AsItems(s), AsItems(s)[i].des = "decommissioned"
        PROVE  Stopped(AsItems(s)[i].id)
    <3>1. i \in DOMAIN s /\ s[i] \in Unsettled
      BY DEF AsItems, Orderings
    <3>2. AsItems(s)[i].id = s[i] /\ AsItems(s)[i].des = rec[s[i]].des
      BY <3>1 DEF AsItems
    <3> QED  BY <2>3, <3>1, <3>2 DEF Unsettled, Live, Stopped, IsStopped
  <2>4. UNCHANGED mark
    BY DEF Resync
  <2> QED  BY <1>1, <2>2, <2>3, <2>4, NewWorkJustified
<1>2. CASE UNCHANGED todo
  <2>1. UNCHANGED mark
    BY DEF Resync
  <2> QED  BY <1>2, <2>1 DEF NoWrongfulDelete, Stopped
<1> QED  BY <1>1, <1>2 DEF Resync

\* The two goroutines only take up deletions that they read a reason for.
LEMMA DownNextJustified ==
  ASSUME IInv, DownNext
  PROVE  NoWrongfulDelete' /\ FeedJustified'
<1> USE DEF IInv, TypeOK
<1>0. ASSUME UNCHANGED <<rec, feed>>
      PROVE  FeedJustified'
  BY <1>0 DEF FeedJustified, Stopped
<1>1. CASE TickResync
  <2>1. Resync("tick") /\ UNCHANGED <<rec, feed>> /\ "tick" \in Threads
    BY <1>1 DEF TickResync, pbVars, Threads
  <2> QED  BY <1>0, <2>1, ResyncJustified
<1>2. CASE Subscribe
  <2>1. UNCHANGED <<rec, feed, downVars>>
    BY <1>2 DEF Subscribe
  <2> QED  BY <1>0, <2>1 DEF downVars, NoWrongfulDelete, Stopped
<1>3. CASE ConnectResync
  <2>1. Resync("sub") /\ UNCHANGED <<rec, feed>> /\ "sub" \in Threads
    BY <1>3 DEF ConnectResync, Threads
  <2> QED  BY <1>0, <2>1, ResyncJustified
<1>4. CASE HandleEvent
  <2> DEFINE ev == Head(feed)
             q  == Handled(ev)
  <2>1. feed \in Seq(Events) /\ feed # <<>> /\ feed' = Tail(feed)
        /\ UNCHANGED <<rec, mark>>
    BY <1>4 DEF HandleEvent, PBTypeOK
  <2>2. 1 \in DOMAIN feed /\ ev = feed[1] /\ ev \in Events
    BY <2>1, TailType, EmptySeq, LenProperties
  <2>3. /\ rec[ev.id].life # "unused"
        /\ ev.des = "decommissioned" => Stopped(ev.id)
    BY <2>2 DEF FeedJustified
  <2>4. ev.id \in Attempts /\ rec[ev.id] \in Records
    BY <2>2 DEF Events, PBTypeOK
  <2>5. \/ q = <<>>
        \/ q = <<[id |-> ev.id, des |-> "decommissioned"]>> /\ Stopped(ev.id)
        \/ q = <<[id |-> ev.id, des |-> rec[ev.id].des]>> /\ Live(ev.id)
    BY <2>3, <2>4 DEF Handled, Stopped, IsStopped, Live, Records
  <2>6. q \in Seq(Items)
    <3>1. \A d \in DesiredStates : <<[id |-> ev.id, des |-> d]>> \in Seq(Items)
      BY <2>4 DEF Items
    <3>2. rec[ev.id].des \in DesiredStates /\ "decommissioned" \in DesiredStates
      BY <2>4 DEF Records, DesiredStates
    <3>3. <<>> \in Seq(Items)
      OBVIOUS
    <3> QED  BY <2>5, <3>1, <3>2, <3>3
  <2>7. ASSUME NEW i \in DOMAIN q, q[i].des = "decommissioned"
        PROVE  Stopped(q[i].id)
    BY <2>5, <2>7 DEF Stopped, IsStopped, Live
  <2>8. NoWrongfulDelete'
    <3>1. CASE todo' = [todo EXCEPT !["sub"] = q]
      BY <2>1, <2>6, <2>7, <3>1, NewWorkJustified DEF Threads
    <3>2. CASE UNCHANGED todo
      BY <2>1, <3>2 DEF NoWrongfulDelete, Stopped
    <3> QED  BY <1>4, <3>1, <3>2 DEF HandleEvent, NextEvent
  <2>9. FeedJustified'
    <3>1. \A i \in DOMAIN Tail(feed) : i + 1 \in DOMAIN feed /\ Tail(feed)[i] = feed[i + 1]
      BY <2>1
    <3> QED  BY <2>1, <3>1 DEF FeedJustified, Stopped
  <2> QED  BY <2>8, <2>9
<1>5. ASSUME NEW t \in Threads, Reconcile(t)
      PROVE  NoWrongfulDelete' /\ FeedJustified'
  <2> DEFINE q == todo[t]
  <2>1. UNCHANGED <<rec, feed>>
    BY <1>5 DEF Reconcile, pbVars
  <2>2. q \in Seq(Items) /\ q # <<>> /\ todo' = [todo EXCEPT ![t] = Tail(q)]
    BY <1>5 DEF Reconcile, DownTypeOK
  <2>3. 1 \in DOMAIN q /\ Head(q) = q[1]
    BY <2>2, EmptySeq, LenProperties
  <2>4. \A i \in DOMAIN Tail(q) : i + 1 \in DOMAIN q /\ Tail(q)[i] = q[i + 1]
    BY <2>2
  <2>5. \A i \in DOMAIN q : q[i].des = "decommissioned" => IsStopped(rec[q[i].id])
    BY DEF NoWrongfulDelete, Stopped
  <2>6. \/ UNCHANGED mark
        \/ /\ mark' = [mark EXCEPT ![t] = Head(q).id]
           /\ Head(q).des = "decommissioned"
    BY <1>5 DEF Reconcile
  <2>7. ASSUME NEW s \in Threads, NEW i \in DOMAIN todo'[s],
               todo'[s][i].des = "decommissioned"
        PROVE  IsStopped(rec[todo'[s][i].id])
    <3>1. CASE s = t
      <4>1. todo'[s] = Tail(q)
        BY <2>2, <3>1 DEF DownTypeOK
      <4>2. i + 1 \in DOMAIN q /\ todo'[s][i] = q[i + 1]
        BY <2>4, <2>7, <4>1
      <4> QED  BY <2>5, <2>7, <4>2
    <3>2. CASE s # t
      <4>1. todo'[s] = todo[s]
        BY <2>2, <3>2 DEF DownTypeOK
      <4> QED  BY <2>7, <4>1 DEF NoWrongfulDelete, Stopped
    <3> QED  BY <3>1, <3>2
  <2>8. ASSUME NEW s \in Threads, mark'[s] # None
        PROVE  IsStopped(rec[mark'[s]])
    <3>1. CASE mark'[s] = mark[s]
      BY <2>8, <3>1 DEF NoWrongfulDelete, Stopped
    <3>2. CASE mark'[s] # mark[s]
      <4>1. mark'[s] = Head(q).id /\ Head(q).des = "decommissioned"
        BY <2>6, <3>2 DEF DownTypeOK
      <4> QED  BY <2>3, <2>5, <4>1
    <3> QED  BY <3>1, <3>2
  <2>9. NoWrongfulDelete'
    BY <2>1, <2>7, <2>8 DEF NoWrongfulDelete, Stopped
  <2> QED  BY <1>0, <2>1, <2>9
<1>6. ASSUME NEW t \in Threads, MarkDecommissioned(t)
      PROVE  NoWrongfulDelete' /\ FeedJustified'
  <2> DEFINE r == [rec[mark[t]] EXCEPT !.cur = "decommissioned"]
  <2>1. mark[t] \in Attempts
    BY <1>6 DEF MarkDecommissioned, DownTypeOK
  <2>2. r \in Records /\ r.life = rec[mark[t]].life /\ r.des = rec[mark[t]].des
    BY <2>1 DEF PBTypeOK, Records, CurrentStates
  <2>3. PatchOK(mark[t], r) \/ PatchFails(mark[t])
    BY <1>6 DEF MarkDecommissioned
  <2>4. FeedJustified' /\ OnlyForward
    BY <2>1, <2>2, <2>3, PatchJustified
  <2>5. todo' = todo /\ mark' = [mark EXCEPT ![t] = None]
    BY <1>6 DEF MarkDecommissioned
  <2>6. ASSUME NEW s \in Threads, NEW i \in DOMAIN todo[s],
               todo[s][i].des = "decommissioned"
        PROVE  IsStopped(rec'[todo[s][i].id])
    <3>1. todo[s][i].id \in Attempts
      BY HeldIds
    <3> QED  BY <2>4, <2>6, <3>1 DEF NoWrongfulDelete, OnlyForward
  <2>7. ASSUME NEW s \in Threads, mark'[s] # None
        PROVE  IsStopped(rec'[mark'[s]])
    <3>1. mark'[s] = mark[s]
      BY <2>5, <2>7 DEF DownTypeOK
    <3>2. mark[s] \in Attempts
      BY <2>7, <3>1, HeldIds
    <3> QED  BY <2>4, <2>7, <3>1, <3>2 DEF NoWrongfulDelete, OnlyForward
  <2>8. NoWrongfulDelete'
    BY <2>5, <2>6, <2>7 DEF NoWrongfulDelete, Stopped
  <2> QED  BY <2>4, <2>8
<1> QED  BY <1>1, <1>2, <1>3, <1>4, <1>5, <1>6 DEF DownNext

\* While owners only stop attempts, no goroutine ever holds the intent to delete
\* or to decommission an attempt that is wanted: for any number of attempts,
\* goroutine interleavings, faults and restarts.
THEOREM NoWrongfulDeleteHolds ==
  ASSUME OwnersOnlyStop
  PROVE  Spec => []NoWrongfulDelete
<1>1. Init => NoWrongfulDelete /\ FeedJustified
  BY DEF Init, PBInit, DownInit, NoWrongfulDelete, FeedJustified
<1>2. ASSUME IInv, [Next]_vars
      PROVE  NoWrongfulDelete' /\ FeedJustified'
  <2>1. CASE PBNext /\ UNCHANGED <<clusterVars, downVars, upVars>>
    BY <1>2, <2>1, PBNextJustified
  <2>2. CASE Down(DownNext)
    BY <1>2, <2>2, DownNextJustified DEF Down
  <2>3. CASE Up(UpNext)
    BY <1>2, <2>3, UpNextJustified DEF Up
  <2>4. ASSUME NEW a \in Attempts, Operator(OperatorNext(a, InUse(a)))
        PROVE  NoWrongfulDelete' /\ FeedJustified'
    BY <1>2, <2>4
       DEF Operator, pbVars, downVars, IInv, NoWrongfulDelete, FeedJustified, Stopped
  <2>5. CASE Restart
    BY <2>5 DEF Restart, NoWrongfulDelete, FeedJustified, Threads
  <2>6. CASE UNCHANGED vars
    BY <1>2, <2>6
       DEF vars, pbVars, downVars, IInv, NoWrongfulDelete, FeedJustified, Stopped
  <2> QED  BY <1>2, <2>1, <2>2, <2>3, <2>4, <2>5, <2>6 DEF Next
<1> QED  BY <1>1, <1>2, TypeCorrect, PTL DEF Spec, IInv
=============================================================================
