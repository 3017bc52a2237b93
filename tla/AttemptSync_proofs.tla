------------------------- MODULE AttemptSync_proofs -------------------------
(***************************************************************************)
(* That attempt-controller never believes a status or an expiry written    *)
(* which the record does not show: for any number of attempts, versions,   *)
(* faults, restarts and re-lists. The deduplication asks whether two       *)
(* resource versions are equal, so the invariants speak of every copy of   *)
(* an object there is: on the server, in the informer's cache, on the      *)
(* watch. Whether expires_at was written is remembered per attempt, not    *)
(* per object, so that its proof also follows one object after the other   *)
(* through the watch; `hidden` names those it cannot follow, a re-list     *)
(* having shown one object in place of another.                            *)
(***************************************************************************)
EXTENDS AttemptSystem_proofs

\* The copies of a's LabEnvironment.
Copies(a) ==
  {env[a], seen[a]} \cup {watch[i].obj : i \in {j \in DOMAIN watch : watch[j].id = a}}

\* A copy is of no object, or has a version; a version is of one copy.
CopiesDistinct ==
  \A a \in Attempts : \A x, y \in Copies(a) :
    /\ x.life = "absent" => x = Absent
    /\ x.life # "absent" => x.rv \in Versions
    /\ x.life # "absent" /\ y.life # "absent" /\ x.rv = y.rv => x = y

\* Whichever copy has the version recorded as synced, its phase is shown.
CopiesSynced ==
  \A a \in Attempts : Live(a) /\ rec[a].des = "provisioned" =>
    \A x \in Copies(a) :
      x.life # "absent" /\ x.rv = lastRV[a] => rec[a].cur = phaseToState(x.phase)

UnusedClean == \A a \in Attempts : rec[a].life = "unused" => lastRV[a] = None

MatchInv == CopiesDistinct /\ CopiesSynced /\ UnusedClean

-----------------------------------------------------------------------------
\* What a step may do to the copies of a: lose some, ...
Keeps(a) == \A x \in Copies(a)' : x \in Copies(a) \/ x = Absent

\* ... or add one of a version that nobody remembers.
Grows(a) ==
  \E n \in Objects :
    /\ n.life # "absent" /\ n.rv \in Versions /\ n.rv # lastRV[a]
    /\ \A x \in Copies(a) : x.rv # n.rv
    /\ \A x \in Copies(a)' : x \in Copies(a) \/ x = n

\* And to the record: nothing to the state of one that stays wanted and synced.
Stays(a) ==
  /\ lastRV'[a] \in {lastRV[a], None}
  /\ rec'[a].life = "unused" => rec[a].life = "unused"
  /\ rec'[a].life = "live" /\ rec'[a].des = "provisioned" /\ lastRV'[a] # None =>
       rec[a].life = "live" /\ rec[a].des = "provisioned" /\ rec'[a].cur = rec[a].cur

\* Such a step keeps versions telling copies apart.
LEMMA DistinctStep ==
  ASSUME CopiesDistinct, \A a \in Attempts : Keeps(a) \/ Grows(a)
  PROVE  CopiesDistinct'
<1> SUFFICES ASSUME NEW a \in Attempts, NEW x \in Copies(a)', NEW y \in Copies(a)'
             PROVE  /\ x.life = "absent" => x = Absent
                    /\ x.life # "absent" => x.rv \in Versions
                    /\ x.life # "absent" /\ y.life # "absent" /\ x.rv = y.rv => x = y
  BY DEF CopiesDistinct
<1>1. CASE Keeps(a)
  <2>1. (x \in Copies(a) \/ x = Absent) /\ (y \in Copies(a) \/ y = Absent)
    BY <1>1 DEF Keeps
  <2>2. Absent.life = "absent"
    BY DEF Absent
  <2> QED  BY <2>1, <2>2 DEF CopiesDistinct
<1>2. CASE Grows(a)
  <2>1. PICK n \in Objects :
          /\ n.life # "absent" /\ n.rv \in Versions
          /\ \A z \in Copies(a) : z.rv # n.rv
          /\ \A z \in Copies(a)' : z \in Copies(a) \/ z = n
    BY <1>2 DEF Grows
  <2>2. (x \in Copies(a) \/ x = n) /\ (y \in Copies(a) \/ y = n)
    BY <2>1
  <2> QED  BY <2>1, <2>2 DEF CopiesDistinct
<1> QED  BY <1>1, <1>2

\* And the record showing what is recorded as synced.
LEMMA MatchStep ==
  ASSUME MatchInv, \A a \in Attempts : (Keeps(a) \/ Grows(a)) /\ Stays(a)
  PROVE  MatchInv'
<1>1. CopiesDistinct'
  BY DistinctStep DEF MatchInv
<1>2. UnusedClean'
  BY DEF MatchInv, UnusedClean, Stays
<1>3. ASSUME NEW a \in Attempts, rec'[a].life = "live", rec'[a].des = "provisioned",
             NEW x \in Copies(a)', x.life # "absent", x.rv = lastRV'[a]
      PROVE  rec'[a].cur = phaseToState(x.phase)
  <2>1. x.rv # None /\ lastRV'[a] = lastRV[a]
    BY <1>1, <1>3, NoneAssumption DEF CopiesDistinct, Stays
  <2>2. /\ rec[a].life = "live" /\ rec[a].des = "provisioned" /\ rec'[a].cur = rec[a].cur
    BY <1>3, <2>1 DEF Stays
  <2>3. x \in Copies(a)
    <3>1. CASE Keeps(a)
      BY <1>3, <3>1 DEF Keeps, Absent
    <3>2. CASE Grows(a)
      BY <1>3, <2>1, <3>2 DEF Grows
    <3> QED  BY <3>1, <3>2
  <2> QED  BY <1>3, <2>1, <2>2, <2>3 DEF MatchInv, CopiesSynced, Live
<1>4. CopiesSynced'
  BY <1>3 DEF CopiesSynced, Live
<1> QED  BY <1>1, <1>2, <1>4 DEF MatchInv

-----------------------------------------------------------------------------
\* The steps on the cluster. One event more, on one object.
LEMMA AppendCopies ==
  ASSUME ClusterTypeOK, NEW a \in Attempts, NEW o \in Objects, NEW kind \in {"set", "del"},
         env' = [env EXCEPT ![a] = o], UNCHANGED seen,
         watch' = Append(watch, [id |-> a, kind |-> kind, obj |-> o])
  PROVE  /\ \A b \in Attempts \ {a} : Keeps(b)
         /\ \A x \in Copies(a)' : x \in Copies(a) \/ x = o
<1>1. watch \in Seq(WatchEvents)
  BY DEF ClusterTypeOK
<1>2. \A i \in DOMAIN watch' :
        \/ i \in DOMAIN watch /\ watch'[i] = watch[i]
        \/ watch'[i] = [id |-> a, kind |-> kind, obj |-> o]
  BY <1>1
<1>3. env'[a] = o /\ \A b \in Attempts \ {a} : env'[b] = env[b]
  BY DEF ClusterTypeOK
<1>4. \A b \in Attempts, i \in DOMAIN watch' : watch'[i].id = b =>
        watch'[i].obj \in Copies(b) \/ (b = a /\ watch'[i].obj = o)
  BY <1>2 DEF Copies
<1> QED  BY <1>3, <1>4 DEF Keeps, Copies

\* A write adds a copy of a version nobody remembers.
LEMMA WriteGrows ==
  ASSUME ClusterTypeOK, NEW a \in Attempts, NEW o \in Objects, o.life # "absent", NEW inUse,
         Write(a, o, inUse)
  PROVE  UNCHANGED lastRV /\ \A b \in Attempts : Keeps(b) \/ Grows(b)
<1> DEFINE n == [o EXCEPT !.rv = Fresh(a, inUse)]
<1>1. Fresh(a, inUse) \in Versions \ HeldBy(a)
  BY DEF Write, Fresh, Unused
<1>2. n \in Objects /\ n.life # "absent" /\ n.rv = Fresh(a, inUse)
  BY <1>1 DEF Objects
<1>3. n.rv # lastRV[a] /\ \A x \in Copies(a) : x.rv # n.rv
  BY <1>1, <1>2 DEF HeldBy, Copies
<1>4. /\ env' = [env EXCEPT ![a] = n] /\ UNCHANGED <<seen, lastRV>>
      /\ watch' = Append(watch, [id |-> a, kind |-> "set", obj |-> n])
  BY DEF Write
<1> HIDE DEF n
<1>5. /\ \A b \in Attempts \ {a} : Keeps(b)
      /\ \A x \in Copies(a)' : x \in Copies(a) \/ x = n
  BY <1>2, <1>4, AppendCopies
<1>6. Grows(a)
  BY <1>1, <1>2, <1>3, <1>5 DEF Grows
<1> QED  BY <1>4, <1>5, <1>6

\* An object that goes leaves no copy but Absent.
LEMMA DropKeeps ==
  ASSUME ClusterTypeOK, NEW a \in Attempts, Drop(a)
  PROVE  UNCHANGED lastRV /\ \A b \in Attempts : Keeps(b)
<1>1. /\ \A b \in Attempts \ {a} : Keeps(b)
      /\ \A x \in Copies(a)' : x \in Copies(a) \/ x = Absent
  BY AbsentType, AppendCopies DEF Drop
<1> QED  BY <1>1 DEF Drop, Keeps

\* Nothing done to the cluster keeps the copies.
LEMMA StillKeeps ==
  ASSUME UNCHANGED <<env, watch, seen>>
  PROVE  \A b \in Attempts : Keeps(b)
BY DEF Keeps, Copies

\* Deletes and applies write, drop or do nothing.
LEMMA DeleteMoves ==
  ASSUME ClusterTypeOK, NEW a \in Attempts, NEW inUse, Delete(a, inUse) \/ Apply(a, inUse)
  PROVE  UNCHANGED lastRV /\ \A b \in Attempts : Keeps(b) \/ Grows(b)
<1>1. CASE UNCHANGED clusterVars
  BY <1>1, StillKeeps DEF clusterVars
<1>2. CASE Drop(a)
  BY <1>2, DropKeeps
<1>3. CASE Delete(a, inUse) /\ Write(a, [env[a] EXCEPT !.life = "deleting"], inUse)
  <2>1. [env[a] EXCEPT !.life = "deleting"] \in Objects
        /\ [env[a] EXCEPT !.life = "deleting"].life # "absent"
    BY DEF ClusterTypeOK, Objects
  <2> QED  BY <1>3, <2>1, WriteGrows
<1>4. CASE Apply(a, inUse) /\ ~Exists(a)
  <2> DEFINE o == [Absent EXCEPT !.life = "live", !.born = Fresh(a, inUse)]
  <2>1. Unused(a, inUse) # {} /\ Write(a, o, inUse)
    BY <1>4 DEF Apply
  <2>2. Fresh(a, inUse) \in Versions
    BY <2>1 DEF Fresh, Unused
  <2>3. o \in Objects /\ o.life # "absent"
    BY <2>2 DEF Absent, Objects, Phases
  <2> HIDE DEF o
  <2> QED  BY <2>1, <2>3, WriteGrows
<1> QED  BY <1>1, <1>2, <1>3, <1>4 DEF Delete, Apply

\* So do the steps of the operator.
LEMMA OperatorMoves ==
  ASSUME ClusterTypeOK, NEW a \in Attempts, NEW inUse, OperatorNext(a, inUse)
  PROVE  UNCHANGED lastRV /\ \A b \in Attempts : Keeps(b) \/ Grows(b)
<1>0. env[a] \in Objects
  BY DEF ClusterTypeOK
<1>1. ASSUME NEW p \in PodPhases, Report(a, p, inUse)
      PROVE  UNCHANGED lastRV /\ \A b \in Attempts : Keeps(b) \/ Grows(b)
  <2> DEFINE o == [env[a] EXCEPT !.phase = p, !.exp = env[a].born]
  <2>1. o \in Objects /\ o.life # "absent"
    BY <1>0, <1>1, LabClusterAssumption DEF Report, Objects, Phases
  <2>2. Write(a, o, inUse)
    BY <1>1 DEF Report
  <2> HIDE DEF o
  <2> QED  BY <2>1, <2>2, WriteGrows
<1>2. CASE ReportTerminating(a, inUse)
  <2> DEFINE o == [env[a] EXCEPT !.phase = "Terminating"]
  <2>1. o \in Objects /\ o.life # "absent"
    BY <1>0, <1>2 DEF ReportTerminating, Objects, Phases
  <2>2. Write(a, o, inUse)
    BY <1>2 DEF ReportTerminating
  <2> HIDE DEF o
  <2> QED  BY <2>1, <2>2, WriteGrows
<1>3. CASE Expire(a, inUse)
  BY <1>3, DeleteMoves DEF Expire
<1>4. CASE Finalize(a)
  BY <1>4, DropKeeps DEF Finalize
<1> QED  BY <1>1, <1>2, <1>3, <1>4 DEF OperatorNext, ReportFirst, ReportChange

\* A list reports objects as they are.
LEMMA RelistKeeps ==
  ASSUME NEW c, watch' \in Relist(c), UNCHANGED env,
         \A a \in Attempts : seen'[a] \in {seen[a], Absent}
  PROVE  \A a \in Attempts : Keeps(a)
<1> DEFINE gone == {a \in Attempts : ~Exists(a) /\ c[a].life # "absent"}
           all  == gone \cup {a \in Attempts : Exists(a)}
           event(a) == [id |-> a, kind |-> IF a \in gone THEN "del" ELSE "set", obj |-> env[a]]
<1>1. PICK s \in Orderings(all) : watch' = [i \in DOMAIN s |-> event(s[i])]
  BY DEF Relist
<1>2. \A a, i : i \in DOMAIN watch' /\ watch'[i].id = a => watch'[i].obj = env[a]
  BY <1>1
<1> QED  BY <1>2 DEF Keeps, Copies

\* The informer's cache takes a copy off the watch.
LEMMA DeliverKeeps ==
  ASSUME ClusterTypeOK, Deliver
  PROVE  \A a \in Attempts : Keeps(a)
<1> DEFINE ev == Head(watch)
<1>1. watch \in Seq(WatchEvents) /\ watch # <<>> /\ watch' = Tail(watch)
  BY DEF Deliver, ClusterTypeOK
<1>2. ev = watch[1] /\ 1 \in DOMAIN watch /\ ev \in WatchEvents
      /\ \A i \in DOMAIN watch' : i + 1 \in DOMAIN watch /\ watch'[i] = watch[i + 1]
  BY <1>1
<1>3. ev.id \in Attempts /\ ev.obj \in Copies(ev.id)
  BY <1>2 DEF WatchEvents, Copies
<1>4. seen' = [seen EXCEPT ![ev.id] = ev.obj] /\ UNCHANGED env
  BY DEF Deliver
<1> HIDE DEF ev
<1>5. \A a \in Attempts : seen'[a] \in Copies(a)
  BY <1>3, <1>4 DEF ClusterTypeOK, Copies
<1>6. \A a \in Attempts, i \in DOMAIN watch' : watch'[i].id = a => watch'[i].obj \in Copies(a)
  BY <1>2 DEF Copies
<1>7. \A a \in Attempts : env'[a] \in Copies(a)
  BY <1>4 DEF Copies
<1> QED  BY <1>5, <1>6, <1>7 DEF Keeps, Copies

-----------------------------------------------------------------------------
\* The steps on the records. A save of one record leaves the others alone.
LEMMA SaveStays ==
  ASSUME PBTypeOK, MatchInv, NEW a \in Attempts, NEW r, Save(a, r),
         \A b \in Attempts : lastRV'[b] \in {lastRV[b], None},
         r.life = "unused" => rec[a].life = "unused",
         r.life # "live" \/ r.des # "provisioned" \/ lastRV'[a] = None
  PROVE  \A b \in Attempts : Stays(b)
<1>1. rec'[a] = r /\ \A b \in Attempts \ {a} : rec'[b] = rec[b]
  BY DEF Save, PBTypeOK
<1> QED  BY <1>1 DEF Stays

\* Records and what is recorded of them left alone.
LEMMA StillStays ==
  ASSUME UNCHANGED rec, \A b \in Attempts : lastRV'[b] \in {lastRV[b], None}
  PROVE  \A b \in Attempts : Stays(b)
BY DEF Stays

\* Owners stop attempts, or start them where nothing was ever synced.
LEMMA PBNextMatch ==
  ASSUME OwnersOnlyStop, TypeOK, MatchInv, PBNext, UNCHANGED clusterVars
  PROVE  MatchInv'
<1>0. UNCHANGED <<env, watch, seen, lastRV>>
  BY DEF clusterVars
<1> SUFFICES \A b \in Attempts : Stays(b)
  BY <1>0, StillKeeps, MatchStep
<1> USE DEF TypeOK
<1>1. CASE UNCHANGED rec
  BY <1>0, <1>1, StillStays
<1>2. ASSUME NEW u \in Users, NEW a \in Attempts, SaveCreate(u, a)
      PROVE  \A b \in Attempts : Stays(b)
  <2>1. lastRV[a] = None
    BY <1>2 DEF SaveCreate, MatchInv, UnusedClean
  <2> QED  BY <1>0, <1>2, <2>1, SaveStays DEF SaveCreate
<1>3. ASSUME NEW a \in Attempts, NEW d \in UserDesired, OwnerUpdate(a, d)
      PROVE  \A b \in Attempts : Stays(b)
  <2> DEFINE r == [rec[a] EXCEPT !.des = d]
  <2>1. Save(a, r) /\ rec[a].life = "live" /\ d = "decommissioned"
    BY <1>3 DEF OwnerUpdate, Live, OwnersOnlyStop
  <2>2. r.life = "live" /\ r.des = "decommissioned"
    BY <2>1 DEF PBTypeOK, Records
  <2> HIDE DEF r
  <2> QED  BY <1>0, <2>1, <2>2, SaveStays
<1>4. ASSUME NEW a \in Attempts, Erase(a)
      PROVE  \A b \in Attempts : Stays(b)
  <2> DEFINE r == [rec[a] EXCEPT !.life = "erased"]
  <2>1. Save(a, r) /\ r.life = "erased"
    BY <1>4 DEF Erase, PBTypeOK, Records
  <2> HIDE DEF r
  <2> QED  BY <1>0, <2>1, SaveStays
<1> QED  BY <1>1, <1>2, <1>3, <1>4 DEF PBNext, CheckCreate, StreamBreak

\* Downstream only marks what was stopped.
LEMMA DownNextMatch ==
  ASSUME TypeOK, NoWrongfulDelete, MatchInv, DownNext
  PROVE  MatchInv'
<1> USE DEF TypeOK
<1>1. CASE UNCHANGED <<rec, clusterVars>>
  BY <1>1, StillKeeps, StillStays, MatchStep DEF clusterVars
<1>2. ASSUME NEW t \in Threads, Reconcile(t) PROVE MatchInv'
  <2> DEFINE a == Head(todo[t]).id
  <2>1. a \in Attempts
    <3>1. todo[t] \in Seq(Items) /\ todo[t] # <<>>
      BY <1>2 DEF Reconcile, DownTypeOK
    <3>2. Head(todo[t]) \in Items
      BY <3>1, TailType
    <3> QED  BY <3>2 DEF Items
  <2>2. UNCHANGED rec
    BY <1>2 DEF Reconcile, pbVars
  <2>3. UNCHANGED clusterVars \/ Delete(a, InUse(a)) \/ Apply(a, InUse(a))
    BY <1>2 DEF Reconcile
  <2> HIDE DEF a
  <2>4. CASE UNCHANGED clusterVars
    BY <1>1, <2>2, <2>4
  <2>5. CASE Delete(a, InUse(a)) \/ Apply(a, InUse(a))
    <3>1. UNCHANGED lastRV /\ \A b \in Attempts : Keeps(b) \/ Grows(b)
      BY <2>1, <2>5, DeleteMoves
    <3> QED  BY <2>2, <3>1, StillStays, MatchStep
  <2> QED  BY <2>3, <2>4, <2>5
<1>3. ASSUME NEW t \in Threads, MarkDecommissioned(t) PROVE MatchInv'
  <2> DEFINE a == mark[t]
             r == [rec[a] EXCEPT !.cur = "decommissioned"]
  <2>1. /\ a \in Attempts /\ Stopped(a) /\ UNCHANGED clusterVars
        /\ PatchOK(a, r) \/ PatchFails(a)
    BY <1>3 DEF MarkDecommissioned, DownTypeOK, NoWrongfulDelete
  <2>2. CASE PatchFails(a)
    BY <1>1, <2>1, <2>2 DEF PatchFails, pbVars
  <2>3. CASE PatchOK(a, r)
    <3>1. r.life = "live" /\ r.des = "decommissioned" /\ Save(a, r) /\ rec[a].life = "live"
      BY <2>1, <2>3 DEF PatchOK, Live, Stopped, IsStopped, PBTypeOK, Records
    <3> HIDE DEF r
    <3>2. \A b \in Attempts : Stays(b)
      BY <2>1, <3>1, SaveStays DEF clusterVars
    <3> QED  BY <2>1, <3>2, StillKeeps, MatchStep DEF clusterVars
  <2> QED  BY <2>1, <2>2, <2>3
<1>4. TickResync \/ Subscribe \/ ConnectResync \/ HandleEvent => UNCHANGED <<rec, clusterVars>>
  BY DEF TickResync, Subscribe, ConnectResync, HandleEvent, Resync, pbVars
<1> QED  BY <1>1, <1>2, <1>3, <1>4 DEF DownNext

-----------------------------------------------------------------------------
\* Upstream. What it records as synced of a copy it has just written.
LEMMA ReconcileMatch ==
  ASSUME TypeOK, MatchInv, NEW a \in Attempts, NEW o \in Copies(a), ReconcileLabEnv(a, o),
         \A b \in Attempts : Keeps(b)
  PROVE  MatchInv'
<1> USE DEF TypeOK
<1>1. CASE UNCHANGED <<rec, lastRV>>
  BY <1>1, StillStays, MatchStep
<1>2. CASE PatchOK(a, Synced(a, o)) /\ lastRV' = [lastRV EXCEPT ![a] = o.rv] /\ o.phase # "none"
  <2>1. rec' = [rec EXCEPT ![a] = Synced(a, o)] /\ rec[a].life = "live"
    BY <1>2 DEF PatchOK, Save, Live
  <2>2. /\ rec'[a] = Synced(a, o) /\ lastRV'[a] = o.rv
        /\ \A b \in Attempts \ {a} : rec'[b] = rec[b] /\ lastRV'[b] = lastRV[b]
    BY <1>2, <2>1 DEF PBTypeOK, ClusterTypeOK
  <2>3. rec'[a].cur = phaseToState(o.phase) /\ rec'[a].life = "live"
    BY <2>1, <2>2 DEF Synced, PBTypeOK, Records
  <2>4. o.life # "absent"
    BY <1>2 DEF MatchInv, CopiesDistinct, Absent
  <2>5. CopiesDistinct'
    BY DistinctStep DEF MatchInv
  <2>6. UnusedClean'
    BY <2>2, <2>3 DEF MatchInv, UnusedClean
  <2>7. ASSUME NEW b \in Attempts, rec'[b].life = "live", rec'[b].des = "provisioned",
               NEW x \in Copies(b)', x.life # "absent", x.rv = lastRV'[b]
        PROVE  rec'[b].cur = phaseToState(x.phase)
    <3>1. x \in Copies(b)
      BY <2>7 DEF Keeps, Absent
    <3>2. CASE b = a
      <4>1. x = o
        BY <2>2, <2>4, <2>7, <3>1, <3>2 DEF MatchInv, CopiesDistinct
      <4> QED  BY <2>3, <3>2, <4>1
    <3>3. CASE b # a
      BY <2>2, <2>7, <3>1, <3>3 DEF MatchInv, CopiesSynced, Live
    <3> QED  BY <3>2, <3>3
  <2>8. CopiesSynced'
    BY <2>7 DEF CopiesSynced, Live
  <2> QED  BY <2>5, <2>6, <2>8 DEF MatchInv
<1> QED  BY <1>1, <1>2 DEF ReconcileLabEnv, PatchFails, pbVars

\* The informer's goroutine.
LEMMA UpNextMatch ==
  ASSUME TypeOK, MatchInv, UpNext
  PROVE  MatchInv'
<1> USE DEF TypeOK
<1>1. CASE Deliver
  <2> DEFINE ev == Head(watch)
  <2>1. watch \in Seq(WatchEvents) /\ watch # <<>> /\ watch' = Tail(watch)
    BY <1>1 DEF Deliver, ClusterTypeOK
  <2>2. ev = watch[1] /\ 1 \in DOMAIN watch /\ ev \in WatchEvents
        /\ \A i \in DOMAIN watch' : i + 1 \in DOMAIN watch /\ watch'[i] = watch[i + 1]
    BY <2>1
  <2>3. ev.id \in Attempts /\ ev.obj \in Copies(ev.id)
    BY <2>2 DEF WatchEvents, Copies
  <2>4. seen' = [seen EXCEPT ![ev.id] = ev.obj] /\ UNCHANGED env
    BY <1>1 DEF Deliver
  <2>5. ReconcileLabEnv(ev.id, ev.obj) \/ ReconcileDelete(ev.id)
    BY <1>1 DEF Deliver
  <2> HIDE DEF ev
  <2>6. \A a \in Attempts : Keeps(a)
    BY <1>1, DeliverKeeps
  <2>7. CASE ReconcileDelete(ev.id)
    <3> DEFINE a == ev.id
               r == [rec[a] EXCEPT !.cur = "decommissioned", !.des = "decommissioned"]
    <3>1. \A b \in Attempts : lastRV'[b] \in {lastRV[b], None}
      BY <2>7 DEF ReconcileDelete, ClusterTypeOK
    <3>2. CASE PatchFails(a)
      BY <2>6, <3>1, <3>2, StillStays, MatchStep DEF PatchFails, pbVars
    <3>3. CASE PatchOK(a, r)
      <4>1. Save(a, r) /\ r.life = "live" /\ r.des = "decommissioned"
        BY <2>3, <3>3 DEF PatchOK, Live, PBTypeOK, Records
      <4> HIDE DEF r
      <4>2. \A b \in Attempts : Stays(b)
        BY <2>3, <3>1, <4>1, SaveStays
      <4> QED  BY <2>6, <4>2, MatchStep
    <3> QED  BY <2>7, <3>2, <3>3 DEF ReconcileDelete
  <2> QED  BY <2>3, <2>5, <2>6, <2>7, ReconcileMatch
<1>2. ASSUME NEW a \in Attempts, Redeliver(a) PROVE MatchInv'
  <2>1. seen[a] \in Copies(a) /\ ReconcileLabEnv(a, seen[a]) /\ \A b \in Attempts : Keeps(b)
    BY <1>2, StillKeeps DEF Redeliver, Copies
  <2> QED  BY <2>1, ReconcileMatch
<1>3. CASE WatchBreak
  <2>1. \A a \in Attempts : Keeps(a)
    BY <1>3, RelistKeeps DEF WatchBreak
  <2> QED  BY <1>3, <2>1, StillStays, MatchStep DEF WatchBreak, pbVars
<1> QED  BY <1>1, <1>2, <1>3 DEF UpNext

\* Nothing is synced before anything is there.
LEMMA InitMatch == Init => MatchInv
<1> SUFFICES ASSUME Init PROVE MatchInv
  OBVIOUS
<1>1. \A a \in Attempts : Copies(a) = {Absent} /\ lastRV[a] = None
  BY DEF Init, ClusterInit, Copies
<1> QED  BY <1>1 DEF MatchInv, CopiesDistinct, CopiesSynced, UnusedClean, Absent

\* Every step.
LEMMA NextMatch ==
  ASSUME OwnersOnlyStop, TypeOK, NoWrongfulDelete, MatchInv, [Next]_vars
  PROVE  MatchInv'
<1>1. CASE PBNext /\ UNCHANGED <<clusterVars, downVars, upVars>>
  BY <1>1, PBNextMatch
<1>2. CASE Down(DownNext)
  BY <1>2, DownNextMatch DEF Down
<1>3. CASE Up(UpNext)
  BY <1>3, UpNextMatch DEF Up
<1>4. ASSUME NEW a \in Attempts, Operator(OperatorNext(a, InUse(a))) PROVE MatchInv'
  <2>1. UNCHANGED <<lastRV, rec>> /\ \A b \in Attempts : Keeps(b) \/ Grows(b)
    BY <1>4, OperatorMoves DEF Operator, pbVars, TypeOK
  <2> QED  BY <2>1, StillStays, MatchStep
<1>5. CASE Restart
  <2>1. \A a \in Attempts : Keeps(a)
    BY <1>5, RelistKeeps DEF Restart
  <2>2. UNCHANGED rec /\ \A b \in Attempts : lastRV'[b] \in {lastRV[b], None}
    BY <1>5 DEF Restart
  <2> QED  BY <2>1, <2>2, StillStays, MatchStep
<1>6. CASE UNCHANGED vars
  BY <1>6, StillKeeps, StillStays, MatchStep DEF vars, pbVars, clusterVars
<1> QED  BY <1>1, <1>2, <1>3, <1>4, <1>5, <1>6 DEF Next

\* While owners only stop attempts: a wanted attempt shows the phase of its
\* object once that version is recorded as synced, through re-lists, restarts,
\* failed PATCHes and new objects of the same name (ReconcileLabEnv).
THEOREM SyncedStateMatchesHolds ==
  ASSUME OwnersOnlyStop
  PROVE  Spec => []SyncedStateMatches
<1>1. MatchInv => SyncedStateMatches
  BY DEF MatchInv, CopiesSynced, SyncedStateMatches, Copies, Exists, Live
<1>2. TypeOK /\ NoWrongfulDelete /\ MatchInv /\ [Next]_vars => MatchInv'
  BY NextMatch
<1> QED  BY <1>1, <1>2, InitMatch, TypeCorrect, NoWrongfulDeleteHolds, PTL DEF Spec
-----------------------------------------------------------------------------
(* Expiry. Unless a re-list hides it, the informer learns of the end of an *)
(* object before it learns of the next one of that name.                   *)

\* The events on the watch that tell of an object a, and of its end.
Tells(a, i) == i \in DOMAIN watch /\ watch[i].id = a /\ watch[i].kind = "set"
Ends(a, i)  == i \in DOMAIN watch /\ watch[i].id = a /\ watch[i].kind = "del"

EventsSound ==
  \A i \in DOMAIN watch : watch[i].kind = "set" <=> watch[i].obj.life # "absent"

\* Nothing that lies between two positions on the watch ends a's object.
Unbroken(a, i, j) == \A d \in DOMAIN watch : i < d /\ d < j => ~Ends(a, d)

\* What the informer is about to have of a is of one life until an event says that
\* this one has ended, and of the life it knows if no re-list hid the end of that;
\* the last of them is that on the server.
OneLife(a) ==
  /\ a \notin hidden =>
       \A j \in DOMAIN watch :
         seen[a].life # "absent" /\ Tells(a, j) /\ Unbroken(a, 0, j)
           => watch[j].obj.born = seen[a].born
  /\ \A i, j \in DOMAIN watch :
       i < j /\ Tells(a, i) /\ Tells(a, j) /\ Unbroken(a, i, j)
         => watch[j].obj.born = watch[i].obj.born
  /\ a \notin hidden /\ seen[a].life # "absent" /\ Unbroken(a, 0, Len(watch) + 1)
       => Exists(a) /\ env[a].born = seen[a].born
  /\ \A i \in DOMAIN watch : Tells(a, i) /\ Unbroken(a, i, Len(watch) + 1)
       => Exists(a) /\ env[a].born = watch[i].obj.born

\* A copy's expiry, if it has one, is that of its life.
ExpiryOfLife == \A a \in Attempts : \A x \in Copies(a) : x.exp \in {None, x.born}

\* What upstream wrote is the expiry of the life the informer knows.
WrittenOfLife ==
  \A a \in expiresAtWritten \ hidden :
    rec[a].life # "unused" /\ seen[a].life # "absent" /\ rec[a].exp = seen[a].born

\* Whichever copy has the version recorded as synced, its expiry is written.
ExpirySynced ==
  \A a \in Attempts \ hidden : \A x \in Copies(a) :
    x.life # "absent" /\ x.rv = lastRV[a] /\ x.exp # None
      => a \in expiresAtWritten /\ rec[a].exp = x.exp

ExpiryInv ==
  /\ CopiesDistinct /\ EventsSound /\ \A a \in Attempts : OneLife(a)
  /\ ExpiryOfLife /\ WrittenOfLife /\ ExpirySynced

\* A word on the watch that tells of what a's object has become.
LEMMA AppendLife ==
  ASSUME ClusterTypeOK, NEW a \in Attempts, NEW n \in Objects, NEW kind \in {"set", "del"},
         EventsSound, \A b \in Attempts : OneLife(b),
         env' = [env EXCEPT ![a] = n], UNCHANGED <<seen, hidden>>,
         watch' = Append(watch, [id |-> a, kind |-> kind, obj |-> n]),
         kind = "set" <=> n.life # "absent",
         Exists(a) /\ n.life # "absent" => n.born = env[a].born
  PROVE  EventsSound' /\ \A b \in Attempts : OneLife(b)'
<1>0. watch \in Seq(WatchEvents)
  BY DEF ClusterTypeOK
<1>1. PICK L \in Nat : L = Len(watch) /\ DOMAIN watch = 1 .. L
  BY <1>0
<1>2. /\ DOMAIN watch' = 1 .. L + 1 /\ Len(watch') = L + 1
      /\ \A i \in 1 .. L : watch'[i] = watch[i]
      /\ watch'[L + 1] = [id |-> a, kind |-> kind, obj |-> n]
  BY <1>0, <1>1
<1>3. env'[a] = n /\ \A b \in Attempts \ {a} : env'[b] = env[b]
  BY DEF ClusterTypeOK
<1>4. EventsSound'
  BY <1>1, <1>2 DEF EventsSound
<1>5. /\ \A b, i : i \in 1 .. L => (Tells(b, i)' <=> Tells(b, i)) /\ (Ends(b, i)' <=> Ends(b, i))
      /\ \A b : Tells(b, L + 1)' <=> b = a /\ kind = "set"
      /\ \A b : Ends(b, L + 1)' <=> b = a /\ kind = "del"
  BY <1>1, <1>2 DEF Tells, Ends
<1>6. \A b : \A i, j \in 0 .. L + 1 : Unbroken(b, i, j)' <=> Unbroken(b, i, j)
  BY <1>1, <1>2, <1>5 DEF Unbroken
<1>7. \A b : \A i \in 0 .. L :
        Unbroken(b, i, L + 2)' => Unbroken(b, i, L + 1) /\ (b = a => kind = "set")
  BY <1>1, <1>2, <1>5 DEF Unbroken
<1>8. ASSUME NEW b \in Attempts PROVE OneLife(b)'
  <2>1. OneLife(b)
    OBVIOUS
  <2>2. ASSUME NEW j \in 1 .. L + 1, b \notin hidden,
               seen[b].life # "absent", Tells(b, j)', Unbroken(b, 0, j)
        PROVE  watch'[j].obj.born = seen[b].born
    <3>1. CASE j \in 1 .. L
      BY <1>1, <1>2, <1>5, <2>1, <2>2, <3>1 DEF OneLife
    <3>2. CASE j = L + 1
      <4>1. b = a /\ kind = "set" /\ watch'[j].obj = n
        BY <1>2, <1>5, <2>2, <3>2
      <4>2. Exists(b) /\ env[b].born = seen[b].born
        BY <1>1, <2>1, <2>2, <3>2 DEF OneLife
      <4> QED  BY <4>1, <4>2
    <3> QED  BY <1>1, <3>1, <3>2
  <2>3. ASSUME NEW i \in 1 .. L + 1, NEW j \in 1 .. L + 1, i < j,
               Tells(b, i)', Tells(b, j)', Unbroken(b, i, j)
        PROVE  watch'[j].obj.born = watch'[i].obj.born
    <3>0. i \in 1 .. L /\ Tells(b, i) /\ watch'[i] = watch[i]
      BY <1>1, <1>2, <1>5, <2>3
    <3>1. CASE j \in 1 .. L
      BY <1>1, <1>2, <1>5, <2>1, <2>3, <3>0, <3>1 DEF OneLife
    <3>2. CASE j = L + 1
      <4>1. b = a /\ kind = "set" /\ watch'[j].obj = n
        BY <1>2, <1>5, <2>3, <3>2
      <4>2. Exists(b) /\ env[b].born = watch[i].obj.born
        BY <1>1, <2>1, <2>3, <3>0, <3>2 DEF OneLife
      <4> QED  BY <3>0, <4>1, <4>2
    <3> QED  BY <1>1, <3>1, <3>2
  <2>4. ASSUME NEW i \in 0 .. L, Unbroken(b, i, L + 2)', NEW born,
               Unbroken(b, i, L + 1) => Exists(b) /\ env[b].born = born
        PROVE  env'[b].life # "absent" /\ env'[b].born = born
    <3>1. Unbroken(b, i, L + 1) /\ (b = a => kind = "set")
      BY <1>7, <2>4
    <3> QED  BY <1>3, <2>4, <3>1 DEF Exists
  <2>5. b \notin hidden /\ seen[b].life # "absent" /\ Unbroken(b, 0, L + 2)'
          => env'[b].life # "absent" /\ env'[b].born = seen[b].born
    <3> SUFFICES ASSUME b \notin hidden, seen[b].life # "absent",
                        Unbroken(b, 0, L + 2)'
                 PROVE  env'[b].life # "absent" /\ env'[b].born = seen[b].born
      OBVIOUS
    <3>1. Unbroken(b, 0, L + 1) => Exists(b) /\ env[b].born = seen[b].born
      BY <1>1, <2>1 DEF OneLife
    <3>2. 0 \in 0 .. L
      BY <1>1
    <3> QED  BY <2>4, <3>1, <3>2
  <2>6. ASSUME NEW i \in 1 .. L + 1, Tells(b, i)', Unbroken(b, i, L + 2)'
        PROVE  env'[b].life # "absent" /\ env'[b].born = watch'[i].obj.born
    <3>1. CASE i \in 1 .. L
      <4>1. Unbroken(b, i, L + 1) => Exists(b) /\ env[b].born = watch[i].obj.born
        BY <1>1, <1>5, <2>1, <2>6, <3>1 DEF OneLife
      <4>2. i \in 0 .. L
        BY <1>1, <3>1
      <4> QED  BY <1>2, <2>4, <2>6, <3>1, <4>1, <4>2
    <3>2. CASE i = L + 1
      BY <1>2, <1>3, <1>5, <2>6, <3>2
    <3> QED  BY <1>1, <3>1, <3>2
  <2>7. Len(watch') + 1 = L + 2 /\ 0 \in 0 .. L + 1 /\ 1 .. L + 1 \subseteq 0 .. L + 1
    BY <1>1, <1>2
  <2> QED
    BY <1>2, <1>6, <2>2, <2>3, <2>5, <2>6, <2>7 DEF OneLife, Exists
<1> QED  BY <1>4, <1>8

\* The informer takes a word off the watch and knows what it says.
LEMMA TakeLife ==
  ASSUME ClusterTypeOK, EventsSound, \A b \in Attempts : OneLife(b), watch # <<>>,
         watch' = Tail(watch), UNCHANGED env,
         seen' = [seen EXCEPT ![Head(watch).id] = Head(watch).obj],
         hidden' = IF Head(watch).kind = "set" THEN hidden ELSE hidden \ {Head(watch).id}
  PROVE  /\ EventsSound' /\ \A b \in Attempts : OneLife(b)'
         /\ \A b \in Attempts \ hidden :
              seen[b].life # "absent" /\ seen'[b].life # "absent"
                => seen'[b].born = seen[b].born
<1>0. watch \in Seq(WatchEvents) /\ Len(watch) \in Nat \ {0}
  BY DEF ClusterTypeOK
<1>1. PICK L \in Nat \ {0}, ev \in WatchEvents :
        L = Len(watch) /\ DOMAIN watch = 1 .. L /\ Head(watch) = ev /\ watch[1] = ev
  BY <1>0
<1>2. /\ DOMAIN watch' = 1 .. L - 1 /\ Len(watch') = L - 1
      /\ \A i \in 1 .. L - 1 : watch'[i] = watch[i + 1]
  BY <1>0, <1>1
<1>4. /\ ev.id \in Attempts /\ seen'[ev.id] = ev.obj
      /\ \A b \in Attempts \ {ev.id} : seen'[b] = seen[b]
  BY <1>1 DEF WatchEvents, ClusterTypeOK
<1>5. EventsSound'
  BY <1>1, <1>2 DEF EventsSound
<1>6. \A b, i : i \in 1 .. L - 1 =>
        (Tells(b, i)' <=> Tells(b, i + 1)) /\ (Ends(b, i)' <=> Ends(b, i + 1))
  BY <1>1, <1>2 DEF Tells, Ends
<1>7. \A b : \A i, j \in 0 .. L : Unbroken(b, i, j)' => Unbroken(b, i + 1, j + 1)
  <2> SUFFICES ASSUME NEW b, NEW i \in 0 .. L, NEW j \in 0 .. L, Unbroken(b, i, j)',
                      NEW d \in DOMAIN watch, i + 1 < d, d < j + 1
               PROVE  ~Ends(b, d)
    BY DEF Unbroken
  <2>1. d - 1 \in 1 .. L - 1 /\ i < d - 1 /\ d - 1 < j /\ (d - 1) + 1 = d
    BY <1>1
  <2> QED  BY <1>2, <1>6, <2>1 DEF Unbroken
<1>8. \A b : \A j \in 0 .. L : Unbroken(b, 0, j)' /\ ~Ends(b, 1) => Unbroken(b, 0, j + 1)
  <2> SUFFICES ASSUME NEW b, NEW j \in 0 .. L, Unbroken(b, 0, j)', ~Ends(b, 1),
                      NEW d \in DOMAIN watch, 0 < d, d < j + 1
               PROVE  ~Ends(b, d)
    BY DEF Unbroken
  <2>1. d = 1 \/ (d - 1 \in 1 .. L - 1 /\ 0 < d - 1 /\ d - 1 < j /\ (d - 1) + 1 = d)
    BY <1>1
  <2> QED  BY <1>2, <1>6, <2>1 DEF Unbroken
<1>9. ASSUME NEW b \in Attempts PROVE OneLife(b)'
  <2>1. OneLife(b)
    OBVIOUS
  <2>2. \* What the informer now knows was told by the first word, or known before.
        seen'[b].life # "absent" =>
          /\ b \notin hidden' => b \notin hidden
          /\ \/ Tells(b, 1) /\ seen'[b] = ev.obj
             \/ seen[b].life # "absent" /\ seen'[b] = seen[b] /\ ~Ends(b, 1)
    BY <1>1, <1>4 DEF Tells, Ends, EventsSound, WatchEvents
  <2>3. ASSUME NEW j \in 1 .. L - 1, b \notin hidden', seen'[b].life # "absent",
               Tells(b, j)', Unbroken(b, 0, j)'
        PROVE  watch'[j].obj.born = seen'[b].born
    <3>0. /\ j + 1 \in 1 .. L /\ 1 < j + 1 /\ j \in 0 .. L /\ 0 \in 0 .. L /\ 0 + 1 = 1 /\ 1 \in 1 .. L
          /\ Tells(b, j + 1) /\ watch'[j] = watch[j + 1] /\ b \notin hidden
      BY <1>1, <1>2, <1>6, <2>2, <2>3
    <3>1. CASE Tells(b, 1) /\ seen'[b] = ev.obj
      <4>1. Unbroken(b, 1, j + 1)
        BY <1>7, <2>3, <3>0
      <4>2. watch[j + 1].obj.born = watch[1].obj.born
        BY <1>1, <2>1, <3>0, <3>1, <4>1 DEF OneLife
      <4> QED  BY <1>1, <3>0, <3>1, <4>2
    <3>2. CASE seen[b].life # "absent" /\ seen'[b] = seen[b] /\ ~Ends(b, 1)
      <4>1. Unbroken(b, 0, j + 1)
        BY <1>8, <2>3, <3>0, <3>2
      <4> QED  BY <1>1, <2>1, <3>0, <3>2, <4>1 DEF OneLife
    <3> QED  BY <2>2, <2>3, <3>1, <3>2
  <2>4. ASSUME NEW i \in 1 .. L - 1, NEW j \in 1 .. L - 1, i < j,
               Tells(b, i)', Tells(b, j)', Unbroken(b, i, j)'
        PROVE  watch'[j].obj.born = watch'[i].obj.born
    <3>1. /\ i + 1 \in 1 .. L /\ j + 1 \in 1 .. L /\ i + 1 < j + 1 /\ i \in 0 .. L /\ j \in 0 .. L
          /\ Tells(b, i + 1) /\ Tells(b, j + 1)
          /\ watch'[i] = watch[i + 1] /\ watch'[j] = watch[j + 1]
      BY <1>1, <1>2, <1>6, <2>4
    <3>2. Unbroken(b, i + 1, j + 1)
      BY <1>7, <2>4, <3>1
    <3> QED  BY <1>1, <2>1, <3>1, <3>2 DEF OneLife
  <2>5. b \notin hidden' /\ seen'[b].life # "absent" /\ Unbroken(b, 0, L)'
          => Exists(b) /\ env[b].born = seen'[b].born
    <3> SUFFICES ASSUME b \notin hidden', seen'[b].life # "absent", Unbroken(b, 0, L)'
                 PROVE  Exists(b) /\ env[b].born = seen'[b].born
      OBVIOUS
    <3>0. L \in 0 .. L /\ 0 \in 0 .. L /\ 0 + 1 = 1 /\ 1 \in DOMAIN watch /\ b \notin hidden
      BY <1>1, <2>2
    <3>1. CASE Tells(b, 1) /\ seen'[b] = ev.obj
      <4>1. Unbroken(b, 1, L + 1)
        BY <1>7, <3>0
      <4> QED  BY <1>1, <2>1, <3>0, <3>1, <4>1 DEF OneLife
    <3>2. CASE seen[b].life # "absent" /\ seen'[b] = seen[b] /\ ~Ends(b, 1)
      <4>1. Unbroken(b, 0, L + 1)
        BY <1>8, <3>0, <3>2
      <4> QED  BY <1>1, <2>1, <3>0, <3>2, <4>1 DEF OneLife
    <3> QED  BY <2>2, <3>1, <3>2
  <2>6. ASSUME NEW i \in 1 .. L - 1, Tells(b, i)', Unbroken(b, i, L)'
        PROVE  Exists(b) /\ env[b].born = watch'[i].obj.born
    <3>1. i + 1 \in DOMAIN watch /\ i \in 0 .. L /\ L \in 0 .. L /\ Tells(b, i + 1) /\ watch'[i] = watch[i + 1]
      BY <1>1, <1>2, <1>6, <2>6
    <3>2. Unbroken(b, i + 1, L + 1)
      BY <1>7, <2>6, <3>1
    <3> QED  BY <1>1, <2>1, <3>1, <3>2 DEF OneLife
  <2>7. Len(watch') + 1 = L /\ UNCHANGED env[b]
    BY <1>1, <1>2
  <2>8. DOMAIN watch' = 1 .. L - 1
    BY <1>2
  <2> QED  BY <2>3, <2>4, <2>5, <2>6, <2>7, <2>8 DEF OneLife, Exists
<1>10. ASSUME NEW b \in Attempts \ hidden, seen[b].life # "absent", seen'[b].life # "absent"
       PROVE  seen'[b].born = seen[b].born
  <2>1. CASE b = ev.id
    <3>1. Tells(b, 1) /\ seen'[b] = ev.obj /\ 1 \in DOMAIN watch
      BY <1>1, <1>4, <1>10, <2>1 DEF Tells, EventsSound, WatchEvents
    <3>2. Unbroken(b, 0, 1)
      BY <1>1 DEF Unbroken
    <3> QED  BY <1>10, <3>1, <3>2 DEF OneLife
  <2> QED  BY <1>4, <2>1
<1> QED  BY <1>5, <1>9, <1>10

-----------------------------------------------------------------------------
\* A step that records nothing as synced, keeps copies or adds one of a version
\* nobody remembers, and leaves written expiries written.
LEMMA ExpiryStep ==
  ASSUME ExpiryInv, EventsSound', \A a \in Attempts : OneLife(a)',
         \A a \in Attempts : Keeps(a) \/ Grows(a),
         \A a \in Attempts : \A x \in Copies(a)' : x \in Copies(a) \/ x.exp \in {None, x.born},
         \A a \in Attempts :
           /\ a \in hidden =>
                a \in hidden' \/ (lastRV'[a] = None /\ a \notin expiresAtWritten')
           /\ lastRV'[a] \in {lastRV[a], None}
           /\ a \in expiresAtWritten' \ hidden' =>
                /\ a \in expiresAtWritten /\ rec'[a].exp = rec[a].exp
                /\ rec[a].life # "unused" => rec'[a].life # "unused"
                /\ seen'[a].life # "absent" /\ seen'[a].born = seen[a].born
           /\ lastRV'[a] # None => (a \in expiresAtWritten <=> a \in expiresAtWritten'),
         expiresAtWritten' \subseteq Attempts
  PROVE  ExpiryInv'
<1>1. CopiesDistinct'
  BY DistinctStep DEF ExpiryInv
<1>2. ExpiryOfLife'
  BY DEF ExpiryInv, ExpiryOfLife
<1>3. WrittenOfLife'
  BY DEF ExpiryInv, WrittenOfLife
<1>4. ASSUME NEW a \in Attempts \ hidden', NEW x \in Copies(a)',
             x.life # "absent", x.rv = lastRV'[a], x.exp # None
      PROVE  a \in expiresAtWritten' /\ rec'[a].exp = x.exp
  <2>1. x.rv # None /\ lastRV'[a] = lastRV[a] /\ a \notin hidden
    BY <1>1, <1>4, NoneAssumption DEF CopiesDistinct
  <2>2. x \in Copies(a)
    <3>1. CASE Keeps(a)
      BY <1>4, <3>1 DEF Keeps, Absent
    <3>2. CASE Grows(a)
      BY <1>4, <2>1, <3>2 DEF Grows
    <3> QED  BY <3>1, <3>2
  <2> QED  BY <1>4, <2>1, <2>2 DEF ExpiryInv, ExpirySynced
<1>5. ExpirySynced'
  BY <1>4 DEF ExpirySynced
<1> QED  BY <1>1, <1>2, <1>3, <1>5 DEF ExpiryInv

\* Of the records, the steps left to say something about are those that write an
\* expiry somewhere: only on records nothing was written of.
LEMMA RecordsExpiry ==
  ASSUME ExpiryInv, UNCHANGED <<clusterVars, upVars>>,
         expiresAtWritten \subseteq Attempts,
         \A a \in Attempts : rec[a].life # "unused" =>
           rec'[a].exp = rec[a].exp /\ rec'[a].life # "unused"
  PROVE  ExpiryInv'
<1>1. UNCHANGED <<env, watch, seen, lastRV, expiresAtWritten, hidden>>
  BY DEF clusterVars, upVars
<1>2. EventsSound' /\ \A a \in Attempts : OneLife(a)'
  BY <1>1 DEF ExpiryInv, EventsSound, OneLife, Tells, Ends, Unbroken, Exists
<1>3. \A a \in Attempts : Keeps(a)
  BY <1>1, StillKeeps
<1>4. \A a \in Attempts : \A x \in Copies(a)' : x \in Copies(a)
  BY <1>1 DEF Copies
<1> QED  BY <1>1, <1>2, <1>3, <1>4, ExpiryStep DEF ExpiryInv, WrittenOfLife

\* One more version of an object, or the first.
LEMMA WriteExpiry ==
  ASSUME ClusterTypeOK, ExpiryInv, expiresAtWritten \subseteq Attempts,
         NEW a \in Attempts, NEW o \in Objects, NEW inUse, Write(a, o, inUse),
         o.life # "absent", Exists(a) => o.born = env[a].born, o.exp \in {None, o.born},
         UNCHANGED <<rec, upVars>>
  PROVE  ExpiryInv'
<1> DEFINE n == [o EXCEPT !.rv = Fresh(a, inUse)]
<1>1. Fresh(a, inUse) \in Versions
  BY DEF Write, Fresh, Unused
<1>2. /\ n \in Objects /\ n.life # "absent" /\ n.exp \in {None, n.born}
      /\ Exists(a) => n.born = env[a].born
  BY <1>1 DEF Objects
<1>3. /\ env' = [env EXCEPT ![a] = n]
      /\ UNCHANGED <<seen, lastRV, rec, expiresAtWritten, hidden>>
      /\ watch' = Append(watch, [id |-> a, kind |-> "set", obj |-> n])
  BY DEF Write, upVars
<1> HIDE DEF n
<1>4. EventsSound' /\ \A b \in Attempts : OneLife(b)'
  BY <1>2, <1>3, AppendLife DEF ExpiryInv
<1>5. \A b \in Attempts : Keeps(b) \/ Grows(b)
  BY WriteGrows
<1>6. \A b \in Attempts : \A x \in Copies(b)' : x \in Copies(b) \/ x.exp \in {None, x.born}
  <2>1. /\ \A b \in Attempts \ {a} : Keeps(b)
        /\ \A x \in Copies(a)' : x \in Copies(a) \/ x = n
    BY <1>2, <1>3, AppendCopies
  <2> QED  BY <1>2, <2>1 DEF Keeps, Absent
<1> QED  BY <1>3, <1>4, <1>5, <1>6, ExpiryStep DEF ExpiryInv, WrittenOfLife

\* An object that goes.
LEMMA DropExpiry ==
  ASSUME ClusterTypeOK, ExpiryInv, expiresAtWritten \subseteq Attempts,
         NEW a \in Attempts, Drop(a), UNCHANGED <<rec, upVars>>
  PROVE  ExpiryInv'
<1>1. /\ env' = [env EXCEPT ![a] = Absent]
      /\ UNCHANGED <<seen, lastRV, rec, expiresAtWritten, hidden>>
      /\ watch' = Append(watch, [id |-> a, kind |-> "del", obj |-> Absent])
      /\ Absent.life = "absent" /\ Absent.exp = None
  BY DEF Drop, Absent, upVars
<1>2. EventsSound' /\ \A b \in Attempts : OneLife(b)'
  BY <1>1, AbsentType, AppendLife DEF ExpiryInv
<1>3. \A b \in Attempts : Keeps(b)
  BY DropKeeps
<1>4. \A b \in Attempts : \A x \in Copies(b)' : x \in Copies(b) \/ x.exp \in {None, x.born}
  BY <1>1, <1>3 DEF Keeps
<1> QED  BY <1>1, <1>2, <1>3, <1>4, ExpiryStep DEF ExpiryInv, WrittenOfLife

\* Deletes and applies.
LEMMA DeleteExpiry ==
  ASSUME ClusterTypeOK, ExpiryInv, expiresAtWritten \subseteq Attempts,
         NEW a \in Attempts, NEW inUse, Delete(a, inUse) \/ Apply(a, inUse),
         UNCHANGED <<rec, upVars>>
  PROVE  ExpiryInv'
<1>1. CASE UNCHANGED clusterVars
  BY <1>1, RecordsExpiry
<1>2. CASE Drop(a)
  BY <1>2, DropExpiry
<1>3. CASE env[a].life = "live" /\ Write(a, [env[a] EXCEPT !.life = "deleting"], inUse)
  <2> DEFINE o == [env[a] EXCEPT !.life = "deleting"]
  <2>1. o \in Objects /\ o.life # "absent" /\ o.born = env[a].born /\ o.exp = env[a].exp
    BY DEF ClusterTypeOK, Objects
  <2>2. env[a].exp \in {None, env[a].born}
    BY DEF ExpiryInv, ExpiryOfLife, Copies
  <2> HIDE DEF o
  <2> QED  BY <1>3, <2>1, <2>2, WriteExpiry DEF o
<1>4. CASE Apply(a, inUse) /\ ~Exists(a)
  <2> DEFINE o == [Absent EXCEPT !.life = "live", !.born = Fresh(a, inUse)]
  <2>1. Unused(a, inUse) # {} /\ Write(a, o, inUse)
    BY <1>4 DEF Apply
  <2>2. Fresh(a, inUse) \in Versions
    BY <2>1 DEF Fresh, Unused
  <2>3. o \in Objects /\ o.life # "absent" /\ o.exp = None
    BY <2>2 DEF Absent, Objects, Phases
  <2> HIDE DEF o
  <2> QED  BY <1>4, <2>1, <2>3, WriteExpiry
<1> QED  BY <1>1, <1>2, <1>3, <1>4 DEF Delete, Apply

\* The operator: the status it writes carries the expiry of the object's life.
LEMMA OperatorExpiry ==
  ASSUME ClusterTypeOK, ExpiryInv, expiresAtWritten \subseteq Attempts,
         NEW a \in Attempts, NEW inUse, OperatorNext(a, inUse),
         UNCHANGED <<rec, upVars>>
  PROVE  ExpiryInv'
<1>0. env[a] \in Objects /\ env[a].exp \in {None, env[a].born}
  BY DEF ClusterTypeOK, ExpiryInv, ExpiryOfLife, Copies
<1>1. ASSUME NEW p \in PodPhases, Report(a, p, inUse) PROVE ExpiryInv'
  <2> DEFINE o == [env[a] EXCEPT !.phase = p, !.exp = env[a].born]
  <2>1. /\ o \in Objects /\ o.life # "absent" /\ o.born = env[a].born /\ o.exp = o.born
        /\ Write(a, o, inUse)
    BY <1>0, <1>1, LabClusterAssumption DEF Report, Objects, Phases
  <2> HIDE DEF o
  <2> QED  BY <2>1, WriteExpiry
<1>2. CASE ReportTerminating(a, inUse)
  <2> DEFINE o == [env[a] EXCEPT !.phase = "Terminating"]
  <2>1. /\ o \in Objects /\ o.life # "absent" /\ o.born = env[a].born /\ o.exp = env[a].exp
        /\ Write(a, o, inUse)
    BY <1>0, <1>2 DEF ReportTerminating, Objects, Phases
  <2> HIDE DEF o
  <2> QED  BY <1>0, <2>1, WriteExpiry
<1>3. CASE Expire(a, inUse)
  BY <1>3, DeleteExpiry DEF Expire
<1>4. CASE Finalize(a)
  BY <1>4, DropExpiry DEF Finalize
<1> QED  BY <1>1, <1>2, <1>3, <1>4 DEF OperatorNext, ReportFirst, ReportChange

\* Upstream writes the expiry of the life it is told of, unless it has.
LEMMA ReconcileExpiry ==
  ASSUME TypeOK, ExpiryInv, NEW a \in Attempts, NEW o \in Copies(a), o.life # "absent",
         ReconcileLabEnv(a, o),
         EventsSound', \A b \in Attempts : OneLife(b)', \A b \in Attempts : Keeps(b),
         seen' = [seen EXCEPT ![a] = o], UNCHANGED hidden,
         a \notin hidden /\ seen[a].life # "absent" => o.born = seen[a].born
  PROVE  ExpiryInv'
<1> USE DEF TypeOK
<1>0. /\ expiresAtWritten \subseteq Attempts
      /\ seen'[a] = o /\ \A b \in Attempts \ {a} : seen'[b] = seen[b]
  BY DEF UpTypeOK, ClusterTypeOK
<1>1. \A b \in Attempts : \A x \in Copies(b)' : x \in Copies(b) \/ x.exp \in {None, x.born}
  BY DEF Keeps, Absent
<1>2. CASE UNCHANGED <<rec, lastRV, expiresAtWritten>>
  BY <1>0, <1>1, <1>2, ExpiryStep DEF ExpiryInv, WrittenOfLife
<1>3. CASE /\ PatchOK(a, Synced(a, o)) /\ lastRV' = [lastRV EXCEPT ![a] = o.rv]
           /\ expiresAtWritten' =
                IF o.exp # None THEN expiresAtWritten \cup {a} ELSE expiresAtWritten
  <2>1. rec' = [rec EXCEPT ![a] = Synced(a, o)] /\ rec[a].life = "live"
    BY <1>3 DEF PatchOK, Save, Live
  <2>2. /\ rec'[a] = Synced(a, o) /\ lastRV'[a] = o.rv
        /\ \A b \in Attempts \ {a} : rec'[b] = rec[b] /\ lastRV'[b] = lastRV[b]
    BY <1>3, <2>1 DEF PBTypeOK, ClusterTypeOK
  <2>3. /\ rec'[a].life = "live"
        /\ rec'[a].exp = IF a \notin expiresAtWritten /\ o.exp # None THEN o.exp ELSE rec[a].exp
    BY <2>1, <2>2 DEF Synced, PBTypeOK, Records
  <2>4. o.exp \in {None, o.born}
    BY DEF ExpiryInv, ExpiryOfLife
  <2>5. a \in expiresAtWritten \ hidden => rec[a].exp = o.born
    BY DEF ExpiryInv, WrittenOfLife
  <2>6. CopiesDistinct'
    BY DistinctStep DEF ExpiryInv
  <2>7. ExpiryOfLife'
    BY <1>1 DEF ExpiryInv, ExpiryOfLife
  <2>8. WrittenOfLife'
    BY <1>0, <1>3, <2>2, <2>3, <2>4, <2>5 DEF ExpiryInv, WrittenOfLife
  <2>9. ASSUME NEW b \in Attempts \ hidden, NEW x \in Copies(b)',
               x.life # "absent", x.rv = lastRV'[b], x.exp # None
        PROVE  b \in expiresAtWritten' /\ rec'[b].exp = x.exp
    <3>1. x \in Copies(b)
      BY <2>9 DEF Keeps, Absent
    <3>2. CASE b = a
      <4>1. x = o
        BY <2>2, <2>9, <3>1, <3>2 DEF ExpiryInv, CopiesDistinct
      <4> QED  BY <1>3, <2>3, <2>4, <2>5, <2>9, <3>2, <4>1
    <3>3. CASE b # a
      BY <1>3, <2>2, <2>9, <3>1, <3>3 DEF ExpiryInv, ExpirySynced
    <3> QED  BY <3>2, <3>3
  <2>10. ExpirySynced'
    BY <2>9 DEF ExpirySynced
  <2> QED  BY <2>6, <2>7, <2>8, <2>10 DEF ExpiryInv
<1> QED  BY <1>2, <1>3 DEF ReconcileLabEnv, PatchFails, pbVars

\* Upstream hears of the end of a life, and forgets what it wrote of it.
LEMMA ForgetExpiry ==
  ASSUME TypeOK, ExpiryInv, NEW a \in Attempts, ReconcileDelete(a),
         EventsSound', \A b \in Attempts : OneLife(b)', \A b \in Attempts : Keeps(b),
         \A b \in Attempts \ {a} : seen'[b] = seen[b], hidden' = hidden \ {a}
  PROVE  ExpiryInv'
<1> USE DEF TypeOK
<1> DEFINE r == [rec[a] EXCEPT !.cur = "decommissioned", !.des = "decommissioned"]
<1>1. \A b \in Attempts : \A x \in Copies(b)' : x \in Copies(b) \/ x.exp \in {None, x.born}
  BY DEF Keeps, Absent
<1>2. \A b \in Attempts \ {a} : rec'[b] = rec[b]
  <2>1. CASE PatchOK(a, r)
    BY <2>1 DEF PatchOK, Save, PBTypeOK
  <2>2. CASE PatchFails(a)
    BY <2>2 DEF PatchFails, pbVars
  <2> QED  BY <2>1, <2>2 DEF ReconcileDelete
<1>3. /\ lastRV'[a] = None /\ \A b \in Attempts \ {a} : lastRV'[b] = lastRV[b]
      /\ expiresAtWritten' = expiresAtWritten \ {a} /\ expiresAtWritten \subseteq Attempts
  BY DEF ReconcileDelete, ClusterTypeOK, UpTypeOK
<1> HIDE DEF r
<1> QED  BY <1>1, <1>2, <1>3, ExpiryStep DEF ExpiryInv, WrittenOfLife

\* A list names everything it has to tell of once.
LEMMA ListsAll ==
  ASSUME NEW S \in SUBSET Attempts, NEW s \in Orderings(S)
  PROVE  \A a \in S : \E i \in DOMAIN s : s[i] = a
<1>1. IsFiniteSet(S) /\ Cardinality(S) \in Nat
  BY FiniteAssumption, FS_Subset, FS_CardinalityType
<1>2. Cardinality(1 .. Cardinality(S)) = Cardinality(S)
  BY <1>1, FS_Interval
<1>3. s \in Injection(1 .. Cardinality(S), S)
  BY DEF Orderings, Injection, IsInjective
<1>4. s \in Surjection(1 .. Cardinality(S), S)
  BY <1>1, <1>2, <1>3, FS_Injection
<1> QED  BY <1>4 DEF Surjection

\* The informer lists again: of the lives it does not know it shows the last, and
\* hides that another came before.
LEMMA RelistExpiry ==
  ASSUME TypeOK, ExpiryInv, WatchBreak
  PROVE  ExpiryInv'
<1> USE DEF TypeOK
<1> DEFINE gone == {a \in Attempts : ~Exists(a) /\ seen[a].life # "absent"}
           all  == gone \cup {a \in Attempts : Exists(a)}
           event(a) == [id |-> a, kind |-> IF a \in gone THEN "del" ELSE "set", obj |-> env[a]]
<1>1. PICK s \in Orderings(all) : watch' = [i \in DOMAIN s |-> event(s[i])]
  BY DEF WatchBreak, Relist
<1>2. /\ all \in SUBSET Attempts /\ \A i \in DOMAIN s : s[i] \in all
      /\ DOMAIN watch' = DOMAIN s /\ DOMAIN s = 1 .. Cardinality(all)
  BY <1>1 DEF Orderings
<1>3. /\ UNCHANGED <<env, rec, seen, lastRV, expiresAtWritten>>
      /\ hidden' = hidden \cup Replaced
  BY DEF WatchBreak, pbVars
<1>4. \A i \in DOMAIN watch' :
        /\ watch'[i].obj = env[watch'[i].id]
        /\ watch'[i].kind = "set" <=> Exists(watch'[i].id)
  BY <1>1, <1>2
<1>5. EventsSound'
  BY <1>4 DEF EventsSound, Exists
<1>6. ASSUME NEW a \in Attempts, a \notin hidden', seen[a].life # "absent", Exists(a)
      PROVE  env[a].born = seen[a].born
  BY <1>3, <1>6 DEF Replaced
<1>7. ASSUME NEW a \in gone
      PROVE  ~Unbroken(a, 0, Len(watch) + 1)'
  <2>1. PICK i \in DOMAIN s : s[i] = a
    <3>1. a \in all /\ all \in SUBSET Attempts /\ s \in Orderings(all)
      BY <1>1, <1>2, <1>7
    <3> HIDE DEF gone, all
    <3> QED  BY ListsAll, <3>1
  <2>2. Ends(a, i)' /\ i \in DOMAIN watch'
    BY <1>1, <1>2, <2>1 DEF Ends
  <2>3. 0 < i /\ i < Len(watch') + 1
    <3>1. watch' \in Seq(WatchEvents)
      BY RelistType DEF WatchBreak
    <3> QED  BY <2>2, <3>1
  <2> QED  BY <2>2, <2>3 DEF Unbroken
<1>8. ASSUME NEW a \in Attempts PROVE OneLife(a)'
  <2>1. \A i : Tells(a, i)' => watch'[i].obj = env[a] /\ Exists(a)
    BY <1>4 DEF Tells
  <2>2. a \notin hidden' /\ seen[a].life # "absent" /\ Unbroken(a, 0, Len(watch) + 1)'
          => Exists(a) /\ env[a].born = seen[a].born
    <3>1. a \in gone <=> ~Exists(a) /\ seen[a].life # "absent"
      OBVIOUS
    <3> HIDE DEF gone
    <3> QED  BY <1>6, <1>7, <3>1
  <2> QED  BY <1>3, <1>6, <2>1, <2>2 DEF OneLife, Exists
<1>9. \A a \in Attempts : Keeps(a)
  BY <1>3, RelistKeeps DEF WatchBreak
<1>10. \A a \in Attempts : \A x \in Copies(a)' : x \in Copies(a) \/ x.exp \in {None, x.born}
  BY <1>9 DEF Keeps, Absent
<1>11. expiresAtWritten \subseteq Attempts
  BY DEF UpTypeOK
<1> QED  BY <1>3, <1>5, <1>8, <1>9, <1>10, <1>11, ExpiryStep DEF ExpiryInv, WrittenOfLife

\* The informer's goroutine.
LEMMA UpNextExpiry ==
  ASSUME TypeOK, ExpiryInv, UpNext
  PROVE  ExpiryInv'
<1> USE DEF TypeOK
<1>1. CASE Deliver
  <2> DEFINE ev == Head(watch)
  <2>1. /\ watch \in Seq(WatchEvents) /\ watch # <<>> /\ watch' = Tail(watch) /\ UNCHANGED env
        /\ seen' = [seen EXCEPT ![ev.id] = ev.obj]
    BY <1>1 DEF Deliver, ClusterTypeOK
  <2>2. ev = watch[1] /\ 1 \in DOMAIN watch /\ ev \in WatchEvents
    BY <2>1
  <2>3. ev.id \in Attempts /\ ev.obj \in Copies(ev.id)
        /\ (ev.kind = "set" <=> ev.obj.life # "absent")
    BY <2>2 DEF WatchEvents, Copies, ExpiryInv, EventsSound
  <2>0. hidden' = IF ev.kind = "set" THEN hidden ELSE hidden \ {ev.id}
    BY <1>1 DEF Deliver
  <2>4. /\ EventsSound' /\ \A b \in Attempts : OneLife(b)'
        /\ \A b \in Attempts \ hidden :
             seen[b].life # "absent" /\ seen'[b].life # "absent"
               => seen'[b].born = seen[b].born
    BY <2>0, <2>1, TakeLife DEF ExpiryInv
  <2>5. \A b \in Attempts : Keeps(b)
    BY <1>1, DeliverKeeps
  <2>6. seen'[ev.id] = ev.obj /\ \A b \in Attempts \ {ev.id} : seen'[b] = seen[b]
    BY <2>1, <2>3 DEF ClusterTypeOK
  <2>7. \/ ev.kind = "set" /\ ReconcileLabEnv(ev.id, ev.obj) /\ UNCHANGED hidden
        \/ ReconcileDelete(ev.id) /\ hidden' = hidden \ {ev.id}
    BY <1>1 DEF Deliver
  <2> HIDE DEF ev
  <2> QED  BY <2>1, <2>3, <2>4, <2>5, <2>6, <2>7, ReconcileExpiry, ForgetExpiry
<1>2. ASSUME NEW a \in Attempts, Redeliver(a) PROVE ExpiryInv'
  <2>1. /\ seen[a] \in Copies(a) /\ seen[a].life # "absent" /\ ReconcileLabEnv(a, seen[a])
        /\ UNCHANGED <<env, watch, seen, hidden>>
    BY <1>2 DEF Redeliver, Copies
  <2>2. EventsSound' /\ \A b \in Attempts : OneLife(b)'
    BY <2>1 DEF ExpiryInv, EventsSound, OneLife, Tells, Ends, Unbroken, Exists
  <2>3. seen' = [seen EXCEPT ![a] = seen[a]]
    BY <2>1 DEF ClusterTypeOK
  <2> QED  BY <2>1, <2>2, <2>3, StillKeeps, ReconcileExpiry
<1> QED  BY <1>1, <1>2, RelistExpiry DEF UpNext

\* A controller that has just started knows nothing, and is told of what there is.
LEMMA RestartExpiry ==
  ASSUME TypeOK, ExpiryInv, Restart
  PROVE  ExpiryInv'
<1> USE DEF TypeOK
<1> DEFINE c == [a \in Attempts |-> Absent]
           gone == {a \in Attempts : ~Exists(a) /\ c[a].life # "absent"}
           all  == gone \cup {a \in Attempts : Exists(a)}
           event(a) == [id |-> a, kind |-> IF a \in gone THEN "del" ELSE "set", obj |-> env[a]]
<1>1. PICK s \in Orderings(all) : watch' = [i \in DOMAIN s |-> event(s[i])]
  BY DEF Restart, Relist
<1>2. gone = {} /\ \A i \in DOMAIN s : s[i] \in Attempts /\ Exists(s[i])
  BY <1>1 DEF Orderings, Absent
<1>3. \A i \in DOMAIN watch' :
        /\ watch'[i].kind = "set" /\ watch'[i].obj = env[watch'[i].id]
        /\ watch'[i].obj.life # "absent"
  BY <1>1, <1>2 DEF Exists
<1>4. UNCHANGED <<env, rec>> /\ expiresAtWritten' = {} /\ hidden' = {}
      /\ \A a \in Attempts : seen'[a] = Absent /\ lastRV'[a] = None
  BY DEF Restart
<1>5. EventsSound'
  BY <1>3 DEF EventsSound
<1>6. \A a \in Attempts : OneLife(a)'
  BY <1>3, <1>4 DEF OneLife, Tells, Exists, Absent
<1>7. \A a \in Attempts : Keeps(a)
  BY <1>4, RelistKeeps DEF Restart
<1>8. \A a \in Attempts : \A x \in Copies(a)' : x \in Copies(a) \/ x.exp \in {None, x.born}
  BY <1>7 DEF Keeps, Absent
<1> QED  BY <1>4, <1>5, <1>6, <1>7, <1>8, ExpiryStep

\* Downstream writes no expiry, and so do owners and superusers.
LEMMA OthersExpiry ==
  ASSUME TypeOK, ExpiryInv, UNCHANGED upVars,
         DownNext \/ (PBNext /\ UNCHANGED clusterVars)
  PROVE  ExpiryInv'
<1> USE DEF TypeOK
<1>0. expiresAtWritten \subseteq Attempts
  BY DEF UpTypeOK
<1>1. CASE UNCHANGED <<rec, clusterVars>>
  BY <1>0, <1>1, RecordsExpiry
<1>2. ASSUME NEW a \in Attempts, NEW r, Save(a, r), UNCHANGED clusterVars,
             rec[a].life # "unused" => r.exp = rec[a].exp /\ r.life # "unused"
      PROVE  ExpiryInv'
  <2>1. rec'[a] = r /\ \A b \in Attempts \ {a} : rec'[b] = rec[b]
    BY <1>2 DEF Save, PBTypeOK
  <2> QED  BY <1>0, <1>2, <2>1, RecordsExpiry
<1>3. CASE PBNext /\ UNCHANGED clusterVars
  <2>1. ASSUME NEW u \in Users, NEW a \in Attempts, SaveCreate(u, a) PROVE ExpiryInv'
    BY <1>2, <1>3, <2>1 DEF SaveCreate
  <2>2. ASSUME NEW a \in Attempts, NEW d \in UserDesired, OwnerUpdate(a, d) PROVE ExpiryInv'
    <3> DEFINE r == [rec[a] EXCEPT !.des = d]
    <3>1. Save(a, r) /\ r.exp = rec[a].exp /\ r.life = rec[a].life
      BY <2>2 DEF OwnerUpdate, PBTypeOK, Records
    <3> HIDE DEF r
    <3> QED  BY <1>2, <1>3, <3>1
  <2>3. ASSUME NEW a \in Attempts, Erase(a) PROVE ExpiryInv'
    <3> DEFINE r == [rec[a] EXCEPT !.life = "erased"]
    <3>1. Save(a, r) /\ r.exp = rec[a].exp /\ r.life = "erased"
      BY <2>3 DEF Erase, PBTypeOK, Records
    <3> HIDE DEF r
    <3> QED  BY <1>2, <1>3, <3>1
  <2> QED  BY <1>1, <1>3, <2>1, <2>2, <2>3 DEF PBNext, CheckCreate, StreamBreak
<1>4. ASSUME NEW t \in Threads, Reconcile(t) PROVE ExpiryInv'
  <2> DEFINE a == Head(todo[t]).id
  <2>1. a \in Attempts
    <3>1. todo[t] \in Seq(Items) /\ todo[t] # <<>>
      BY <1>4 DEF Reconcile, DownTypeOK
    <3>2. Head(todo[t]) \in Items
      BY <3>1, TailType
    <3> QED  BY <3>2 DEF Items
  <2>2. UNCHANGED rec
    BY <1>4 DEF Reconcile, pbVars
  <2>3. UNCHANGED clusterVars \/ Delete(a, InUse(a)) \/ Apply(a, InUse(a))
    BY <1>4 DEF Reconcile
  <2> HIDE DEF a
  <2> QED  BY <1>0, <1>1, <2>1, <2>2, <2>3, DeleteExpiry
<1>5. ASSUME NEW t \in Threads, MarkDecommissioned(t) PROVE ExpiryInv'
  <2> DEFINE a == mark[t]
             r == [rec[a] EXCEPT !.cur = "decommissioned"]
  <2>1. a \in Attempts /\ UNCHANGED clusterVars /\ (PatchOK(a, r) \/ PatchFails(a))
    BY <1>5 DEF MarkDecommissioned, DownTypeOK
  <2>2. r.exp = rec[a].exp /\ r.life = rec[a].life
    BY <2>1 DEF PBTypeOK, Records
  <2> HIDE DEF a, r
  <2> QED  BY <1>1, <1>2, <2>1, <2>2 DEF PatchOK, PatchFails, pbVars
<1>6. TickResync \/ Subscribe \/ ConnectResync \/ HandleEvent => UNCHANGED <<rec, clusterVars>>
  BY DEF TickResync, Subscribe, ConnectResync, HandleEvent, Resync, pbVars
<1> QED  BY <1>1, <1>3, <1>4, <1>5, <1>6 DEF DownNext

\* No copy but Absent, and nothing written.
LEMMA InitExpiry == Init => ExpiryInv
<1> SUFFICES ASSUME Init PROVE ExpiryInv
  OBVIOUS
<1>1. \A a \in Attempts : Copies(a) = {Absent} /\ seen[a] = Absent
  BY DEF Init, ClusterInit, Copies
<1>2. DOMAIN watch = {} /\ expiresAtWritten = {}
  BY DEF Init, ClusterInit, UpInit
<1> QED  BY <1>1, <1>2 DEF ExpiryInv, CopiesDistinct, EventsSound, OneLife, ExpiryOfLife,
                           WrittenOfLife, ExpirySynced, Absent

\* Every step.
LEMMA NextExpiry ==
  ASSUME TypeOK, ExpiryInv, [Next]_vars
  PROVE  ExpiryInv'
<1>0. expiresAtWritten \subseteq Attempts /\ ClusterTypeOK
  BY DEF TypeOK, UpTypeOK
<1>1. CASE PBNext /\ UNCHANGED <<clusterVars, downVars, upVars>>
  BY <1>1, OthersExpiry
<1>2. CASE Down(DownNext)
  BY <1>2, OthersExpiry DEF Down
<1>3. CASE Up(UpNext)
  BY <1>3, UpNextExpiry DEF Up
<1>4. ASSUME NEW a \in Attempts, Operator(OperatorNext(a, InUse(a))) PROVE ExpiryInv'
  BY <1>0, <1>4, OperatorExpiry DEF Operator, pbVars
<1>5. CASE Restart
  BY <1>5, RestartExpiry
<1>6. CASE UNCHANGED vars
  BY <1>0, <1>6, RecordsExpiry DEF vars, pbVars
<1> QED  BY <1>1, <1>2, <1>3, <1>4, <1>5, <1>6 DEF Next

\* The expires_at a user's timer counts down to is that of the LabEnvironment there
\* is, through restarts, failed PATCHes and whatever owners write, until a re-list
\* shows one object in place of another (expiresAtWritten, ReconcileLabEnv and
\* ReconcileDelete).
THEOREM SyncedExpiryMatchesHolds == Spec => []SyncedExpiryMatches
<1>1. ExpiryInv => SyncedExpiryMatches
  BY DEF ExpiryInv, ExpirySynced, SyncedExpiryMatches, Copies, Exists
<1>2. TypeOK /\ ExpiryInv /\ [Next]_vars => ExpiryInv'
  BY NextExpiry
<1> QED  BY <1>1, <1>2, InitExpiry, TypeCorrect, PTL DEF Spec
=============================================================================
