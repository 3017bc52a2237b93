----------------------- MODULE LabEnvOperator_proofs ------------------------
(***************************************************************************)
(* For any assets and any bounds, however far each cache is behind: type   *)
(* correctness; that an expiry is not carried out on a later life; in what *)
(* one way a namespace loses its finalizer; what an environment with a     *)
(* status has; and that it is seen in the order of EnvLifecycle.           *)
(***************************************************************************)
EXTENDS LabEnvOperator, SequenceTheorems, TLAPS

-----------------------------------------------------------------------------
(* The helpers.                                                            *)

\* The object that is gone is an object of the type.
LEMMA GoneType == \A b \in 0..MaxBorn : Gone(b) \in Envs
BY DEF Gone, Envs

\* What a delete leaves is an object that is not live, with the finalizer it
\* had.
LEMMA DeletedType ==
  ASSUME NEW o \in Envs
  PROVE  /\ Deleted(o) \in Envs
         /\ Deleted(o).life # "live"
         /\ Deleted(o).fin = o.fin
<1>1. CASE o.life = "live" /\ o.fin
  <2>1. Deleted(o) = [o EXCEPT !.life = "deleting"]
    BY <1>1 DEF Deleted
  <2> QED  BY <1>1, <2>1 DEF Envs
<1>2. CASE o.life = "live" /\ ~o.fin
  <2>1. Deleted(o) = Gone(o.born)
    BY <1>2 DEF Deleted
  <2>2. o.born \in 0..MaxBorn
    BY DEF Envs
  <2> QED  BY <1>2, <2>1, <2>2, GoneType DEF Gone, Envs
<1>3. CASE o.life # "live"
  <2>1. Deleted(o) = o
    BY <1>3 DEF Deleted
  <2> QED  BY <1>3, <2>1
<1> QED  BY <1>1, <1>2, <1>3 DEF Envs

\* A watch only carries versions of its kind, before and after an event.
LEMMA FeedType ==
  ASSUME NEW S, NEW feed \in Seq(S)
  PROVE  /\ \A x \in S : Append(feed, x) \in Seq(S)
         /\ <<>> \in Seq(S)
         /\ feed # <<>> => Head(feed) \in S /\ Tail(feed) \in Seq(S)
OBVIOUS

\* What a write leaves on the server and on its watch.
LEMMA WriteObjType ==
  ASSUME TypeOK, NEW o \in Envs, WriteObj(o)
  PROVE  obj' \in Envs /\ objFeed' \in Seq(Envs)
<1>1. objFeed \in Seq(Envs)
  BY DEF TypeOK
<1>2. Append(objFeed, o) \in Seq(Envs)
  BY <1>1, FeedType
<1> QED  BY <1>1, <1>2 DEF WriteObj

\* A write of the pods keeps theirs.
LEMMA WritePodsType ==
  ASSUME TypeOK, NEW p \in [Assets -> PodStates], WritePods(p)
  PROVE  pods' \in [Assets -> PodStates] /\ podFeed' \in Seq([Assets -> PodStates])
<1>1. podFeed \in Seq([Assets -> PodStates])
  BY DEF TypeOK
<1>2. Append(podFeed, p) \in Seq([Assets -> PodStates])
  BY <1>1, FeedType
<1> QED  BY <1>2 DEF WritePods

\* When a pass may ask to be called again is a time of the queue.
LEMMA DueType ==
  /\ Now \in 0..Never /\ Never \in 0..Never
  /\ \A b \in 0..MaxBorn : b \in 0..Never
  /\ \A s, t \in 0..Never : Sooner(s, t) \in 0..Never
BY LabEnvOperatorAssumption DEF Now, Never, Sooner

\* The end of a pass leaves the queue and the pass well typed.
LEMMA EndPassType ==
  ASSUME TypeOK, NEW t \in 0..Never, EndPass(t)
  PROVE  /\ pc' \in Steps /\ env' \in Envs /\ fresh' \in BOOLEAN
         /\ todo' \subseteq Assets /\ up' \subseteq Assets /\ skipped' \subseteq Parts
         /\ due' \in 0..Never
<1>1. Gone(0) \in Envs
  BY GoneType, LabEnvOperatorAssumption
<1>2. Sooner(t, due) \in 0..Never
  BY DueType DEF TypeOK
<1> QED  BY <1>1, <1>2 DEF EndPass, Steps

\* So does a pass that ends with an error.
LEMMA RetryType ==
  ASSUME TypeOK, Retry
  PROVE  TypeOK'
<1>1. Now \in 0..Never
  BY DueType
<1>2. EndPass(Now)
  BY DEF Retry
<1> QED  BY <1>1, <1>2, EndPassType DEF Retry, TypeOK, cluster, feeds, caches, blame, bounds

\* A namespace without pods is well typed.
LEMMA NoPodsType == NoPods \in [Assets -> PodStates]
BY DEF NoPods, PodStates

\* The overall status is one of the phases of status.phase.
LEMMA PhaseOfType == \A r : PhaseOf(r) \in PodPhases
BY DEF PhaseOf, PodPhases

-----------------------------------------------------------------------------
(* Type correctness.                                                       *)

\* The world before the first object is well typed.
LEMMA InitType == Init => TypeOK
<1>1. Gone(0) \in Envs /\ 0 \in 0..MaxBorn
  BY GoneType, LabEnvOperatorAssumption
<1>2. Never \in 0..Never
  BY DueType
<1>3. <<>> \in Seq(Envs) /\ <<>> \in Seq([Assets -> PodStates])
  BY FeedType
<1> SUFFICES ASSUME Init PROVE TypeOK
  OBVIOUS
<1>4. /\ obj \in Envs /\ cObj \in Envs /\ env \in Envs /\ objFeed \in Seq(Envs)
      /\ ns \in Namespaces /\ cNs \in Namespaces
  BY <1>1, <1>3 DEF Init, Namespaces
<1>5. /\ pods \in [Assets -> PodStates] /\ cPods \in [Assets -> PodStates]
      /\ podFeed \in Seq([Assets -> PodStates])
  BY <1>3, NoPodsType DEF Init
<1>6. 0 \in 0..MaxFlips /\ 0 \in 0..MaxFaults
  BY LabEnvOperatorAssumption
<1>7. expired \in 0..MaxBorn /\ due \in 0..Never /\ flips \in 0..MaxFlips /\ faults \in 0..MaxFaults
  BY <1>1, <1>2, <1>6 DEF Init
<1>8. /\ made \subseteq Parts /\ cMade \subseteq LaggingParts
      /\ skipped \subseteq Parts /\ excused \subseteq Parts /\ misread \in BOOLEAN
      /\ todo \subseteq Assets /\ up \subseteq Assets /\ pc \in Steps /\ fresh \in BOOLEAN
  BY DEF Init, Steps
<1> QED  BY <1>4, <1>5, <1>7, <1>8 DEF TypeOK

\* The first steps of reconcileCreate, up to the expiry, keep the types.
LEMMA PassType ==
  ASSUME TypeOK,
         Take \/ EnsureFinalizer \/ EnsureNamespace \/ CheckExpiry
  PROVE  TypeOK'
<1> USE DEF cluster, feeds, caches, blame, bounds, pass
<1>1. CASE Take
  <2>1. Never \in 0..Never
    BY DueType
  <2>2. CASE UNCHANGED pass
    BY <1>1, <2>1, <2>2 DEF Take, TypeOK
  <2>3. CASE /\ pc' = IF cObj.life = "live" THEN "finalizer" ELSE "cleanup"
             /\ env' = cObj
             /\ fresh' = (objFeed = <<>>)
             /\ UNCHANGED <<todo, up, skipped>>
    BY <1>1, <2>1, <2>3 DEF Take, TypeOK, Steps
  <2> QED  BY <1>1, <2>2, <2>3 DEF Take
<1>2. CASE EnsureFinalizer
  <2>1. CASE Retry
    BY <2>1, RetryType
  <2>2. CASE fresh \/ env.fin
    <3>1. [obj EXCEPT !.fin = TRUE] \in Envs /\ [env EXCEPT !.fin = TRUE] \in Envs
      BY DEF TypeOK, Envs
    <3>2. obj' \in Envs /\ objFeed' \in Seq(Envs)
      BY <1>2, <2>2, <3>1, WriteObjType DEF EnsureFinalizer, TypeOK
    <3> QED  BY <1>2, <2>2, <3>1, <3>2 DEF EnsureFinalizer, Goto, Steps, TypeOK
  <2> QED  BY <1>2, <2>1, <2>2 DEF EnsureFinalizer
<1>3. CASE EnsureNamespace
  <2>1. ns' \in Namespaces
    BY <1>3 DEF EnsureNamespace, Namespaces, TypeOK
  <2> QED  BY <1>3, <2>1 DEF EnsureNamespace, Goto, Steps, TypeOK
<1>4. CASE CheckExpiry
  <2>1. CASE env.born <= expired
    <3>1. obj' \in Envs /\ objFeed' \in Seq(Envs)
      <4>1. Deleted(obj) \in Envs
        BY DeletedType DEF TypeOK
      <4> QED  BY <1>4, <2>1, <4>1, WriteObjType DEF CheckExpiry
    <3>2. Never \in 0..Never /\ EndPass(Never)
      BY <1>4, <2>1, DueType DEF CheckExpiry
    <3> QED  BY <1>4, <3>1, <3>2, EndPassType DEF CheckExpiry, TypeOK
  <2>2. CASE ~(env.born <= expired)
    BY <1>4, <2>2 DEF CheckExpiry, Goto, Steps, Parts, TypeOK
  <2> QED  BY <2>1, <2>2
<1> QED  BY <1>1, <1>2, <1>3, <1>4

\* Provisioning a part of the namespace keeps them.
LEMMA ProvisionType ==
  ASSUME TypeOK, NEW part \in Parts, NEW next \in Steps, Provision(part, next)
  PROVE  TypeOK'
<1>1. CASE Retry
  BY <1>1, RetryType
<1>2. CASE ~Retry
  <2>1. /\ made' \in {made, made \cup {part}}
        /\ skipped' \in {skipped, skipped \cup {part}}
        /\ Goto(next)
        /\ todo' = IF next = "pods" THEN Assets ELSE {}
        /\ UNCHANGED <<obj, ns, pods, expired, feeds, caches, env, fresh, up, blame, bounds>>
    BY <1>2 DEF Provision
  <2>2. made' \subseteq Parts /\ skipped' \subseteq Parts
    BY <2>1 DEF TypeOK
  <2> QED  BY <2>1, <2>2 DEF Goto, TypeOK, feeds, caches, blame, bounds
<1> QED  BY <1>1, <1>2

\* So does the loop over the assets.
LEMMA EnsurePodType ==
  ASSUME TypeOK, EnsurePod
  PROVE  TypeOK'
<1> USE DEF cluster, feeds, caches, blame, bounds, pass
<1>1. CASE Retry
  BY <1>1, RetryType
<1>2. CASE todo = {} /\ Goto("status")
           /\ UNCHANGED <<obj, cluster, feeds, caches, env, fresh, todo, up, skipped, blame,
                        bounds>>
  BY <1>2 DEF Goto, Steps, TypeOK
<1>3. ASSUME NEW a \in todo,
             Goto("pods"),
             todo' = todo \ {a},
             up' = IF cPods[a] = "ready" THEN up \cup {a} ELSE up,
             IF cPods[a] = "absent" THEN WritePods([pods EXCEPT ![a] = "unready"])
                                    ELSE UNCHANGED <<pods, podFeed>>,
             UNCHANGED <<obj, ns, made, expired, objFeed, caches, env, fresh, skipped, blame,
                         bounds>>
      PROVE  TypeOK'
  <2>1. [pods EXCEPT ![a] = "unready"] \in [Assets -> PodStates]
    BY DEF TypeOK, PodStates
  <2>2. pods' \in [Assets -> PodStates] /\ podFeed' \in Seq([Assets -> PodStates])
    BY <1>3, <2>1, WritePodsType DEF TypeOK
  <2>3. a \in Assets
    BY DEF TypeOK
  <2> QED  BY <1>3, <2>2, <2>3 DEF Goto, Steps, TypeOK
<1> QED  BY <1>1, <1>2, <1>3 DEF EnsurePod

\* So do the status update and reconcileDelete.
LEMMA ReportType ==
  ASSUME TypeOK, WriteStatus \/ Cleanup \/ SetTerminating
  PROVE  TypeOK'
<1> USE DEF cluster, feeds, caches, blame, bounds, pass
<1>1. CASE Retry
  BY <1>1, RetryType
<1>2. CASE WriteStatus /\ ~Retry
  <2>1. /\ WriteObj([obj EXCEPT !.phase = PhaseOf(up), !.ready = up])
        /\ EndPass(env.born)
        /\ excused' = skipped
        /\ UNCHANGED <<cluster, podFeed, caches, misread, bounds>>
    BY <1>2 DEF WriteStatus
  <2>2. PhaseOf(up) \in PodPhases
    BY PhaseOfType
  <2>3. [obj EXCEPT !.phase = PhaseOf(up), !.ready = up] \in Envs
    BY <2>2 DEF TypeOK, Envs
  <2>4. obj' \in Envs /\ objFeed' \in Seq(Envs)
    BY <2>1, <2>3, WriteObjType
  <2>5. env.born \in 0..Never
    BY DueType DEF TypeOK, Envs
  <2> QED  BY <2>1, <2>4, <2>5, EndPassType DEF TypeOK
<1>3. CASE Cleanup /\ ~Retry
  <2>1. CASE /\ WriteObj(Gone(obj.born))
             /\ misread' = (misread \/ ns # "absent")
             /\ EndPass(Never)
             /\ UNCHANGED <<cluster, podFeed, caches, excused, bounds>>
    <3>1. Gone(obj.born) \in Envs
      BY GoneType DEF TypeOK, Envs
    <3>2. obj' \in Envs /\ objFeed' \in Seq(Envs)
      BY <2>1, <3>1, WriteObjType
    <3>3. Never \in 0..Never
      BY DueType
    <3>4. misread' \in BOOLEAN
      BY <2>1
    <3> QED  BY <2>1, <3>2, <3>3, <3>4, EndPassType DEF TypeOK
  <2>2. CASE /\ ns' \in {"terminating", ns}
             /\ Goto("terminating")
             /\ UNCHANGED <<obj, made, pods, expired, feeds, caches, env, fresh, todo, up,
                            skipped, blame, bounds>>
    <3>1. ns' \in Namespaces
      BY <2>2 DEF Namespaces, TypeOK
    <3> QED  BY <2>2, <3>1 DEF Goto, Steps, TypeOK
  <2> QED  BY <1>3, <2>1, <2>2 DEF Cleanup
<1>4. CASE SetTerminating
  <2>1. [obj EXCEPT !.phase = "Terminating"] \in Envs
    BY DEF TypeOK, Envs
  <2>2. obj' \in Envs /\ objFeed' \in Seq(Envs)
    BY <1>4, <2>1, WriteObjType DEF SetTerminating, TypeOK
  <2>3. Now \in 0..Never /\ EndPass(Now)
    BY <1>4, DueType DEF SetTerminating
  <2> QED  BY <1>4, <2>2, <2>3, EndPassType DEF SetTerminating, TypeOK
<1> QED  BY <1>1, <1>2, <1>3, <1>4

\* So do the watches, and the namespace controller.
LEMMA DeliverType ==
  ASSUME TypeOK, Deliver \/ NamespaceGone
  PROVE  TypeOK'
<1> USE DEF cluster, feeds, caches, blame, bounds, pass
<1>1. Now \in 0..Never
  BY DueType
<1>2. CASE DeliverObj
  <2>1. Head(objFeed) \in Envs /\ Tail(objFeed) \in Seq(Envs)
    BY <1>2, FeedType DEF DeliverObj, TypeOK
  <2> QED  BY <1>1, <1>2, <2>1 DEF DeliverObj, Enqueue, TypeOK
<1>3. CASE DeliverPods
  <2>1. /\ Head(podFeed) \in [Assets -> PodStates]
        /\ Tail(podFeed) \in Seq([Assets -> PodStates])
    BY <1>3, FeedType DEF DeliverPods, TypeOK
  <2> QED  BY <1>1, <1>3, <2>1 DEF DeliverPods, Enqueue, TypeOK
<1>4. CASE DeliverNs
  <2>1. cNs' \in Namespaces
    BY <1>4 DEF DeliverNs, Following, Namespaces, TypeOK
  <2> QED  BY <1>4, <2>1 DEF DeliverNs, TypeOK
<1>5. CASE \E part \in LaggingParts : DeliverPart(part)
  BY <1>5 DEF DeliverPart, TypeOK
<1>6. CASE NamespaceGone
  <2>1. pods' \in [Assets -> PodStates] /\ podFeed' \in Seq([Assets -> PodStates])
    BY <1>6, NoPodsType, WritePodsType DEF NamespaceGone, TypeOK
  <2>2. /\ ns' = "absent" /\ made' = {}
        /\ UNCHANGED <<obj, expired, objFeed, caches, due, pass, blame, bounds>>
    BY <1>6 DEF NamespaceGone
  <2> QED  BY <2>1, <2>2 DEF TypeOK, Namespaces
<1> QED  BY <1>2, <1>3, <1>4, <1>5, <1>6 DEF Deliver

\* So do owner, pods, time, faults and restarts.
LEMMA EnvironmentType ==
  ASSUME TypeOK, Environment
  PROVE  TypeOK'
<1> USE DEF cluster, feeds, caches, blame, bounds, pass
<1>1. Now \in 0..Never /\ Never \in 0..Never
  BY DueType
<1>2. CASE Apply
  <2>1. [Gone(obj.born + 1) EXCEPT !.life = "live"] \in Envs
    <3>1. obj.born + 1 \in 0..MaxBorn
      BY <1>2, LabEnvOperatorAssumption DEF Apply, TypeOK, Envs
    <3> QED  BY <3>1, GoneType DEF Envs
  <2>2. obj' \in Envs /\ objFeed' \in Seq(Envs)
    BY <1>2, <2>1, WriteObjType DEF Apply
  <2> QED  BY <1>2, <2>2 DEF Apply, TypeOK
<1>3. CASE Stop
  <2>1. Deleted(obj) \in Envs
    BY DeletedType DEF TypeOK
  <2>2. obj' \in Envs /\ objFeed' \in Seq(Envs)
    BY <1>3, <2>1, WriteObjType DEF Stop
  <2> QED  BY <1>3, <2>2 DEF Stop, TypeOK
<1>4. CASE OutliveTTL
  BY <1>4 DEF OutliveTTL, TypeOK, Envs
<1>5. CASE PodChanges
  <2>1. PICK a \in Assets, s \in PodStates : WritePods([pods EXCEPT ![a] = s])
    BY <1>5 DEF PodChanges
  <2>2. [pods EXCEPT ![a] = s] \in [Assets -> PodStates]
    BY DEF TypeOK
  <2>3. pods' \in [Assets -> PodStates] /\ podFeed' \in Seq([Assets -> PodStates])
    BY <2>1, <2>2, WritePodsType
  <2>4. flips' \in 0..MaxFlips
    BY <1>5, LabEnvOperatorAssumption DEF PodChanges, TypeOK
  <2> QED  BY <1>5, <2>3, <2>4 DEF PodChanges, TypeOK
<1>6. CASE CallFails
  <2>1. faults' \in 0..MaxFaults
    BY <1>6, LabEnvOperatorAssumption DEF CallFails, TypeOK
  <2>2. EndPass(Now)
    BY <1>6 DEF CallFails
  <2> QED  BY <1>1, <1>6, <2>1, <2>2, EndPassType DEF CallFails, TypeOK
<1>7. CASE Restart
  <2>1. faults' \in 0..MaxFaults
    BY <1>7, LabEnvOperatorAssumption DEF Restart, TypeOK
  <2>2. <<>> \in Seq(Envs) /\ <<>> \in Seq([Assets -> PodStates])
    BY FeedType
  <2>3. Gone(0) \in Envs
    BY GoneType, LabEnvOperatorAssumption
  <2> QED  BY <1>1, <1>7, <2>1, <2>2, <2>3 DEF Restart, TypeOK, Steps
<1>8. CASE Resync
  BY <1>1, <1>8 DEF Resync, Enqueue, TypeOK
<1> QED  BY <1>2, <1>3, <1>4, <1>5, <1>6, <1>7, <1>8 DEF Environment

\* Together: every step keeps the types.
LEMMA StepType == TypeOK /\ [Next]_vars => TypeOK'
<1> SUFFICES ASSUME TypeOK, [Next]_vars PROVE TypeOK'
  OBVIOUS
<1>1. CASE UNCHANGED vars
  BY <1>1 DEF vars, cluster, feeds, caches, pass, blame, bounds, TypeOK
<1>2. CASE Reconcile
  <2>1. CASE EnsurePolicies \/ EnsureRelay \/ EnsureGrader
    BY <2>1, ProvisionType
      DEF EnsurePolicies, EnsureRelay, EnsureGrader, EnsureRelayRole, EnsureRelayDeployment,
          EnsureRelayIngress, EnsureRelayPolicy, EnsureGraderDeployment,
          EnsureGraderIngress, Parts, RelayParts, GraderParts, Steps
  <2> QED  BY <1>2, <2>1, PassType, EnsurePodType, ReportType DEF Reconcile
<1>3. CASE Deliver \/ NamespaceGone
  BY <1>3, DeliverType
<1>4. CASE Environment
  BY <1>4, EnvironmentType
<1> QED  BY <1>1, <1>2, <1>3, <1>4 DEF Next

\* Whatever the assets and the bounds, every variable keeps its type: in
\* particular a pass always stands at a step of Reconcile, and the queue never
\* holds a due time that does not come.
THEOREM TypeCorrect == Spec => []TypeOK
<1>1. Init => TypeOK
  BY InitType
<1>2. TypeOK /\ [Next]_vars => TypeOK'
  BY StepType
<1> QED  BY <1>1, <1>2, PTL DEF Spec
-----------------------------------------------------------------------------
(* Whose expiry it is. The delete in reconcileCreate names the object, not *)
(* the life of it that was read; what keeps it from a later life is the    *)
(* finalizer, which only this worker takes away, between two passes. A     *)
(* pass acts on what it read, so the invariant says what every copy of the *)
(* object, in the cache, on its way to it or in a pass, still tells of the *)
(* server's.                                                               *)

\* The versions the reconciler has or will have.
Known == {cObj} \cup {objFeed[i] : i \in DOMAIN objFeed}

\* The watch ends with the server's version.
FeedEndsNow == IF objFeed = <<>> THEN cObj = obj ELSE objFeed[Len(objFeed)] = obj

\* A live copy that has the finalizer is of the object's present life.
CopiesName == \A x \in Known : x.life = "live" /\ x.fin => obj.fin /\ obj.born = x.born

\* A pass that creates works on the object's present life, and from the
\* finalizer on holds it there.
PassNames ==
  /\ pc = "finalizer" /\ env.fin => obj.fin /\ obj.born = env.born
  /\ pc = "finalizer" /\ fresh => obj.life = "live" /\ obj.born = env.born
  /\ pc \in {"namespace", "expiry"} => obj.fin /\ obj.born = env.born
  /\ pc = "cleanup" /\ fresh => objFeed = <<>> /\ cObj = obj /\ obj.life = "deleting"

LifeInv ==
  /\ obj.life = "absent" => ~obj.fin
  /\ FeedEndsNow
  /\ CopiesName
  /\ PassNames

\* At first there is no object.
LEMMA InitLife == Init => LifeInv
BY DEF Init, LifeInv, Gone, FeedEndsNow, CopiesName, Known, PassNames

\* A write that stays in the present life and leaves the finalizer on it, or
\* none at all, keeps what copies tell.
LEMMA WriteNames ==
  ASSUME TypeOK, LifeInv, NEW o \in Envs, WriteObj(o) \/ (o = obj /\ UNCHANGED <<obj, objFeed>>),
         obj.fin => o.fin, obj.fin => o.born = obj.born, o.life = "absent" => ~o.fin,
         UNCHANGED cObj, PassNames'
  PROVE  LifeInv'
<1>1. CASE o = obj
  BY <1>1 DEF WriteObj, LifeInv, FeedEndsNow, CopiesName, Known
<1>2. CASE o # obj
  <2>1. objFeed' = Append(objFeed, o) /\ objFeed \in Seq(Envs) /\ obj' = o
    BY <1>2 DEF WriteObj, TypeOK
  <2>2. /\ Len(objFeed') = Len(objFeed) + 1 /\ objFeed' # <<>>
        /\ objFeed'[Len(objFeed) + 1] = o
        /\ \A i \in DOMAIN objFeed' :
             \/ i \in DOMAIN objFeed /\ objFeed'[i] = objFeed[i]
             \/ objFeed'[i] = o
    BY <2>1
  <2>3. FeedEndsNow'
    BY <2>1, <2>2 DEF FeedEndsNow
  <2>4. \A x \in Known' : x \in Known \/ x = o
    BY <2>2 DEF Known
  <2>5. CopiesName'
    BY <2>1, <2>4 DEF LifeInv, CopiesName
  <2> QED  BY <2>1, <2>3, <2>5 DEF LifeInv
<1> QED  BY <1>1, <1>2

\* A step that leaves object and copies alone, and goes on at a call that
\* counts on nothing.
LEMMA ElsewhereLife ==
  ASSUME LifeInv, UNCHANGED <<obj, objFeed, cObj>>,
         pc' \notin {"finalizer", "namespace", "expiry", "cleanup"}
  PROVE  LifeInv'
BY DEF LifeInv, FeedEndsNow, CopiesName, Known, PassNames

\* A write to the present life of the object that ends the pass.
LEMMA EndWriteLife ==
  ASSUME TypeOK, LifeInv, NEW o \in Envs, WriteObj(o), o.fin = obj.fin, o.born = obj.born,
         o.life = "absent" => ~o.fin, UNCHANGED cObj, pc' = "idle"
  PROVE  LifeInv'
<1>1. PassNames'
  BY DEF PassNames
<1> QED  BY <1>1, WriteNames

\* What a delete leaves of the present life.
LEMMA DeletedLife ==
  ASSUME TypeOK
  PROVE  /\ Deleted(obj) \in Envs /\ Deleted(obj).fin = obj.fin
         /\ Deleted(obj).born = obj.born
         /\ LifeInv => (Deleted(obj).life = "absent" => ~Deleted(obj).fin)
<1>1. Deleted(obj) \in Envs /\ Deleted(obj).fin = obj.fin
  BY DeletedType DEF TypeOK
<1>2. Deleted(obj).born = obj.born /\ (Deleted(obj).life = "absent" => ~Deleted(obj).fin \/ obj.life = "absent")
  BY DEF Deleted, Gone, TypeOK, Envs
<1> QED  BY <1>1, <1>2 DEF LifeInv

\* Provisioning leaves the object and its copies alone, and goes on with a part,
\* the pods, the status, or back to the queue.
LEMMA MiddleSteps ==
  ASSUME EnsurePolicies \/ EnsureRelay \/ EnsureGrader \/ EnsurePod
  PROVE  /\ UNCHANGED <<obj, ns, objFeed, cObj, cNs, excused, misread, faults>>
         /\ pc' \in {"idle", "pods", "status"} \cup RelayParts \cup GraderParts
         /\ pc' \notin {"finalizer", "namespace", "expiry", "cleanup"}
         /\ fresh' => fresh
<1> USE DEF cluster, feeds, caches, pass, blame, bounds
<1>1. UNCHANGED <<obj, ns, objFeed, cObj, cNs, excused, misread, faults>>
  BY DEF EnsurePolicies, EnsureRelay, EnsureGrader, EnsureRelayRole,
         EnsureRelayDeployment, EnsureRelayIngress, EnsureRelayPolicy,
         EnsureGraderDeployment, EnsureGraderIngress, EnsurePod, Provision, Retry
<1>2. pc' \in {"idle", "pods", "status"} \cup RelayParts \cup GraderParts
  BY DEF EnsurePolicies, EnsureRelay, EnsureGrader, EnsureRelayRole,
         EnsureRelayDeployment, EnsureRelayIngress, EnsureRelayPolicy,
         EnsureGraderDeployment, EnsureGraderIngress, EnsurePod, Provision, Retry,
         EndPass, Goto, RelayParts, GraderParts
<1>3. pc' \notin {"finalizer", "namespace", "expiry", "cleanup"}
  BY <1>2 DEF RelayParts, GraderParts
<1>4. fresh' => fresh
  BY DEF EnsurePolicies, EnsureRelay, EnsureGrader, EnsureRelayRole,
         EnsureRelayDeployment, EnsureRelayIngress, EnsureRelayPolicy,
         EnsureGraderDeployment, EnsureGraderIngress, EnsurePod, Provision, Retry,
         EndPass
<1> QED  BY <1>1, <1>2, <1>3, <1>4

\* The steps of reconcileCreate before the provisioning.
LEMMA PassLife ==
  ASSUME TypeOK, LifeInv, Take \/ EnsureFinalizer \/ EnsureNamespace \/ CheckExpiry
  PROVE  LifeInv'
<1> USE DEF cluster, feeds, caches, pass
<1>1. CASE Take
  <2>1. UNCHANGED <<obj, objFeed, cObj>> /\ pc = "idle"
    BY <1>1 DEF Take
  <2>2. CASE pc' = "idle"
    BY <2>1, <2>2, ElsewhereLife
  <2>3. CASE pc' # "idle"
    <3>1. /\ pc' = IF cObj.life = "live" THEN "finalizer" ELSE "cleanup"
          /\ env' = cObj /\ fresh' = (objFeed = <<>>)
          /\ cObj.life # "absent"
      BY <1>1, <2>1, <2>3 DEF Take
    <3>2. cObj \in Known /\ cObj.life \in {"live", "deleting"}
      BY <3>1 DEF Known, TypeOK, Envs
    <3>3. PassNames'
      BY <2>1, <3>1, <3>2 DEF LifeInv, FeedEndsNow, CopiesName, PassNames
    <3> QED  BY <2>1, <3>3 DEF LifeInv, FeedEndsNow, CopiesName, Known
  <2> QED  BY <2>2, <2>3
<1>2. CASE EnsureFinalizer
  <2>1. CASE Retry
    BY <2>1, ElsewhereLife DEF Retry, EndPass
  <2>2. CASE env.fin /\ ~Retry
    <3>1. /\ UNCHANGED <<obj, objFeed, cObj>> /\ pc' = "namespace" /\ env'.born = env.born
          /\ pc = "finalizer"
      BY <1>2, <2>2 DEF EnsureFinalizer, Goto, TypeOK, Envs
    <3> QED  BY <2>2, <3>1 DEF LifeInv, FeedEndsNow, CopiesName, Known, PassNames
  <2>3. CASE fresh /\ ~env.fin
    <3> DEFINE o == [obj EXCEPT !.fin = TRUE]
    <3>1. o \in Envs /\ o.fin /\ o.life = obj.life /\ o.born = obj.born
      BY DEF TypeOK, Envs
    <3>2. WriteObj(o) /\ UNCHANGED cObj /\ pc' = "namespace" /\ env'.born = env.born
          /\ pc = "finalizer"
      BY <1>2, <2>3 DEF EnsureFinalizer, Goto, TypeOK, Envs
    <3>3. obj.life = "live" /\ obj.born = env.born
      BY <2>3, <3>2 DEF LifeInv, PassNames
    <3>4. obj' = o
      BY <3>2 DEF WriteObj
    <3> HIDE DEF o
    <3>5. PassNames'
      BY <3>1, <3>2, <3>3, <3>4 DEF PassNames
    <3> QED  BY <3>1, <3>2, <3>3, <3>5, WriteNames
  <2> QED  BY <1>2, <2>1, <2>2, <2>3 DEF EnsureFinalizer
<1>3. CASE EnsureNamespace
  <2>1. /\ pc = "namespace" /\ pc' = "expiry" /\ UNCHANGED <<obj, objFeed, cObj, env>>
    BY <1>3 DEF EnsureNamespace, Goto
  <2> QED  BY <2>1 DEF LifeInv, FeedEndsNow, CopiesName, Known, PassNames
<1>4. CASE CheckExpiry
  <2>1. CASE WriteObj(Deleted(obj)) /\ pc' = "idle"
    BY <1>4, <2>1, DeletedLife, EndWriteLife DEF CheckExpiry
  <2>2. CASE ~(WriteObj(Deleted(obj)) /\ pc' = "idle")
    <3>1. UNCHANGED <<obj, objFeed, cObj>> /\ pc' = "policies"
      BY <1>4, <2>2 DEF CheckExpiry, EndPass, Goto
    <3> QED  BY <3>1, ElsewhereLife
  <2> QED  BY <2>1, <2>2
<1> QED  BY <1>1, <1>2, <1>3, <1>4

\* The rest of a pass, and reconcileDelete.
LEMMA RestLife ==
  ASSUME TypeOK, LifeInv,
         \/ EnsurePolicies \/ EnsureRelay \/ EnsureGrader \/ EnsurePod
         \/ WriteStatus \/ Cleanup \/ SetTerminating
  PROVE  LifeInv'
<1> USE DEF cluster, feeds, caches, pass
<1>1. CASE EnsurePolicies \/ EnsureRelay \/ EnsureGrader \/ EnsurePod
  BY <1>1, MiddleSteps, ElsewhereLife
<1>2. CASE Retry
  BY <1>2, ElsewhereLife DEF Retry, EndPass
<1>3. CASE WriteStatus /\ ~Retry
  <2> DEFINE o == [obj EXCEPT !.phase = PhaseOf(up), !.ready = up]
  <2>1. PhaseOf(up) \in PodPhases
    BY PhaseOfType
  <2>2. o \in Envs /\ o.fin = obj.fin /\ o.born = obj.born /\ o.life = obj.life
    BY <2>1 DEF TypeOK, Envs
  <2>3. WriteObj(o) /\ pc' = "idle" /\ UNCHANGED cObj
    BY <1>3 DEF WriteStatus, EndPass
  <2> HIDE DEF o
  <2> QED  BY <2>2, <2>3, EndWriteLife DEF LifeInv
<1>4. CASE SetTerminating
  <2> DEFINE o == [obj EXCEPT !.phase = "Terminating"]
  <2>1. o \in Envs /\ o.fin = obj.fin /\ o.born = obj.born /\ o.life = obj.life
    BY DEF TypeOK, Envs
  <2>2. (WriteObj(o) \/ UNCHANGED <<obj, objFeed>>) /\ pc' = "idle" /\ UNCHANGED cObj
    BY <1>4 DEF SetTerminating, EndPass
  <2> HIDE DEF o
  <2> QED  BY <2>1, <2>2, EndWriteLife, ElsewhereLife DEF LifeInv
<1>5. CASE Cleanup /\ ~Retry /\ pc' = "idle"
  <2>1. pc = "cleanup" /\ fresh /\ WriteObj(Gone(obj.born)) /\ pc' = "idle" /\ UNCHANGED cObj
    BY <1>5 DEF Cleanup, EndPass, Goto
  <2>2. objFeed = <<>> /\ cObj = obj /\ obj.life = "deleting"
    BY <2>1 DEF LifeInv, PassNames
  <2>3. obj' = Gone(obj.born) /\ ~obj'.fin /\ obj'.life = "absent"
    BY <2>1 DEF WriteObj, Gone
  <2>4. objFeed' = <<obj'>>
    BY <2>1, <2>2, <2>3 DEF WriteObj
  <2>5. FeedEndsNow'
    BY <2>4 DEF FeedEndsNow
  <2>6. CopiesName'
    BY <2>1, <2>2, <2>3, <2>4 DEF CopiesName, Known
  <2> QED  BY <2>1, <2>3, <2>5, <2>6 DEF LifeInv, PassNames
<1>6. CASE Cleanup /\ ~Retry /\ pc' # "idle"
  <2>1. pc' = "terminating" /\ UNCHANGED <<obj, objFeed, cObj>>
    BY <1>6 DEF Cleanup, EndPass, Goto
  <2> QED  BY <2>1, ElsewhereLife
<1> QED  BY <1>1, <1>2, <1>3, <1>4, <1>5, <1>6

\* Watches, cluster and owners: a delete leaves an object with a finalizer in
\* its life, and a new life begins with an object that has none.
LEMMA AroundLife ==
  ASSUME TypeOK, LifeInv, Deliver \/ NamespaceGone \/ Environment
  PROVE  LifeInv'
<1> USE DEF cluster, feeds, caches, pass, blame, bounds
<1>1. CASE DeliverObj
  <2>1. /\ objFeed # <<>> /\ objFeed \in Seq(Envs)
        /\ cObj' = Head(objFeed) /\ objFeed' = Tail(objFeed)
        /\ UNCHANGED <<obj, pc, env, fresh>>
    BY <1>1 DEF DeliverObj, TypeOK
  <2>2. /\ Head(objFeed) = objFeed[1] /\ 1 \in DOMAIN objFeed
        /\ \A i \in DOMAIN objFeed' : i + 1 \in DOMAIN objFeed /\ objFeed'[i] = objFeed[i + 1]
        /\ Len(objFeed') = Len(objFeed) - 1 /\ Len(objFeed) \in Nat
    BY <2>1
  <2>3. \A x \in Known' : x \in Known
    BY <2>1, <2>2 DEF Known
  <2>4. FeedEndsNow'
    <3>1. CASE Len(objFeed) = 1
      BY <2>1, <2>2, <3>1 DEF LifeInv, FeedEndsNow
    <3>2. CASE Len(objFeed) # 1
      <4>0. objFeed' \in Seq(Envs) /\ Len(objFeed') \in Nat \ {0}
        BY <2>1, <2>2, <3>2
      <4>1. objFeed' # <<>> /\ Len(objFeed') \in DOMAIN objFeed'
        BY <4>0
      <4>2. objFeed'[Len(objFeed')] = objFeed[Len(objFeed)]
        BY <2>2, <4>1
      <4> QED  BY <2>1, <4>1, <4>2 DEF LifeInv, FeedEndsNow
    <3> QED  BY <3>1, <3>2
  <2>5. PassNames'
    BY <2>1 DEF LifeInv, PassNames
  <2> QED  BY <2>1, <2>3, <2>4, <2>5 DEF LifeInv, CopiesName
<1>2. CASE \/ DeliverPods \/ DeliverNs \/ (\E part \in LaggingParts : DeliverPart(part))
           \/ NamespaceGone \/ OutliveTTL \/ PodChanges \/ Resync
  <2>1. UNCHANGED <<obj, objFeed, cObj, pc, env, fresh>>
    BY <1>2 DEF DeliverPods, DeliverNs, DeliverPart, NamespaceGone, OutliveTTL, PodChanges, Resync
  <2> QED  BY <2>1 DEF LifeInv, FeedEndsNow, CopiesName, Known, PassNames
<1>3. CASE Apply
  <2> DEFINE o == [Gone(obj.born + 1) EXCEPT !.life = "live"]
  <2>1. o \in Envs /\ o.life = "live"
    <3>1. obj.born + 1 \in 0..MaxBorn
      BY <1>3, LabEnvOperatorAssumption DEF Apply, TypeOK, Envs
    <3> QED  BY <3>1, GoneType DEF Envs
  <2>2. /\ obj.life = "absent" /\ WriteObj(o) /\ ~fresh' /\ UNCHANGED <<cObj, pc, env>>
    BY <1>3 DEF Apply
  <2>3. ~obj.fin
    BY <2>2 DEF LifeInv
  <2>4. PassNames'
    BY <2>2, <2>3 DEF LifeInv, PassNames
  <2> HIDE DEF o
  <2> QED  BY <2>1, <2>2, <2>3, <2>4, WriteNames
<1>4. CASE Stop
  <2>1. WriteObj(Deleted(obj)) /\ ~fresh' /\ UNCHANGED <<cObj, pc, env>>
    BY <1>4 DEF Stop
  <2>2. obj' = Deleted(obj)
    BY <2>1 DEF WriteObj
  <2>3. PassNames'
    BY <2>1, <2>2, DeletedLife DEF LifeInv, PassNames
  <2> QED  BY <2>1, <2>3, DeletedLife, WriteNames
<1>5. CASE CallFails
  BY <1>5, ElsewhereLife DEF CallFails, EndPass
<1>6. CASE Restart
  <2>1. cObj' = obj /\ objFeed' = <<>> /\ pc' = "idle" /\ UNCHANGED obj
    BY <1>6 DEF Restart
  <2>2. Known' = {obj}
    BY <2>1 DEF Known
  <2> QED  BY <2>1, <2>2 DEF LifeInv, FeedEndsNow, CopiesName, PassNames
<1> QED  BY <1>1, <1>2, <1>3, <1>4, <1>5, <1>6 DEF Deliver, Environment

\* The invariant is inductive, however far each cache is behind.
LEMMA LifeStep == TypeOK /\ LifeInv /\ [Next]_vars => LifeInv'
<1> SUFFICES ASSUME TypeOK, LifeInv, [Next]_vars PROVE LifeInv'
  OBVIOUS
<1>1. CASE Reconcile
  BY <1>1, PassLife, RestLife DEF Reconcile
<1>2. CASE UNCHANGED vars
  BY <1>2 DEF vars, caches, feeds, pass, LifeInv, FeedEndsNow, CopiesName, Known, PassNames
<1> QED  BY <1>1, <1>2, AroundLife DEF Next

\* The step the property is about: only the check of the expiry ends a life
\* while the pass stands there.
LEMMA ExpiryStep ==
  ASSUME TypeOK, LifeInv, [Next]_vars, pc = "expiry", pc' # pc,
         obj.life = "live", obj'.life # "live"
  PROVE  obj.born <= expired
<1> USE DEF cluster, feeds, caches, pass, blame, bounds
<1>1. CASE CheckExpiry
  <2>1. obj.born = env.born
    BY DEF LifeInv, PassNames
  <2>2. env.born <= expired
    BY <1>1 DEF CheckExpiry
  <2> QED  BY <2>1, <2>2
<1>2. CASE Reconcile /\ ~CheckExpiry
  BY <1>2 DEF Reconcile, Take, EnsureFinalizer, EnsureNamespace,
              EnsurePolicies, EnsureRelay, EnsureGrader, EnsureRelayRole,
              EnsureRelayDeployment, EnsureRelayIngress, EnsureRelayPolicy,
              EnsureGraderDeployment, EnsureGraderIngress, Provision, EnsurePod,
              WriteStatus, Cleanup, SetTerminating
<1>3. CASE Deliver \/ NamespaceGone \/ Environment \/ UNCHANGED vars
  BY <1>3 DEF Deliver, DeliverObj, DeliverPods, DeliverNs, DeliverPart, NamespaceGone, Environment,
              Apply, Stop, OutliveTTL, PodChanges, CallFails, Restart, Resync, vars
<1> QED  BY <1>1, <1>2, <1>3 DEF Next

\* However far behind the caches are, and however often the object is deleted
\* and applied anew: the expiry that a pass read off a copy is never carried out
\* on a later life of the object.
THEOREM NoEarlyEvictionHolds == Spec => NoEarlyEviction
<1>1. TypeOK /\ LifeInv /\ [Next]_vars =>
        [pc = "expiry" /\ pc' # pc /\ obj.life = "live" /\ obj'.life # "live"
           => obj.born <= expired]_vars
  BY ExpiryStep
<1> QED
  BY <1>1, InitType, StepType, InitLife, LifeStep, PTL DEF Spec, NoEarlyEviction

-----------------------------------------------------------------------------
(* What a finalizer holds.                                                 *)

\* A finalizer goes in one way.
LEMMA FinalizerGoes ==
  ASSUME TypeOK, LifeInv, [Next]_vars, obj.fin, ~obj'.fin
  PROVE  pc = "cleanup" /\ cNs = "absent"
<1> USE DEF cluster, feeds, caches, pass, blame, bounds
<1>1. CASE EnsureFinalizer
  <2>1. obj' \in {obj, [obj EXCEPT !.fin = TRUE]}
    BY <1>1 DEF EnsureFinalizer, WriteObj, Retry
  <2> QED  BY <2>1 DEF TypeOK, Envs
<1>2. CASE CheckExpiry \/ Stop
  <2>1. obj' \in {obj, Deleted(obj)}
    BY <1>2 DEF CheckExpiry, Stop, WriteObj
  <2> QED  BY <2>1, DeletedLife
<1>3. CASE WriteStatus \/ SetTerminating
  <2>1. \/ obj' = obj \/ obj' = [obj EXCEPT !.phase = "Terminating"]
        \/ obj' = [obj EXCEPT !.phase = PhaseOf(up), !.ready = up]
    BY <1>3 DEF WriteStatus, SetTerminating, WriteObj, Retry
  <2> QED  BY <2>1 DEF TypeOK, Envs
<1>4. CASE Cleanup
  <2>1. obj' # obj
    OBVIOUS
  <2> QED  BY <1>4, <2>1 DEF Cleanup, Retry
<1>5. CASE Apply
  BY <1>5 DEF Apply, LifeInv
<1>6. CASE EnsurePolicies \/ EnsureRelay \/ EnsureGrader \/ EnsurePod
  BY <1>6, MiddleSteps
<1>7. CASE \/ Take \/ EnsureNamespace \/ Deliver \/ NamespaceGone \/ OutliveTTL \/ PodChanges
           \/ CallFails \/ Restart \/ Resync \/ UNCHANGED vars
  BY <1>7 DEF Take, EnsureNamespace, Deliver, DeliverObj, DeliverPods, DeliverNs, DeliverPart,
              NamespaceGone, OutliveTTL, PodChanges, CallFails, Restart, Resync, vars
<1> QED
  BY <1>1, <1>2, <1>3, <1>4, <1>5, <1>6, <1>7 DEF Next, Reconcile, Environment

\* A namespace comes in one way, with its finalizer on.
LEMMA NamespaceComes ==
  ASSUME TypeOK, LifeInv, [Next]_vars, ns = "absent", ns' # "absent"
  PROVE  obj.fin /\ obj' = obj
<1> USE DEF cluster, feeds, caches, pass, blame, bounds
<1>1. CASE EnsureNamespace
  BY <1>1 DEF EnsureNamespace, LifeInv, PassNames
<1>2. CASE \/ Take \/ EnsureFinalizer \/ CheckExpiry \/ WriteStatus \/ Cleanup \/ SetTerminating
  BY <1>2 DEF Take, EnsureFinalizer, CheckExpiry, WriteStatus, Cleanup, SetTerminating, Retry
<1>3. CASE EnsurePolicies \/ EnsureRelay \/ EnsureGrader \/ EnsurePod
  BY <1>3, MiddleSteps
<1>4. CASE Deliver \/ NamespaceGone \/ Environment \/ UNCHANGED vars
  BY <1>4 DEF Deliver, DeliverObj, DeliverPods, DeliverNs, DeliverPart, NamespaceGone,
              Environment, Apply, Stop, OutliveTTL, PodChanges, CallFails, Restart, Resync, vars
<1> QED  BY <1>1, <1>2, <1>3, <1>4 DEF Next, Reconcile

\* Whatever the assets, the bounds and the lag of the caches: a namespace is never
\* without a finalizer that makes reconcileDelete remove it, but for one that
\* reconcileDelete did not know of.
THEOREM NamespaceIsHeldHolds == Spec => NamespaceIsHeld
<1>1. TypeOK /\ LifeInv /\ [Next]_vars =>
        [ns' # "absent" /\ ~obj'.fin =>
           (ns # "absent" /\ ~obj.fin) \/ (pc = "cleanup" /\ cNs = "absent")]_vars
  BY FinalizerGoes, NamespaceComes
<1> QED
  BY <1>1, InitType, StepType, InitLife, LifeStep, PTL DEF Spec, NamespaceIsHeld

-----------------------------------------------------------------------------
(* What is reported on is provisioned. A pass that has put the finalizer   *)
(* on keeps the incarnation from going away under it; a copy that says     *)
(* "deleting" of an object that lives is of an earlier incarnation, and    *)
(* can only be met before the pass that puts the finalizer on. And once    *)
(* past ensureNamespace a pass sees no namespace begin: if it is active at *)
(* one call, it was at all those before.                                   *)

\* The steps of reconcileCreate once the finalizer is on.
Working == {"namespace", "expiry", "pods", "status"} \cup Parts

\* The parts a pass at one of them has behind it.
Behind(step) ==
  CASE step = "relay role"        -> {"policies"}
    [] step = "relay deployment"  -> {"policies", "relay role"}
    [] step = "relay ingress"     -> {"policies", "relay role", "relay deployment"}
    [] step = "relay policy"      -> Parts \ ({"relay policy"} \cup GraderParts)
    [] step = "grader deployment" -> Parts \ GraderParts
    [] step = "grader ingress"    -> Parts \ {"grader ingress"}
    [] step \in {"pods", "status"} -> Parts
    [] OTHER -> {}

\* The parts that are there for as long as the object is not condemned.
Lasting == IF ns = "active" THEN made ELSE {}

\* No copy of a live object with a finalizer tells of its deletion.
CondemnedCopies ==
  obj.life = "live" /\ obj.fin => \A x \in Known : x.life # "deleting"

\* An object the operator does not hold has no phase.
UnheldIsNew == obj.life = "live" /\ ~obj.fin => obj.phase = "none"

\* What a pass counts on at its steps.
PassCounts ==
  /\ pc = "finalizer" /\ fresh => objFeed = <<>> /\ cObj = obj
  /\ pc \in Working => obj.fin
  /\ pc \in Working => Behind(pc) \subseteq Lasting \cup skipped
  /\ pc = "cleanup" => obj.life # "live" \/ ~obj.fin
  /\ pc = "terminating" /\ fresh => obj.life = "deleting"

\* What a status means.
Provided == obj.life = "live" /\ obj.phase # "none" => Parts \subseteq Lasting \cup excused

ReportInv == CondemnedCopies /\ UnheldIsNew /\ PassCounts /\ Provided

\* A status says no less than the property.
LEMMA ProvidedReports == TypeOK /\ ReportInv => ReportedMeansProvisioned
BY DEF TypeOK, ReportInv, Provided, Lasting, ReportedMeansProvisioned

\* In the beginning there is nothing to report on.
LEMMA InitReport == Init => ReportInv
BY DEF Init, ReportInv, CondemnedCopies, UnheldIsNew, PassCounts, Provided, Gone, Working, Parts,
       RelayParts, GraderParts

\* Each part adds itself to those behind.
LEMMA BehindGrows ==
  /\ Behind("namespace") = {} /\ Behind("expiry") = {} /\ Behind("policies") = {}
  /\ Behind("relay role") \subseteq Behind("policies") \cup {"policies"}
  /\ Behind("relay deployment") \subseteq Behind("relay role") \cup {"relay role"}
  /\ Behind("relay ingress") \subseteq Behind("relay deployment") \cup {"relay deployment"}
  /\ Behind("relay policy") \subseteq Behind("relay ingress") \cup {"relay ingress"}
  /\ Behind("grader deployment") \subseteq Behind("relay policy") \cup {"relay policy"}
  /\ Behind("grader ingress") \subseteq Behind("grader deployment") \cup {"grader deployment"}
  /\ Behind("pods") \subseteq Behind("grader ingress") \cup {"grader ingress"}
  /\ Behind("status") = Behind("pods") /\ Behind("status") = Parts
BY DEF Behind, Parts, RelayParts, GraderParts

\* Where a pass is at none of the calls that provision; failures are counted.
LEMMA OffWork ==
  /\ \A step \in {"idle", "finalizer", "cleanup", "terminating"} : step \notin Working
  /\ TypeOK => faults \in Nat
<1>1. \A step \in {"idle", "finalizer", "cleanup", "terminating"} : step \notin Working
  BY DEF Working, Parts, RelayParts, GraderParts
<1>2. TypeOK => faults \in Nat
  BY LabEnvOperatorAssumption DEF TypeOK
<1> QED  BY <1>1, <1>2

\* What a write of the object adds to the copies.
LEMMA WriteAddsCopy ==
  ASSUME TypeOK, NEW o \in Envs, WriteObj(o), UNCHANGED cObj
  PROVE  obj' = o /\ \A x \in Known' : x \in Known \/ x = o
<1>1. CASE o = obj
  BY <1>1 DEF WriteObj, Known
<1>2. CASE o # obj
  <2>1. objFeed' = Append(objFeed, o) /\ objFeed \in Seq(Envs) /\ obj' = o
    BY <1>2 DEF WriteObj, TypeOK
  <2>2. \A i \in DOMAIN objFeed' :
          (i \in DOMAIN objFeed /\ objFeed'[i] = objFeed[i]) \/ objFeed'[i] = o
    BY <2>1
  <2> QED  BY <2>1, <2>2 DEF Known
<1> QED  BY <1>1, <1>2

\* A step that leaves the cluster alone and goes on where nothing is counted on.
LEMMA IdleReport ==
  ASSUME ReportInv, UNCHANGED <<obj, ns, made, objFeed, cObj, excused>>, pc' = "idle"
  PROVE  ReportInv'
<1>1. PassCounts'
  BY OffWork DEF PassCounts
<1> QED
  BY <1>1 DEF ReportInv, CondemnedCopies, UnheldIsNew, Known, Provided, Lasting

\* A step that leaves cluster and pass alone.
LEMMA StillReport ==
  ASSUME ReportInv, UNCHANGED <<obj, ns, made, objFeed, cObj, pc, fresh, skipped, excused>>
  PROVE  ReportInv'
BY DEF ReportInv, CondemnedCopies, UnheldIsNew, Known, PassCounts, Provided, Lasting

\* A pass that goes on, with its parts behind it.
LEMMA OnwardReport ==
  ASSUME ReportInv, UNCHANGED <<obj, objFeed, cObj, excused>>, pc' \in Working, obj.fin,
         Lasting \subseteq Lasting', Behind(pc') \subseteq Lasting' \cup skipped'
  PROVE  ReportInv'
<1>1. PassCounts'
  BY OffWork DEF PassCounts
<1> QED  BY <1>1 DEF ReportInv, CondemnedCopies, UnheldIsNew, Known, Provided

\* The end of a pass with a write that leaves life and finalizer as they are.
LEMMA EndWriteReport ==
  ASSUME TypeOK, ReportInv, NEW o \in Envs, WriteObj(o), o.life = obj.life, o.fin = obj.fin,
         obj.life = "live" => obj.fin /\ Parts \subseteq Lasting \cup excused',
         UNCHANGED <<ns, made, cObj>>, pc' = "idle"
  PROVE  ReportInv'
<1>1. obj' = o /\ \A x \in Known' : x \in Known \/ x = o
  BY WriteAddsCopy
<1>2. CondemnedCopies'
  BY <1>1 DEF ReportInv, CondemnedCopies
<1>3. PassCounts'
  BY OffWork DEF PassCounts
<1> QED  BY <1>1, <1>2, <1>3 DEF ReportInv, UnheldIsNew, Provided, Lasting

\* A write that leaves an object that is not live, between any two calls.
LEMMA CondemnReport ==
  ASSUME TypeOK, ReportInv, NEW o \in Envs, WriteObj(o), o.life # "live", o.fin = obj.fin,
         UNCHANGED <<ns, made, cObj>>,
         (pc' = pc /\ ~fresh' /\ skipped' = skipped) \/ pc' = "idle"
  PROVE  ReportInv'
<1>1. obj' = o
  BY WriteAddsCopy
<1>2. PassCounts'
  BY <1>1, OffWork DEF ReportInv, PassCounts, Lasting
<1> QED  BY <1>1, <1>2 DEF ReportInv, CondemnedCopies, UnheldIsNew, Provided

\* The steps up to the expiry.
LEMMA PassReport ==
  ASSUME TypeOK, LifeInv, ReportInv, Take \/ EnsureFinalizer \/ EnsureNamespace \/ CheckExpiry
  PROVE  ReportInv'
<1> USE DEF cluster, feeds, caches, pass, blame
<1>1. CASE Take
  <2>1. /\ UNCHANGED <<obj, ns, made, objFeed, cObj, excused>>
        /\ pc = "idle"
    BY <1>1 DEF Take
  <2>2. CASE pc' = "idle"
    BY <2>1, <2>2, IdleReport
  <2>3. CASE pc' # "idle"
    <3>1. /\ pc' = IF cObj.life = "live" THEN "finalizer" ELSE "cleanup"
          /\ fresh' = (objFeed = <<>>) /\ cObj.life # "absent"
      BY <1>1, <2>1, <2>3 DEF Take
    <3>2. cObj \in Known /\ cObj.life \in {"live", "deleting"}
      BY <3>1 DEF Known, TypeOK, Envs
    <3>3. pc' = "cleanup" => obj'.life # "live" \/ ~obj'.fin
      BY <2>1, <3>1, <3>2 DEF ReportInv, CondemnedCopies
    <3>4. pc' = "finalizer" /\ fresh' => objFeed' = <<>> /\ cObj' = obj'
      BY <2>1, <3>1 DEF LifeInv, FeedEndsNow
    <3>5. PassCounts'
      BY <3>1, <3>3, <3>4, OffWork DEF PassCounts
    <3> QED  BY <2>1, <3>5 DEF ReportInv, CondemnedCopies, UnheldIsNew, Known, Provided, Lasting
  <2> QED  BY <2>2, <2>3
<1>2. CASE EnsureFinalizer
  <2>1. CASE Retry
    BY <2>1, IdleReport DEF Retry, EndPass
  <2>2. CASE env.fin /\ ~Retry
    <3>1. /\ UNCHANGED <<obj, ns, made, objFeed, cObj, excused>>
          /\ pc' = "namespace" /\ pc = "finalizer"
      BY <1>2, <2>2 DEF EnsureFinalizer, Goto
    <3>2. obj.fin /\ "namespace" \in Working /\ Lasting' = Lasting
      BY <2>2, <3>1 DEF LifeInv, PassNames, Working, Lasting
    <3> QED  BY <3>1, <3>2, BehindGrows, OnwardReport
  <2>3. CASE fresh /\ ~env.fin
    <3> DEFINE o == [obj EXCEPT !.fin = TRUE]
    <3>1. o \in Envs /\ o.fin /\ o.life = obj.life /\ o.phase = obj.phase
      BY DEF TypeOK, Envs
    <3>2. WriteObj(o) /\ UNCHANGED <<cObj, ns, made, excused>> /\ pc' = "namespace" /\ pc = "finalizer"
      BY <1>2, <2>3 DEF EnsureFinalizer, Goto
    <3>3. obj.life = "live" /\ objFeed = <<>> /\ cObj = obj
      BY <2>3, <3>2 DEF LifeInv, PassNames, ReportInv, PassCounts
    <3> HIDE DEF o
    <3>4. obj' = o /\ \A x \in Known' : x \in Known \/ x = o
      BY <3>1, <3>2, WriteAddsCopy
    <3>5. Known = {obj}
      BY <3>3 DEF Known
    <3>6. CondemnedCopies'
      BY <3>1, <3>3, <3>4, <3>5 DEF CondemnedCopies
    <3>7. PassCounts'
      BY <3>1, <3>2, <3>4, BehindGrows DEF PassCounts
    <3> QED  BY <3>1, <3>2, <3>4, <3>6, <3>7 DEF ReportInv, UnheldIsNew, Provided, Lasting
  <2> QED  BY <1>2, <2>1, <2>2, <2>3 DEF EnsureFinalizer
<1>3. CASE EnsureNamespace
  <2>1. /\ pc = "namespace" /\ pc' = "expiry"
        /\ UNCHANGED <<obj, made, objFeed, cObj, excused>> /\ obj.fin
    BY <1>3 DEF EnsureNamespace, Goto, LifeInv, PassNames
  <2>2. Lasting \subseteq Lasting' /\ "expiry" \in Working
    BY <1>3 DEF EnsureNamespace, Lasting, Working
  <2> QED  BY <2>1, <2>2, BehindGrows, OnwardReport
<1>4. CASE CheckExpiry
  <2>1. CASE env.born <= expired
    <3>1. WriteObj(Deleted(obj)) /\ pc' = "idle" /\ UNCHANGED <<ns, made, cObj>>
      BY <1>4, <2>1 DEF CheckExpiry, EndPass
    <3>2. Deleted(obj) \in Envs /\ Deleted(obj).life # "live" /\ Deleted(obj).fin = obj.fin
      BY DeletedType DEF TypeOK
    <3> QED  BY <3>1, <3>2, CondemnReport
  <2>2. CASE ~(env.born <= expired)
    <3>1. /\ pc = "expiry" /\ pc' = "policies"
          /\ UNCHANGED <<obj, ns, made, objFeed, cObj, excused>>
      BY <1>4, <2>2 DEF CheckExpiry, Goto
    <3>2. obj.fin /\ pc' \in Working /\ Lasting' = Lasting
      BY <3>1 DEF LifeInv, PassNames, Working, Parts, Lasting
    <3> QED  BY <3>1, <3>2, BehindGrows, OnwardReport
  <2> QED  BY <2>1, <2>2
<1> QED  BY <1>1, <1>2, <1>3, <1>4

\* A part more is behind the pass: it is in an active namespace, or was skipped.
LEMMA ProvisionReport ==
  ASSUME ReportInv, NEW part \in Parts, NEW next \in Parts \cup {"pods"},
         Provision(part, next), Behind(next) \subseteq Behind(part) \cup {part}
  PROVE  ReportInv'
<1> USE DEF cluster, feeds, caches, blame
<1>1. CASE Retry
  BY <1>1, IdleReport DEF Retry, EndPass
<1>2. CASE ~Retry
  <2>1. /\ pc = part /\ pc' = next
        /\ made' \in {made, made \cup {part}}
        /\ skipped' = IF part \in made' /\ ns = "active" THEN skipped ELSE skipped \cup {part}
        /\ UNCHANGED <<obj, ns, objFeed, cObj, excused>>
    BY <1>2 DEF Provision, Goto
  <2>2. part \in Working /\ next \in Working
    BY DEF Working
  <2>3. Lasting \subseteq Lasting' /\ part \in Lasting' \cup skipped' /\ skipped \subseteq skipped'
    BY <2>1 DEF Lasting
  <2>4. obj.fin /\ Behind(part) \subseteq Lasting \cup skipped
    BY <2>1, <2>2 DEF ReportInv, PassCounts
  <2>5. Behind(next) \subseteq Lasting' \cup skipped'
    BY <2>3, <2>4
  <2> QED  BY <2>1, <2>2, <2>3, <2>4, <2>5, OnwardReport
<1> QED  BY <1>1, <1>2

\* The rest of reconcileCreate reports only at its end.
LEMMA CreateReport ==
  ASSUME TypeOK, ReportInv,
         EnsurePolicies \/ EnsureRelay \/ EnsureGrader \/ EnsurePod \/ WriteStatus
  PROVE  ReportInv'
<1> USE DEF cluster, feeds, caches, blame
<1>1. CASE EnsurePolicies \/ EnsureRelay \/ EnsureGrader
  <2> DEFINE Parted(part, next) ==
        /\ part \in Parts /\ next \in Parts \cup {"pods"}
        /\ Provision(part, next) /\ Behind(next) \subseteq Behind(part) \cup {part}
  <2>1. EnsurePolicies => Parted("policies", "relay role")
    BY BehindGrows DEF EnsurePolicies, Parts, RelayParts, GraderParts
  <2>2. EnsureRelay =>
          \/ Parted("relay role", "relay deployment")
          \/ Parted("relay deployment", "relay ingress")
          \/ Parted("relay ingress", "relay policy")
          \/ Parted("relay policy", "grader deployment")
    <3>1. /\ EnsureRelayRole => Parted("relay role", "relay deployment")
          /\ EnsureRelayDeployment => Parted("relay deployment", "relay ingress")
      BY BehindGrows DEF EnsureRelayRole, EnsureRelayDeployment, Parts, RelayParts, GraderParts
    <3>2. /\ EnsureRelayIngress => Parted("relay ingress", "relay policy")
          /\ EnsureRelayPolicy => Parted("relay policy", "grader deployment")
      BY BehindGrows DEF EnsureRelayIngress, EnsureRelayPolicy, Parts, RelayParts, GraderParts
    <3> HIDE DEF Parted
    <3> QED  BY <3>1, <3>2 DEF EnsureRelay
  <2>3. EnsureGrader =>
          Parted("grader deployment", "grader ingress") \/ Parted("grader ingress", "pods")
    BY BehindGrows DEF EnsureGrader, EnsureGraderDeployment, EnsureGraderIngress, Parts,
       RelayParts, GraderParts
  <2>4. \A part, next : Parted(part, next) => ReportInv'
    BY ProvisionReport
  <2> HIDE DEF Parted
  <2> QED  BY <1>1, <2>1, <2>2, <2>3, <2>4
<1>2. CASE Retry
  BY <1>2, IdleReport DEF Retry, EndPass
<1>3. CASE EnsurePod /\ ~Retry
  <2>1. /\ pc = "pods" /\ pc' \in {"pods", "status"}
        /\ UNCHANGED <<obj, ns, made, objFeed, cObj, skipped, excused>>
    BY <1>3 DEF EnsurePod, Goto
  <2>2. pc \in Working /\ pc' \in Working /\ Behind(pc') = Behind(pc) /\ Lasting' = Lasting
    BY <2>1, BehindGrows DEF Working, Lasting
  <2>3. obj.fin /\ Behind(pc) \subseteq Lasting \cup skipped
    BY <2>2 DEF ReportInv, PassCounts
  <2> QED  BY <2>1, <2>2, <2>3, OnwardReport
<1>4. CASE WriteStatus /\ ~Retry
  <2> DEFINE o == [obj EXCEPT !.phase = PhaseOf(up), !.ready = up]
  <2>1. o \in Envs /\ o.fin = obj.fin /\ o.life = obj.life
    BY PhaseOfType DEF TypeOK, Envs
  <2>2. /\ WriteObj(o) /\ pc' = "idle" /\ pc = "status" /\ excused' = skipped
        /\ UNCHANGED <<ns, made, cObj>>
    BY <1>4 DEF WriteStatus, EndPass
  <2>3. obj.fin /\ Parts \subseteq Lasting \cup excused'
    BY <2>2, BehindGrows DEF ReportInv, PassCounts, Working
  <2> HIDE DEF o
  <2> QED  BY <2>1, <2>2, <2>3, EndWriteReport
<1> QED  BY <1>1, <1>2, <1>3, <1>4

\* reconcileDelete touches the namespace of no object that has a status.
LEMMA DeleteReport ==
  ASSUME TypeOK, LifeInv, ReportInv, Cleanup \/ SetTerminating
  PROVE  ReportInv'
<1> USE DEF cluster, feeds, caches, blame
<1>1. CASE Retry
  BY <1>1, IdleReport DEF Retry, EndPass
<1>2. CASE Cleanup /\ ~Retry /\ pc' = "idle"
  <2>1. WriteObj(Gone(obj.born)) /\ UNCHANGED <<ns, made, cObj>>
    BY <1>2 DEF Cleanup, EndPass, Goto
  <2>2. obj' = Gone(obj.born) /\ obj'.life = "absent"
    BY <2>1 DEF WriteObj, Gone
  <2>3. PassCounts'
    BY <1>2, OffWork DEF PassCounts
  <2> QED  BY <2>2, <2>3 DEF ReportInv, CondemnedCopies, UnheldIsNew, Provided
<1>3. CASE Cleanup /\ ~Retry /\ pc' # "idle"
  <2>1. /\ pc = "cleanup" /\ pc' = "terminating"
        /\ UNCHANGED <<obj, objFeed, made, cObj, fresh, excused>>
    BY <1>3 DEF Cleanup, Goto, EndPass
  <2>2. obj.life # "live" \/ obj.phase = "none"
    BY <2>1 DEF ReportInv, PassCounts, UnheldIsNew
  <2>3. fresh => obj.life = "deleting"
    BY <2>1 DEF LifeInv, PassNames
  <2>4. PassCounts'
    BY <2>1, <2>3, OffWork DEF PassCounts
  <2> QED  BY <2>1, <2>2, <2>4 DEF ReportInv, CondemnedCopies, UnheldIsNew, Known, Provided
<1>4. CASE SetTerminating
  <2>1. CASE UNCHANGED <<obj, objFeed>>
    BY <1>4, <2>1, IdleReport DEF SetTerminating, EndPass
  <2>2. CASE ~UNCHANGED <<obj, objFeed>>
    <3> DEFINE o == [obj EXCEPT !.phase = "Terminating"]
    <3>1. o \in Envs /\ o.fin = obj.fin /\ o.life = obj.life
      BY DEF TypeOK, Envs
    <3>2. WriteObj(o) /\ pc' = "idle" /\ UNCHANGED <<ns, made, cObj>> /\ obj.life # "live"
      BY <1>4, <2>2 DEF SetTerminating, EndPass, ReportInv, PassCounts
    <3> HIDE DEF o
    <3> QED  BY <3>1, <3>2, EndWriteReport
  <2> QED  BY <2>1, <2>2
<1> QED  BY <1>1, <1>2, <1>3, <1>4

\* The deliveries bring nothing new, and no active namespace goes.
LEMMA DeliverReport ==
  ASSUME TypeOK, ReportInv, Deliver \/ NamespaceGone
  PROVE  ReportInv'
<1> USE DEF cluster, feeds, caches, pass, blame
<1>1. CASE DeliverObj
  <2>1. /\ objFeed # <<>> /\ objFeed \in Seq(Envs)
        /\ cObj' = Head(objFeed) /\ objFeed' = Tail(objFeed)
        /\ UNCHANGED <<obj, ns, made, pc, fresh, skipped, excused>>
    BY <1>1 DEF DeliverObj, TypeOK
  <2>2. /\ Head(objFeed) = objFeed[1] /\ 1 \in DOMAIN objFeed
        /\ \A i \in DOMAIN objFeed' : i + 1 \in DOMAIN objFeed /\ objFeed'[i] = objFeed[i + 1]
    BY <2>1
  <2>3. \A x \in Known' : x \in Known
    BY <2>1, <2>2 DEF Known
  <2> QED  BY <2>1, <2>3 DEF ReportInv, CondemnedCopies, UnheldIsNew, PassCounts, Provided, Lasting
<1>2. CASE DeliverPods \/ DeliverNs \/ \E part \in LaggingParts : DeliverPart(part)
  BY <1>2, StillReport DEF DeliverPods, DeliverNs, DeliverPart
<1>3. CASE NamespaceGone
  <2>1. /\ Lasting' = Lasting
        /\ UNCHANGED <<obj, objFeed, cObj, pc, fresh, skipped, excused>>
    BY <1>3 DEF NamespaceGone, Lasting
  <2> QED  BY <2>1 DEF ReportInv, CondemnedCopies, UnheldIsNew, Known, PassCounts, Provided
<1> QED  BY <1>1, <1>2, <1>3 DEF Deliver

\* A new incarnation has neither finalizer nor status; a condemned one is not live.
LEMMA EnvironmentReport ==
  ASSUME TypeOK, LifeInv, ReportInv, Environment
  PROVE  ReportInv'
<1> USE DEF cluster, feeds, caches, bounds, pass, blame
<1>1. CASE Apply
  <2> DEFINE o == [Gone(obj.born + 1) EXCEPT !.life = "live"]
  <2>1. o.life = "live" /\ ~o.fin /\ o.phase = "none"
    BY DEF Gone
  <2>2. obj.life = "absent" /\ WriteObj(o) /\ ~fresh' /\ UNCHANGED <<ns, made, cObj, pc, skipped>>
    BY <1>1 DEF Apply
  <2>3. obj' = o /\ ~obj.fin
    BY <2>2 DEF WriteObj, LifeInv
  <2> HIDE DEF o
  <2>4. PassCounts'
    BY <2>1, <2>2, <2>3 DEF ReportInv, PassCounts
  <2> QED  BY <2>1, <2>3, <2>4 DEF ReportInv, CondemnedCopies, UnheldIsNew, Provided
<1>2. CASE Stop
  <2>1. Deleted(obj) \in Envs /\ Deleted(obj).life # "live" /\ Deleted(obj).fin = obj.fin
    BY DeletedType DEF TypeOK
  <2>2. WriteObj(Deleted(obj)) /\ ~fresh' /\ UNCHANGED <<ns, made, cObj, pc, skipped>>
    BY <1>2 DEF Stop
  <2> QED  BY <2>1, <2>2, CondemnReport
<1>3. CASE OutliveTTL \/ PodChanges \/ Resync
  BY <1>3, StillReport DEF OutliveTTL, PodChanges, Resync
<1>4. CASE CallFails
  BY <1>4, IdleReport DEF CallFails, EndPass
<1>5. CASE Restart
  <2>1. /\ cObj' = obj /\ objFeed' = <<>> /\ pc' = "idle" /\ UNCHANGED <<obj, ns, made, excused>>
    BY <1>5 DEF Restart
  <2>2. Known' = {obj}
    BY <2>1 DEF Known
  <2>3. PassCounts'
    BY <2>1, OffWork DEF PassCounts
  <2> QED  BY <2>1, <2>2, <2>3 DEF ReportInv, CondemnedCopies, UnheldIsNew, Provided, Lasting
<1> QED  BY <1>1, <1>2, <1>3, <1>4, <1>5 DEF Environment

\* So every step keeps the invariant.
LEMMA ReportStep ==
  ASSUME TypeOK, LifeInv, ReportInv, [Next]_vars
  PROVE  ReportInv'
<1>1. CASE Reconcile
  BY <1>1, PassReport, CreateReport, DeleteReport DEF Reconcile
<1>2. CASE UNCHANGED vars
  BY <1>2, StillReport DEF vars, cluster, feeds, caches, pass, blame
<1> QED  BY <1>1, <1>2, DeliverReport, EnvironmentReport DEF Next

\* However far behind the caches are, however passes fail and restart, and whoever
\* condemns and applies it anew meanwhile: no live environment has a status and
\* lacks a part, but for one that the pass which wrote it found in a cache.
THEOREM ReportedMeansProvisionedHolds == Spec => []ReportedMeansProvisioned
<1> DEFINE Inv == TypeOK /\ LifeInv /\ ReportInv
<1>1. Init => Inv
  BY InitType, InitLife, InitReport
<1>2. Inv /\ [Next]_vars => Inv'
  BY StepType, LifeStep, ReportStep
<1>3. Inv => ReportedMeansProvisioned
  BY ProvidedReports
<1> QED  BY <1>1, <1>2, <1>3, PTL DEF Spec

-----------------------------------------------------------------------------
(* The order of phases. An environment that showed a phase of its pods     *)
(* shows Terminating before it goes: the pass that asks for the            *)
(* namespace's removal also writes Terminating, and does so with a current *)
(* version, since no other write comes in between.                         *)

\* A pass whose copy is current works on a live object.
FreshIsLive == pc \in Working /\ fresh => obj.life = "live"

\* Condemned, but not yet seen to be: the last version only tells of it.
Unannounced == obj.life = "deleting" /\ obj.phase \in PodPhases

LastTells ==
  Unannounced =>
    /\ cObj.life = "deleting" => objFeed = <<>>
    /\ \A i \in 1 .. Len(objFeed) - 1 : objFeed[i].life # "deleting"

\* A pass that cleans up after it has a current copy.
CleanupIsFresh == pc = "cleanup" /\ Unannounced => fresh

\* As long as no finalizer went on an old copy of the namespace, an incarnation
\* begins without one, on the server and in the cache; its first pass makes it, and
\* it is there until the incarnation is condemned.
NamespaceFollows ==
  ~misread =>
    /\ ~obj.fin => ns = "absent" /\ cNs = "absent"
    /\ obj.life = "live" => ns = "active" \/ (ns = "absent" /\ cNs = "absent")
    /\ obj.life = "live" /\ obj.phase # "none" => ns = "active"
    /\ obj.life = "live" /\ pc \in Working \ {"namespace"} => ns = "active"

\* Without failures it is there until the pass is about to say so.
Announced ==
  faults = 0 /\ ~misread /\ Unannounced => ns = "active" \/ (pc = "terminating" /\ fresh)

OrderInv == FreshIsLive /\ LastTells /\ CleanupIsFresh /\ NamespaceFollows /\ Announced

\* No object, no namespace, no phase.
LEMMA InitOrder == Init => OrderInv
BY DEF Init, Gone, OrderInv, FreshIsLive, LastTells, CleanupIsFresh, NamespaceFollows,
       Announced, Unannounced, Working, Parts, RelayParts, GraderParts

\* A step that leaves the object, its copies and its namespace alone, and does
\* not drop the announcement.
LEMMA QuietOrder ==
  ASSUME TypeOK, OrderInv, UNCHANGED <<obj, objFeed, cObj, ns, cNs, misread>>,
         faults' \in Nat, faults' = 0 => faults = 0,
         pc' \in Working /\ fresh' => obj.life = "live",
         pc' \in Working \ {"namespace"} => pc \in Working \ {"namespace"},
         pc' = "cleanup" /\ Unannounced => fresh',
         faults' = 0 /\ pc = "terminating" /\ fresh => pc' = "terminating" /\ fresh'
  PROVE  OrderInv'
BY DEF OrderInv, FreshIsLive, LastTells, CleanupIsFresh, NamespaceFollows, Announced, Unannounced

\* In particular one that ends a pass, unless that has to announce.
LEMMA EndOrder ==
  ASSUME TypeOK, OrderInv, UNCHANGED <<obj, objFeed, cObj, ns, cNs, misread, faults>>,
         pc' = "idle", pc # "terminating"
  PROVE  OrderInv'
<1>1. pc' \notin Working /\ faults' \in Nat
  BY OffWork
<1> QED  BY <1>1, QuietOrder

\* A delete, by whomever: what it condemns has an active namespace, and no other
\* version that tells of a deletion.
LEMMA CondemnOrder ==
  ASSUME TypeOK, ReportInv, OrderInv, WriteObj(Deleted(obj)),
         UNCHANGED <<cObj, ns, cNs, misread, faults>>,
         (pc' = "idle" /\ pc # "terminating") \/ (pc' = pc /\ ~fresh' /\ obj.life = "live")
  PROVE  OrderInv'
<1>1. obj' = Deleted(obj) /\ Deleted(obj).life # "live" /\ Deleted(obj).fin = obj.fin
  BY DeletedType DEF WriteObj, TypeOK
<1>2. FreshIsLive' /\ NamespaceFollows'
  BY <1>1, OffWork DEF FreshIsLive, OrderInv, NamespaceFollows
<1>3. CASE obj.life # "live"
  <2>1. UNCHANGED <<obj, objFeed>>
    BY <1>1, <1>3 DEF Deleted, WriteObj
  <2> QED  BY <1>3, <2>1, EndOrder
<1>4. CASE obj.life = "live" /\ ~obj.fin
  <2>1. obj'.life = "absent"
    BY <1>1, <1>4 DEF Deleted, Gone
  <2> QED  BY <1>2, <2>1 DEF OrderInv, LastTells, CleanupIsFresh, Announced, Unannounced
<1>5. CASE obj.life = "live" /\ obj.fin
  <2>1. obj' = [obj EXCEPT !.life = "deleting"]
    BY <1>1, <1>5 DEF Deleted
  <2>2. obj'.life = "deleting" /\ obj'.phase = obj.phase /\ obj' # obj
    BY <1>5, <2>1 DEF TypeOK, Envs
  <2>3. objFeed' = Append(objFeed, obj') /\ objFeed \in Seq(Envs)
    BY <1>1, <2>2 DEF WriteObj, TypeOK
  <2>4. \A x \in Known : x.life # "deleting"
    BY <1>5 DEF ReportInv, CondemnedCopies
  <2>5. LastTells'
    <3>1. cObj'.life # "deleting"
      BY <2>4 DEF Known
    <3>2. \A i \in 1 .. Len(objFeed') - 1 : i \in DOMAIN objFeed /\ objFeed'[i] = objFeed[i]
      BY <2>3
    <3>3. \A i \in 1 .. Len(objFeed') - 1 : objFeed'[i].life # "deleting"
      BY <2>4, <3>2 DEF Known
    <3> QED  BY <3>1, <3>3 DEF LastTells
  <2>6. CleanupIsFresh'
    BY <1>5 DEF CleanupIsFresh, ReportInv, PassCounts
  <2>7. Announced'
    BY <1>5, <2>2 DEF Announced, Unannounced, OrderInv, NamespaceFollows, PodPhases
  <2> QED  BY <1>2, <2>5, <2>6, <2>7 DEF OrderInv
<1> QED  BY <1>3, <1>4, <1>5 DEF TypeOK, Envs

\* The steps of a pass that creates, up to the provisioning.
LEMMA PassOrder ==
  ASSUME TypeOK, LifeInv, ReportInv, OrderInv,
         Take \/ EnsureFinalizer \/ EnsureNamespace \/ CheckExpiry
  PROVE  OrderInv'
<1> USE DEF cluster, feeds, caches, pass, blame, bounds
<1>0. faults \in Nat /\ "idle" \notin Working /\ "finalizer" \notin Working /\ "cleanup" \notin Working
  BY OffWork
<1>1. CASE Take
  <2>1. UNCHANGED <<obj, objFeed, cObj, ns, cNs, misread, faults>> /\ pc = "idle"
    BY <1>1 DEF Take
  <2>2. CASE pc' = "idle"
    BY <2>1, <2>2, EndOrder
  <2>3. CASE pc' # "idle"
    <3>1. /\ pc' = IF cObj.life = "live" THEN "finalizer" ELSE "cleanup"
          /\ fresh' = (objFeed = <<>>) /\ cObj.life # "absent"
      BY <1>1, <2>1, <2>3 DEF Take
    <3>2. pc' \in {"finalizer", "cleanup"} /\ (pc' = "cleanup" => cObj.life = "deleting")
      BY <3>1 DEF TypeOK, Envs
    <3>3. pc' = "cleanup" /\ Unannounced => fresh'
      BY <3>1, <3>2 DEF OrderInv, LastTells
    <3> QED  BY <1>0, <2>1, <3>2, <3>3, QuietOrder
  <2> QED  BY <2>2, <2>3
<1>2. CASE EnsureFinalizer
  <2>1. CASE Retry
    BY <1>2, <2>1, EndOrder DEF EnsureFinalizer, Retry, EndPass
  <2>2. CASE env.fin /\ ~Retry
    <3>1. /\ UNCHANGED <<obj, objFeed, cObj, ns, cNs, misread, faults, fresh>>
          /\ pc = "finalizer" /\ pc' = "namespace"
      BY <1>2, <2>2 DEF EnsureFinalizer, Goto
    <3>2. fresh' => obj.life = "live"
      BY <3>1 DEF LifeInv, PassNames
    <3> QED  BY <1>0, <3>1, <3>2, QuietOrder
  <2>3. CASE fresh /\ ~env.fin
    <3> DEFINE o == [obj EXCEPT !.fin = TRUE]
    <3>1. /\ WriteObj(o) /\ UNCHANGED <<ns, cNs, misread, faults>>
          /\ pc = "finalizer" /\ pc' = "namespace"
      BY <1>2, <2>3 DEF EnsureFinalizer, Goto
    <3>2. obj.life = "live"
      BY <2>3, <3>1 DEF LifeInv, PassNames
    <3>3. obj'.fin /\ obj'.life = "live" /\ obj'.phase = obj.phase
      BY <3>1, <3>2 DEF WriteObj, TypeOK, Envs
    <3> QED  BY <3>1, <3>2, <3>3 DEF OrderInv, FreshIsLive, LastTells, CleanupIsFresh,
                                     NamespaceFollows, Announced, Unannounced
  <2> QED  BY <1>2, <2>1, <2>2, <2>3 DEF EnsureFinalizer
<1>3. CASE EnsureNamespace
  <2>1. /\ pc = "namespace" /\ pc' = "expiry"
        /\ ns' = IF cNs = "absent" /\ ns = "absent" THEN "active" ELSE ns
        /\ UNCHANGED <<obj, objFeed, cObj, cNs, misread, faults, fresh>>
    BY <1>3 DEF EnsureNamespace, Goto
  <2>2. (fresh => obj.life = "live") /\ obj.fin
    BY <2>1 DEF OrderInv, FreshIsLive, Working, LifeInv, PassNames
  <2>3. ~misread /\ obj.life = "live" => ns' = "active"
    BY <2>1 DEF OrderInv, NamespaceFollows
  <2>4. NamespaceFollows'
    BY <2>1, <2>2, <2>3 DEF NamespaceFollows
  <2> QED  BY <2>1, <2>2, <2>4 DEF OrderInv, FreshIsLive, LastTells, CleanupIsFresh,
                                   Announced, Unannounced
<1>4. CASE CheckExpiry
  <2>1. CASE WriteObj(Deleted(obj)) /\ pc' = "idle"
    BY <1>4, <2>1, CondemnOrder DEF CheckExpiry
  <2>2. CASE ~(WriteObj(Deleted(obj)) /\ pc' = "idle")
    <3>1. /\ UNCHANGED <<obj, objFeed, cObj, ns, cNs, misread, faults, fresh>>
          /\ pc = "expiry" /\ pc' = "policies"
      BY <1>4, <2>2 DEF CheckExpiry, EndPass, Goto
    <3>2. (fresh => obj.life = "live") /\ pc \in Working
      BY <3>1 DEF OrderInv, FreshIsLive, Working
    <3> QED  BY <1>0, <3>1, <3>2, QuietOrder
  <2> QED  BY <2>1, <2>2
<1> QED  BY <1>1, <1>2, <1>3, <1>4

\* Provisioning and the status.
LEMMA CreateOrder ==
  ASSUME TypeOK, ReportInv, OrderInv,
         EnsurePolicies \/ EnsureRelay \/ EnsureGrader \/ EnsurePod \/ WriteStatus
  PROVE  OrderInv'
<1> USE DEF cluster, feeds, caches, pass, blame, bounds
<1>0. faults \in Nat /\ "idle" \notin Working /\ "cleanup" \notin Working /\ "terminating" \notin Working
  BY OffWork
<1>1. CASE EnsurePolicies \/ EnsureRelay \/ EnsureGrader \/ EnsurePod
  <2>1. /\ UNCHANGED <<obj, ns, cNs, objFeed, cObj, misread, faults>>
        /\ pc' # "cleanup" /\ (fresh' => fresh)
    BY <1>1, MiddleSteps
  <2>2. pc \in Working \ {"namespace"} /\ pc # "terminating"
    BY <1>1 DEF EnsurePolicies, EnsureRelay, EnsureGrader, EnsureRelayRole,
                EnsureRelayDeployment, EnsureRelayIngress, EnsureRelayPolicy,
                EnsureGraderDeployment, EnsureGraderIngress, EnsurePod, Provision,
                Working, Parts, RelayParts, GraderParts
  <2>3. fresh' => obj.life = "live"
    BY <2>1, <2>2 DEF OrderInv, FreshIsLive
  <2> QED  BY <1>0, <2>1, <2>2, <2>3, QuietOrder
<1>2. CASE Retry /\ pc # "terminating"
  BY <1>2, EndOrder DEF Retry, EndPass
<1>3. CASE WriteStatus /\ ~Retry
  <2>1. /\ pc = "status" /\ fresh /\ pc' = "idle" /\ UNCHANGED <<ns, cNs, misread, faults>>
        /\ obj' = [obj EXCEPT !.phase = PhaseOf(up), !.ready = up]
    BY <1>3 DEF WriteStatus, WriteObj, EndPass
  <2>2. obj.life = "live" /\ obj.fin /\ (~misread => ns = "active")
    BY <2>1 DEF OrderInv, FreshIsLive, NamespaceFollows, ReportInv, PassCounts, Working
  <2>3. obj'.life = "live" /\ obj'.fin
    BY <2>1, <2>2 DEF TypeOK, Envs
  <2> QED  BY <1>0, <2>1, <2>2, <2>3 DEF OrderInv, FreshIsLive, LastTells, CleanupIsFresh,
                                         NamespaceFollows, Announced, Unannounced
<1>4. pc # "terminating"
  BY DEF EnsurePolicies, EnsureRelay, EnsureGrader, EnsureRelayRole,
         EnsureRelayDeployment, EnsureRelayIngress, EnsureRelayPolicy,
         EnsureGraderDeployment, EnsureGraderIngress, EnsurePod, Provision, WriteStatus
<1> QED  BY <1>1, <1>2, <1>3, <1>4

\* reconcileDelete.
LEMMA DeleteOrder ==
  ASSUME TypeOK, LifeInv, ReportInv, OrderInv, Cleanup \/ SetTerminating
  PROVE  OrderInv'
<1> USE DEF cluster, feeds, caches, pass, blame, bounds
<1>0. faults \in Nat /\ "idle" \notin Working /\ "cleanup" \notin Working /\ "terminating" \notin Working
  BY OffWork
<1>1. CASE Cleanup /\ Retry
  BY <1>1, EndOrder DEF Cleanup, Retry, EndPass
<1>2. CASE Cleanup /\ ~Retry /\ pc' = "idle"
  <2>1. /\ obj' = Gone(obj.born) /\ cNs = "absent" /\ (~misread' => ~misread /\ ns = "absent")
        /\ UNCHANGED <<ns, cNs>>
    BY <1>2 DEF Cleanup, WriteObj, EndPass, Goto
  <2>2. obj'.life = "absent"
    BY <2>1 DEF Gone
  <2> QED  BY <1>0, <1>2, <2>1, <2>2 DEF OrderInv, FreshIsLive, LastTells, CleanupIsFresh,
                                         NamespaceFollows, Announced, Unannounced
<1>3. CASE Cleanup /\ ~Retry /\ pc' # "idle"
  <2>1. /\ UNCHANGED <<obj, objFeed, cObj, cNs, misread, faults, fresh>> /\ cNs # "absent"
        /\ pc = "cleanup" /\ pc' = "terminating"
    BY <1>3 DEF Cleanup, EndPass, Goto
  <2>2. Unannounced => fresh
    BY <2>1 DEF OrderInv, CleanupIsFresh
  <2>3. ~misread => obj.fin /\ obj.life # "live"
    BY <2>1 DEF OrderInv, NamespaceFollows, ReportInv, PassCounts
  <2> QED  BY <1>0, <2>1, <2>2, <2>3 DEF OrderInv, FreshIsLive, LastTells, CleanupIsFresh,
                                         NamespaceFollows, Announced, Unannounced
<1>4. CASE SetTerminating
  <2>1. pc = "terminating" /\ pc' = "idle" /\ UNCHANGED <<cObj, ns, cNs, misread, faults>>
    BY <1>4 DEF SetTerminating, EndPass
  <2>2. CASE fresh
    <3>1. obj' = [obj EXCEPT !.phase = "Terminating"]
      BY <1>4, <2>2 DEF SetTerminating, WriteObj
    <3>2. obj'.phase = "Terminating" /\ obj'.life = "deleting" /\ obj'.fin = obj.fin
      BY <2>1, <2>2, <3>1 DEF ReportInv, PassCounts, TypeOK, Envs
    <3> QED  BY <1>0, <2>1, <3>2 DEF OrderInv, FreshIsLive, LastTells, CleanupIsFresh,
                                     NamespaceFollows, Announced, Unannounced, PodPhases
  <2>3. CASE ~fresh
    <3>1. UNCHANGED <<obj, objFeed>>
      BY <1>4, <2>3 DEF SetTerminating
    <3> QED  BY <1>0, <2>1, <2>3, <3>1, QuietOrder
  <2> QED  BY <2>2, <2>3
<1> QED  BY <1>1, <1>2, <1>3, <1>4

\* Watches, cluster and owners.
LEMMA AroundOrder ==
  ASSUME TypeOK, LifeInv, ReportInv, OrderInv, Deliver \/ NamespaceGone \/ Environment
  PROVE  OrderInv'
<1> USE DEF cluster, feeds, caches, pass, blame, bounds
<1>0. faults \in Nat /\ "idle" \notin Working
  BY OffWork
<1>1. CASE DeliverObj
  <2>1. /\ objFeed # <<>> /\ objFeed \in Seq(Envs)
        /\ cObj' = Head(objFeed) /\ objFeed' = Tail(objFeed)
        /\ UNCHANGED <<obj, ns, cNs, misread, pc, fresh, faults>>
    BY <1>1 DEF DeliverObj, TypeOK
  <2>2. /\ Head(objFeed) = objFeed[1] /\ Len(objFeed') = Len(objFeed) - 1 /\ Len(objFeed) \in Nat \ {0}
        /\ \A i \in 1 .. Len(objFeed) - 1 : objFeed'[i] = objFeed[i + 1]
    BY <2>1
  <2>3. LastTells'
    <3> SUFFICES ASSUME Unannounced PROVE
           /\ cObj'.life = "deleting" => objFeed' = <<>>
           /\ \A i \in 1 .. Len(objFeed') - 1 : objFeed'[i].life # "deleting"
      BY <2>1 DEF LastTells, Unannounced
    <3>1. \A i \in 1 .. Len(objFeed) - 1 : objFeed[i].life # "deleting"
      BY DEF OrderInv, LastTells
    <3>2. CASE Len(objFeed) = 1
      BY <2>1, <2>2, <3>2
    <3>3. CASE Len(objFeed) # 1
      BY <2>1, <2>2, <3>1, <3>3
    <3> QED  BY <3>2, <3>3
  <2> QED  BY <2>1, <2>3 DEF OrderInv, FreshIsLive, CleanupIsFresh, NamespaceFollows,
                             Announced, Unannounced
<1>2. CASE \/ DeliverPods \/ (\E part \in LaggingParts : DeliverPart(part))
           \/ OutliveTTL \/ PodChanges \/ Resync
  <2>1. UNCHANGED <<obj, objFeed, cObj, ns, cNs, misread, pc, fresh, faults>>
    BY <1>2 DEF DeliverPods, DeliverPart, OutliveTTL, PodChanges, Resync
  <2> QED  BY <2>1 DEF OrderInv, FreshIsLive, LastTells, CleanupIsFresh, NamespaceFollows,
                       Announced, Unannounced
<1>3. CASE DeliverNs
  <2>1. /\ cNs # ns /\ UNCHANGED <<obj, objFeed, cObj, ns, misread, pc, fresh, faults>>
    BY <1>3 DEF DeliverNs
  <2>2. NamespaceFollows'
    BY <2>1 DEF OrderInv, NamespaceFollows
  <2> QED  BY <2>1, <2>2 DEF OrderInv, FreshIsLive, LastTells, CleanupIsFresh, Announced,
                             Unannounced
<1>4. CASE NamespaceGone
  <2>1. /\ ns = "terminating" /\ ns' = "absent"
        /\ UNCHANGED <<obj, objFeed, cObj, cNs, misread, pc, fresh, faults>>
    BY <1>4 DEF NamespaceGone
  <2>2. ~misread => obj.life # "live" /\ obj.fin
    BY <2>1 DEF OrderInv, NamespaceFollows
  <2> QED  BY <2>1, <2>2 DEF OrderInv, FreshIsLive, LastTells, CleanupIsFresh,
                             NamespaceFollows, Announced, Unannounced
<1>5. CASE Apply
  <2>1. /\ obj' = [Gone(obj.born + 1) EXCEPT !.life = "live"] /\ ~fresh'
        /\ obj.life = "absent" /\ UNCHANGED <<ns, cNs, misread, pc, faults>>
    BY <1>5 DEF Apply, WriteObj
  <2>2. obj'.life = "live" /\ obj'.phase = "none" /\ ~obj'.fin
    BY <2>1 DEF Gone
  <2>3. ~obj.fin /\ pc \notin Working
    BY <2>1 DEF LifeInv, ReportInv, PassCounts
  <2> QED  BY <2>1, <2>2, <2>3 DEF OrderInv, FreshIsLive, LastTells, CleanupIsFresh,
                                   NamespaceFollows, Announced, Unannounced
<1>6. CASE Stop
  BY <1>6, CondemnOrder DEF Stop
<1>7. CASE CallFails
  <2>1. /\ faults' = faults + 1 /\ pc' = "idle"
        /\ UNCHANGED <<obj, objFeed, cObj, ns, cNs, misread>>
    BY <1>7 DEF CallFails, EndPass
  <2> QED  BY <1>0, <2>1, QuietOrder
<1>8. CASE Restart
  <2>1. /\ faults' = faults + 1 /\ pc' = "idle" /\ cObj' = obj /\ objFeed' = <<>>
        /\ cNs' = ns /\ UNCHANGED <<obj, ns, misread>>
    BY <1>8 DEF Restart
  <2> QED  BY <1>0, <2>1 DEF OrderInv, FreshIsLive, LastTells, CleanupIsFresh,
                             NamespaceFollows, Announced, Unannounced
<1> QED  BY <1>1, <1>2, <1>3, <1>4, <1>5, <1>6, <1>7, <1>8 DEF Deliver, Environment

-----------------------------------------------------------------------------
(* The refinement of EnvLifecycle.                                         *)

\* What is true of every reachable state of the operator.
OperatorInv == TypeOK /\ LifeInv /\ ReportInv /\ OrderInv

\* It is at the beginning.
LEMMA InitOperator == Init => OperatorInv
BY InitType, InitLife, InitReport, InitOrder DEF OperatorInv

\* And every step keeps it.
LEMMA OperatorStep ==
  ASSUME OperatorInv, [Next]_vars
  PROVE  OperatorInv'
<1>1. TypeOK' /\ LifeInv' /\ ReportInv'
  BY StepType, LifeStep, ReportStep DEF OperatorInv
<1>2. OrderInv'
  <2>1. CASE Reconcile
    BY <2>1, PassOrder, CreateOrder, DeleteOrder DEF Reconcile, OperatorInv
  <2>2. CASE UNCHANGED vars
    <3>1. UNCHANGED <<obj, objFeed, cObj, ns, cNs, misread, pc, fresh, faults>>
      BY <2>2 DEF vars, cluster, feeds, caches, pass, blame, bounds
    <3> QED  BY <3>1 DEF OperatorInv, OrderInv, FreshIsLive, LastTells, CleanupIsFresh,
                         NamespaceFollows, Announced, Unannounced
  <2> QED  BY <2>1, <2>2, AroundOrder DEF Next, OperatorInv
<1> QED  BY <1>1, <1>2 DEF OperatorInv

\* What EnvLifecycle sees as a failure.
Failed == faults > 0 \/ misread

\* A delete condemns an object that is held, and removes one that never was.
LEMMA DeleteRefines ==
  ASSUME OperatorInv, obj' = Deleted(obj)
  PROVE  \/ Lifecycle!Condemn \/ Lifecycle!Cancel
         \/ UNCHANGED <<obj.life, obj.phase>>
<1>1. CASE obj.life = "live" /\ obj.fin
  <2>1. obj' = [obj EXCEPT !.life = "deleting"]
    BY <1>1 DEF Deleted
  <2> QED  BY <1>1, <2>1 DEF Lifecycle!Condemn, OperatorInv, TypeOK, Envs
<1>2. CASE obj.life = "live" /\ ~obj.fin
  <2>1. obj' = Gone(obj.born) /\ obj.phase = "none"
    BY <1>2 DEF Deleted, OperatorInv, ReportInv, UnheldIsNew
  <2> QED  BY <1>2, <2>1 DEF Lifecycle!Cancel, Gone
<1>3. CASE obj.life # "live"
  BY <1>3 DEF Deleted
<1> QED  BY <1>1, <1>2, <1>3

\* The end of reconcileDelete takes away what has said Terminating, unless a call
\* has failed or, at the latest in this step, a cache had no namespace yet.
LEMMA CleanupRefines ==
  ASSUME OperatorInv, Cleanup, obj' # obj
  PROVE  Lifecycle!Vanish
<1> USE DEF cluster, feeds, caches, blame, bounds
<1>1. /\ pc = "cleanup" /\ fresh /\ obj' = Gone(obj.born)
      /\ misread' = (misread \/ ns # "absent") /\ faults' = faults
  BY DEF Cleanup, WriteObj, Retry
<1>2. obj.life = "deleting" /\ faults \in Nat
  BY <1>1, OffWork DEF OperatorInv, LifeInv, PassNames
<1>3. obj.phase \in PodPhases => faults > 0 \/ misread \/ ns = "active"
  BY <1>1, <1>2 DEF OperatorInv, OrderInv, Announced, Unannounced
<1>4. obj.phase \in PodPhases => faults' > 0 \/ misread'
  BY <1>1, <1>3
<1>5. obj'.life = "absent" /\ obj'.phase = "none"
  BY <1>1 DEF Gone
<1> QED  BY <1>2, <1>4, <1>5 DEF Lifecycle!Vanish, Lifecycle!PodPhases, PodPhases

\* The steps that write the object show it in the order of EnvLifecycle.
LEMMA WriteRefines ==
  ASSUME OperatorInv, [Next]_vars
  PROVE  \/ Lifecycle!Create \/ Lifecycle!Report \/ Lifecycle!Condemn \/ Lifecycle!Cancel
         \/ Lifecycle!Terminate \/ Lifecycle!Vanish
         \/ UNCHANGED <<obj.life, obj.phase>>
<1> USE DEF cluster, feeds, caches, pass, blame, bounds
<1>1. CASE UNCHANGED obj
  BY <1>1
<1>2. CASE EnsureFinalizer
  <2>1. obj' \in {obj, [obj EXCEPT !.fin = TRUE]}
    BY <1>2 DEF EnsureFinalizer, WriteObj, Retry
  <2> QED  BY <2>1 DEF OperatorInv, TypeOK, Envs
<1>3. CASE CheckExpiry \/ Stop
  <2>1. obj' \in {obj, Deleted(obj)}
    BY <1>3 DEF CheckExpiry, Stop, WriteObj
  <2> QED  BY <1>1, <2>1, DeleteRefines
<1>4. CASE WriteStatus /\ ~UNCHANGED obj
  <2>1. /\ pc = "status" /\ fresh
        /\ obj' = [obj EXCEPT !.phase = PhaseOf(up), !.ready = up]
    BY <1>4 DEF WriteStatus, WriteObj, Retry
  <2>2. obj.life = "live"
    BY <2>1 DEF OperatorInv, OrderInv, FreshIsLive, Working
  <2>3. obj'.life = obj.life /\ obj'.phase \in PodPhases
    BY <2>1, PhaseOfType DEF OperatorInv, TypeOK, Envs
  <2> QED  BY <2>2, <2>3 DEF Lifecycle!Report, Lifecycle!PodPhases, PodPhases
<1>5. CASE Cleanup /\ ~UNCHANGED obj
  BY <1>5, CleanupRefines
<1>6. CASE SetTerminating /\ ~UNCHANGED obj
  <2>1. pc = "terminating" /\ fresh /\ obj' = [obj EXCEPT !.phase = "Terminating"]
    BY <1>6 DEF SetTerminating, WriteObj
  <2>2. obj.life = "deleting" /\ obj'.life = obj.life /\ obj'.phase = "Terminating"
    BY <2>1 DEF OperatorInv, ReportInv, PassCounts, TypeOK, Envs
  <2> QED  BY <2>2 DEF Lifecycle!Terminate
<1>7. CASE Apply
  <2>1. obj.life = "absent" /\ obj' = [Gone(obj.born + 1) EXCEPT !.life = "live"]
    BY <1>7 DEF Apply, WriteObj
  <2>2. obj'.life = "live" /\ obj'.phase = "none"
    BY <2>1 DEF Gone
  <2> QED  BY <2>1, <2>2 DEF Lifecycle!Create
<1>8. CASE Take \/ EnsureNamespace
  BY <1>1, <1>8 DEF Take, EnsureNamespace
<1>9. CASE EnsurePolicies \/ EnsureRelay \/ EnsureGrader \/ EnsurePod
  BY <1>1, <1>9, MiddleSteps
<1>10. CASE Deliver \/ NamespaceGone \/ OutliveTTL \/ PodChanges \/ CallFails \/ Restart \/ Resync
            \/ UNCHANGED vars
  BY <1>1, <1>10 DEF Deliver, DeliverObj, DeliverPods, DeliverNs, DeliverPart, NamespaceGone,
                     OutliveTTL, PodChanges, CallFails, Restart, Resync, vars
<1> QED
  BY <1>1, <1>2, <1>3, <1>4, <1>5, <1>6, <1>7, <1>8, <1>9, <1>10
     DEF Next, Reconcile, Environment

\* A failure is never forgotten.
LEMMA FailuresStay ==
  TypeOK /\ [Next]_vars => faults' \in {faults, faults + 1} /\ misread' \in {misread, TRUE}
<1> USE DEF cluster, feeds, caches, pass, blame, bounds
<1> SUFFICES ASSUME TypeOK, [Next]_vars
             PROVE  faults' \in {faults, faults + 1} /\ misread' \in {misread, TRUE}
  OBVIOUS
<1>1. CASE EnsurePolicies \/ EnsureRelay \/ EnsureGrader \/ EnsurePod
  BY <1>1, MiddleSteps
<1>2. CASE Take \/ EnsureFinalizer \/ EnsureNamespace \/ CheckExpiry \/ WriteStatus \/ SetTerminating
  BY <1>2 DEF Take, EnsureFinalizer, EnsureNamespace, CheckExpiry, WriteStatus,
              SetTerminating, Retry
<1>3. CASE Cleanup
  <2>1. faults' = faults /\ (misread' = misread \/ misread' = (misread \/ ns # "absent"))
    BY <1>3 DEF Cleanup, Retry
  <2>2. (misread \/ ns # "absent") \in {misread, TRUE}
    BY DEF TypeOK
  <2> QED  BY <2>1, <2>2
<1>4. CASE Deliver \/ NamespaceGone \/ Environment \/ UNCHANGED vars
  BY <1>4 DEF Deliver, DeliverObj, DeliverPods, DeliverNs, DeliverPart, NamespaceGone,
              Environment, Apply, Stop, OutliveTTL, PodChanges, CallFails, Restart, Resync, vars
<1> QED  BY <1>1, <1>2, <1>3, <1>4 DEF Next, Reconcile

\* However far behind the caches are, the operator shows an environment in the order
\* of lives and phases that EnvLifecycle promises: no status of an overtaken pass,
\* and Terminating before it goes unless a call failed or a cache had no namespace
\* yet.
THEOREM LifecycleImplemented == Spec => ImplementsLifecycle
<1>1. Init => Lifecycle!Init
  BY DEF Init, Gone, Lifecycle!Init
<1>2. OperatorInv /\ [Next]_vars => [Lifecycle!Next]_<<obj.life, obj.phase, faults > 0 \/ misread>>
  <2> SUFFICES ASSUME OperatorInv, [Next]_vars
               PROVE  [Lifecycle!Next]_<<obj.life, obj.phase, faults > 0 \/ misread>>
    OBVIOUS
  <2>1. Failed' \in {Failed, TRUE}
    <3>1. faults' \in Nat /\ faults \in Nat /\ (faults > 0 => faults' > 0)
      <4>1. faults \in Nat /\ faults' \in {faults, faults + 1}
        BY FailuresStay, OffWork DEF OperatorInv
      <4> QED  BY <4>1
    <3>2. misread => misread'
      BY FailuresStay DEF OperatorInv
    <3>3. CASE Failed'
      <4>1. Failed' = TRUE
        BY <3>3 DEF Failed
      <4> QED  BY <4>1, Zenon
    <3>4. CASE ~Failed'
      <4>1. Failed' = Failed
        BY <3>1, <3>2, <3>4 DEF Failed
      <4> QED  BY <4>1, Zenon
    <3> QED  BY <3>3, <3>4
  <2> QED  BY <2>1, WriteRefines DEF Lifecycle!Next, Failed
<1>3. OperatorInv /\ [Next]_vars => OperatorInv'
  BY OperatorStep
<1> QED
  BY <1>1, <1>2, <1>3, InitOperator, PTL DEF Spec, ImplementsLifecycle, Lifecycle!Spec
=============================================================================
