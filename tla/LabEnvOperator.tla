--------------------------- MODULE LabEnvOperator ---------------------------
(***************************************************************************)
(* labenv-operator's reconciler for one LabEnvironment name. Reconcile     *)
(* runs as a pass of API calls, one action each, over objects it reads     *)
(* from the manager's caches: every kind has a watch of its own, and each  *)
(* cache lags behind the API server on its own. One worker serves the key, *)
(* so passes do not overlap.                                               *)
(*                                                                         *)
(* The resource version of the copy a pass holds is abstracted to fresh:   *)
(* whether it is still the server's, all that an update's outcome depends  *)
(* on. A time is the number of the last incarnation whose TTL is over.     *)
(***************************************************************************)
EXTENDS Naturals, Sequences

\* What provisions a namespace, besides pods.
RelayParts  == {"relay role", "relay deployment", "relay ingress", "relay policy"}
GraderParts == {"grader deployment", "grader ingress"}
Parts       == {"policies"} \cup RelayParts \cup GraderParts

CONSTANTS
  Assets,      \* spec.assets
  BadAssets,   \* assets whose pod cannot be built or is rejected
  MaxBorn,     \* bound: incarnations of the object
  MaxLag,      \* bound: undelivered events of the object's and the pods' watch
  LaggingParts, \* bound: the parts whose cached copies may be out of date
  MaxFlips,    \* bound: readiness changes and evictions of pods
  MaxFaults    \* bound: API calls that fail, and restarts of the operator

ASSUME LabEnvOperatorAssumption ==
  /\ BadAssets \subseteq Assets /\ LaggingParts \subseteq Parts
  /\ MaxBorn \in Nat /\ MaxLag \in Nat \ {0}
  /\ MaxFlips \in Nat /\ MaxFaults \in Nat

VARIABLES
  obj,       \* the LabEnvironment on the API server
  ns,        \* its namespace
  made,      \* the parts provisioned in the namespace
  pods,      \* pods[a]: the pod of asset a
  expired,   \* incarnations up to this one have outlived their TTL
  objFeed, podFeed,          \* versions sent by the API server, not yet cached
  cObj, cNs, cPods, cMade,   \* the caches
  due,       \* the work queue: when it hands the key out; Never: it is not in it
  pc, env, fresh, todo, up,  \* the pass: where it is, the copy it holds, assets
                             \* to do, and those it found ready
  skipped,   \* history: parts the pass found in a cache and nowhere else
  excused,   \* history: those of the pass that wrote the status
  misread,   \* history: a finalizer went because a cache had no namespace yet
  flips, faults

cluster == <<ns, made, pods, expired>>
feeds   == <<objFeed, podFeed>>
caches  == <<cObj, cNs, cPods, cMade>>
pass    == <<pc, env, fresh, todo, up, skipped>>
blame   == <<excused, misread>>
bounds  == <<flips, faults>>
vars    == <<obj, cluster, feeds, caches, due, pass, blame, bounds>>

PodPhases   == {"Pending", "Degraded", "Ready"}
Namespaces  == {"absent", "active", "terminating"}
PodStates   == {"absent", "unready", "ready"}
Steps       == {"idle", "finalizer", "namespace", "expiry"} \cup Parts
                 \cup {"pods", "status", "cleanup", "terminating"}

Envs == [life  : {"absent", "live", "deleting"},
         born  : 0..MaxBorn,
         fin   : BOOLEAN,
         phase : PodPhases \cup {"none", "Terminating"},
         ready : SUBSET Assets]

Gone(b) ==
  [life |-> "absent", born |-> b, fin |-> FALSE, phase |-> "none", ready |-> {}]
NoPods  == [a \in Assets |-> "absent"]

\* Due times: 0 is at once or after a back-off, b at the expiry of incarnation b.
Now   == 0
Never == MaxBorn + 1
Sooner(s, t) == IF s < t THEN s ELSE t

TypeOK ==
  /\ obj \in Envs /\ cObj \in Envs /\ env \in Envs
  /\ objFeed \in Seq(Envs)
  /\ ns \in Namespaces /\ cNs \in Namespaces
  /\ made \subseteq Parts /\ cMade \subseteq LaggingParts
  /\ skipped \subseteq Parts /\ excused \subseteq Parts /\ misread \in BOOLEAN
  /\ pods \in [Assets -> PodStates] /\ cPods \in [Assets -> PodStates]
  /\ podFeed \in Seq([Assets -> PodStates])
  /\ expired \in 0..MaxBorn
  /\ due \in 0..Never
  /\ pc \in Steps
  /\ fresh \in BOOLEAN
  /\ todo \subseteq Assets /\ up \subseteq Assets
  /\ flips \in 0..MaxFlips /\ faults \in 0..MaxFaults

Init ==
  /\ obj = Gone(0) /\ cObj = Gone(0) /\ env = Gone(0)
  /\ ns = "absent" /\ cNs = "absent"
  /\ made = {} /\ cMade = {} /\ skipped = {} /\ excused = {} /\ misread = FALSE
  /\ pods = NoPods /\ cPods = NoPods
  /\ expired = 0
  /\ objFeed = <<>> /\ podFeed = <<>>
  /\ due = Never
  /\ pc = "idle" /\ fresh = FALSE /\ todo = {} /\ up = {}
  /\ flips = 0 /\ faults = 0

-----------------------------------------------------------------------------
\* The API server. A write that changes nothing makes no new version.
WriteObj(o) ==
  /\ obj' = o
  /\ IF o = obj THEN UNCHANGED objFeed
     ELSE Len(objFeed) < MaxLag /\ objFeed' = Append(objFeed, o)

WritePods(p) ==
  /\ pods' = p
  /\ Len(podFeed) < MaxLag /\ podFeed' = Append(podFeed, p)

\* What a delete of o leaves: the finalizer holds the object.
Deleted(o) ==
  CASE o.life = "live" /\ o.fin -> [o EXCEPT !.life = "deleting"]
    [] o.life = "live" /\ ~o.fin -> Gone(o.born)
    [] OTHER -> o

-----------------------------------------------------------------------------
\* How a pass goes on: with its next call, or back to the queue.
Goto(step) ==
  /\ pc' = step
  /\ UNCHANGED due

EndPass(t) ==
  /\ pc' = "idle" /\ env' = Gone(0) /\ fresh' = FALSE
  /\ todo' = {} /\ up' = {} /\ skipped' = {}
  /\ due' = Sooner(t, due)

\* A returned error: the key comes back after a back-off.
Retry == EndPass(Now) /\ UNCHANGED <<obj, cluster, feeds, caches, blame, bounds>>

Take ==
  /\ pc = "idle" /\ due <= expired
  /\ due' = Never
  /\ IF cObj.life = "absent" \/ (cObj.life = "deleting" /\ ~cObj.fin)
       THEN UNCHANGED pass
       ELSE /\ pc' = IF cObj.life = "live" THEN "finalizer" ELSE "cleanup"
            /\ env' = cObj
            /\ fresh' = (objFeed = <<>>)
            /\ UNCHANGED <<todo, up, skipped>>
  /\ UNCHANGED <<obj, cluster, feeds, caches, blame, bounds>>

-----------------------------------------------------------------------------
\* reconcileCreate. Mutant: the finalizer's update is not checked for an error.
FinalizerUnchecked ==
  /\ pc = "finalizer"
  /\ Goto("namespace")
  /\ env' = [env EXCEPT !.fin = TRUE]
  /\ IF fresh /\ ~env.fin THEN WriteObj([obj EXCEPT !.fin = TRUE])
                          ELSE UNCHANGED <<obj, objFeed>>
  /\ UNCHANGED <<cluster, podFeed, caches, fresh, todo, up, skipped, blame, bounds>>

\* An object that is not ours yet is not touched on an old copy of it.
EnsureFinalizer ==
  /\ pc = "finalizer"
  /\ IF fresh \/ env.fin
       THEN /\ Goto("namespace")
            /\ env' = [env EXCEPT !.fin = TRUE]
            /\ IF env.fin THEN UNCHANGED <<obj, objFeed>>
                          ELSE WriteObj([obj EXCEPT !.fin = TRUE])
            /\ UNCHANGED <<cluster, podFeed, caches, fresh, todo, up, skipped, blame, bounds>>
       ELSE Retry

\* Mutant: the parts are only provisioned along with the namespace.
ProvisionOnce ==
  /\ pc = "namespace"
  /\ IF cNs = "absent" /\ ns = "absent"
       THEN Goto("expiry") /\ ns' = "active" /\ UNCHANGED todo
       ELSE Goto("pods") /\ todo' = Assets /\ UNCHANGED ns
  /\ UNCHANGED <<obj, made, pods, expired, feeds, caches, env, fresh, up, skipped, blame, bounds>>

\* The namespace of another incarnation or of a lost race is taken over.
EnsureNamespace ==
  /\ pc = "namespace"
  /\ Goto("expiry")
  /\ ns' = IF cNs = "absent" /\ ns = "absent" THEN "active" ELSE ns
  /\ UNCHANGED <<obj, made, pods, expired, feeds, caches, env, fresh, todo, up, skipped,
                 blame, bounds>>

\* Mutant: expiry is only looked at for an environment whose pods all exist.
ExpiryLast ==
  /\ pc = "expiry"
  /\ IF env.born <= expired /\ \A a \in Assets : cPods[a] # "absent"
       THEN /\ WriteObj(Deleted(obj))
            /\ EndPass(Never)
       ELSE /\ Goto("policies")
            /\ UNCHANGED <<obj, objFeed, env, fresh, todo, up, skipped>>
  /\ UNCHANGED <<cluster, podFeed, caches, blame, bounds>>

\* Past its TTL the environment is deleted, by name; nothing is requeued.
CheckExpiry ==
  /\ pc = "expiry"
  /\ IF env.born <= expired
       THEN /\ WriteObj(Deleted(obj))
            /\ EndPass(Never)
       ELSE /\ Goto("policies")
            /\ UNCHANGED <<obj, objFeed, env, fresh, todo, up, skipped>>
  /\ UNCHANGED <<cluster, podFeed, caches, blame, bounds>>

\* Whether the caches have a part, all that its ensure functions look for.
Cached(part) == part \in IF part \in LaggingParts THEN cMade ELSE made

\* These hold a policy, on which a CreateOrUpdate fails that looked at an old copy;
\* the others take a copy as it is, and an "already exists" for success.
Upserted == {"policies", "relay policy"}

\* Get-or-create of everything a part consists of. What a cache still has of an
\* earlier namespace is not created; what must be created needs an active one.
Provision(part, next) ==
  /\ pc = part
  /\ \/ /\ Cached(part) \/ ns = "active"
        /\ made' = IF Cached(part) THEN made ELSE made \cup {part}
        /\ skipped' = IF part \in made' /\ ns = "active" THEN skipped ELSE skipped \cup {part}
        /\ Goto(next)
        /\ todo' = IF next = "pods" THEN Assets ELSE {}
        /\ UNCHANGED <<obj, ns, pods, expired, feeds, caches, env, fresh, up, blame, bounds>>
     \/ /\ \/ ~Cached(part) /\ ns # "active"
           \/ part \in Upserted /\ Cached(part) # (part \in made)
        /\ Retry

EnsurePolicies == Provision("policies", "relay role")

\* ensureRelay: account, role and binding; deployment; service and ingress; policy.
EnsureRelayRole       == Provision("relay role", "relay deployment")
EnsureRelayDeployment == Provision("relay deployment", "relay ingress")
EnsureRelayIngress    == Provision("relay ingress", "relay policy")
EnsureRelayPolicy     == Provision("relay policy", "grader deployment")
EnsureRelay == \/ EnsureRelayRole \/ EnsureRelayDeployment
               \/ EnsureRelayIngress \/ EnsureRelayPolicy

\* ensureRelayGrader: tasks and deployment; service, ingress and policy.
EnsureGraderDeployment == Provision("grader deployment", "grader ingress")
EnsureGraderIngress    == Provision("grader ingress", "pods")
EnsureGrader == EnsureGraderDeployment \/ EnsureGraderIngress

\* Assets whose image reference loads and whose pod the API server accepts.
Buildable == Assets \ BadAssets

\* One asset: create the pod unless the cache has it, then read its readiness
\* from the cache; and create its service, which takes an active namespace. A pod
\* that the cache does not have yet cannot be created again: that, a bad asset and
\* a namespace that is going or gone are errors.
EnsurePod ==
  /\ pc = "pods"
  /\ \/ /\ todo = {}
        /\ Goto("status")
        /\ UNCHANGED <<obj, cluster, feeds, caches, env, fresh, todo, up, skipped, blame, bounds>>
     \/ \E a \in todo :
          IF ns = "active" /\ (cPods[a] # "absent" \/ (pods[a] = "absent" /\ a \in Buildable))
            THEN /\ Goto("pods")
                 /\ todo' = todo \ {a}
                 /\ up' = IF cPods[a] = "ready" THEN up \cup {a} ELSE up
                 /\ IF cPods[a] = "absent" THEN WritePods([pods EXCEPT ![a] = "unready"])
                                           ELSE UNCHANGED <<pods, podFeed>>
                 /\ UNCHANGED <<obj, ns, made, expired, objFeed, caches, env, fresh, skipped,
                                blame, bounds>>
            ELSE Retry

\* Mutant: the pods' reason is reported as the phase.
ReasonOf(ready) == IF ready = Assets THEN "Ready" ELSE "ImagePullBackOff"

\* status.phase, from the assets found ready.
PhaseOf(ready) ==
  CASE ready = Assets -> "Ready"
    [] ready = {} /\ Assets # {} -> "Pending"
    [] OTHER -> "Degraded"

\* Mutant: the status is patched, whatever the copy's version.
StatusUnversioned ==
  /\ pc = "status"
  /\ IF obj.life # "absent"
       THEN /\ WriteObj([obj EXCEPT !.phase = PhaseOf(up), !.ready = up])
            /\ EndPass(env.born)
            /\ excused' = skipped
            /\ UNCHANGED <<cluster, podFeed, caches, misread, bounds>>
       ELSE Retry

\* The status goes in only if the copy is still the server's version; the key
\* comes back at the expiry time.
WriteStatus ==
  /\ pc = "status"
  /\ IF fresh
       THEN /\ WriteObj([obj EXCEPT !.phase = PhaseOf(up), !.ready = up])
            /\ EndPass(env.born)
            /\ excused' = skipped
            /\ UNCHANGED <<cluster, podFeed, caches, misread, bounds>>
       ELSE Retry

-----------------------------------------------------------------------------
\* reconcileDelete: the finalizer goes once the cache has no namespace. The delete
\* of one that is gone fails; that of one that is going may.
Cleanup ==
  /\ pc = "cleanup"
  /\ \/ /\ cNs = "absent" /\ fresh
        /\ WriteObj(Gone(obj.born))
        /\ misread' = (misread \/ ns # "absent")
        /\ EndPass(Never)
        /\ UNCHANGED <<cluster, podFeed, caches, excused, bounds>>
     \/ /\ cNs = "terminating" \/ (cNs = "active" /\ ns # "absent")
        /\ ns' = IF cNs = "active" THEN "terminating" ELSE ns
        /\ Goto("terminating")
        /\ UNCHANGED <<obj, made, pods, expired, feeds, caches, env, fresh, todo, up, skipped,
                       blame, bounds>>
     \/ /\ \/ cNs = "absent" /\ ~fresh
           \/ cNs = "active" /\ ns # "active"
        /\ Retry

\* Mutant: nothing is requeued once the namespace's delete is requested.
NoPolling ==
  /\ pc = "terminating"
  /\ EndPass(Never)
  /\ IF fresh THEN WriteObj([obj EXCEPT !.phase = "Terminating"])
              ELSE UNCHANGED <<obj, objFeed>>
  /\ UNCHANGED <<cluster, podFeed, caches, blame, bounds>>

\* The Terminating phase; its error is only logged. The key comes back in 5 s.
SetTerminating ==
  /\ pc = "terminating"
  /\ EndPass(Now)
  /\ IF fresh THEN WriteObj([obj EXCEPT !.phase = "Terminating"])
              ELSE UNCHANGED <<obj, objFeed>>
  /\ UNCHANGED <<cluster, podFeed, caches, blame, bounds>>

Reconcile ==
  \/ Take \/ EnsureFinalizer \/ EnsureNamespace \/ CheckExpiry
  \/ EnsurePolicies \/ EnsureRelay \/ EnsureGrader \/ EnsurePod \/ WriteStatus
  \/ Cleanup \/ SetTerminating

-----------------------------------------------------------------------------
\* The watches: objects and pods wake the reconciler, namespaces do not.
Enqueue == due' = Now

DeliverObj ==
  /\ objFeed # <<>>
  /\ cObj' = Head(objFeed) /\ objFeed' = Tail(objFeed)
  /\ Enqueue
  /\ UNCHANGED <<obj, cluster, podFeed, cNs, cPods, cMade, pass, blame, bounds>>

\* Mutant: pods are cached but wake nobody.
PodsUnwatched ==
  /\ podFeed # <<>>
  /\ cPods' = Head(podFeed) /\ podFeed' = Tail(podFeed)
  /\ UNCHANGED <<obj, cluster, objFeed, cObj, cNs, cMade, due, pass, blame, bounds>>

DeliverPods ==
  /\ podFeed # <<>>
  /\ cPods' = Head(podFeed) /\ podFeed' = Tail(podFeed)
  /\ Enqueue
  /\ UNCHANGED <<obj, cluster, objFeed, cObj, cNs, cMade, pass, blame, bounds>>

\* The next state of a namespace. A cache goes through all of them: one that has
\* none creates it, and only one that has it deletes it.
Following(n) == [absent |-> "active", active |-> "terminating", terminating |-> "absent"][n]

DeliverNs ==
  /\ cNs # ns
  /\ cNs' = Following(cNs)
  /\ UNCHANGED <<obj, cluster, feeds, cObj, cPods, cMade, due, pass, blame, bounds>>

\* Some kind's cache catches up with a part.
DeliverPart(part) ==
  /\ (part \in cMade) # (part \in made)
  /\ cMade' = IF part \in made THEN cMade \cup {part} ELSE cMade \ {part}
  /\ UNCHANGED <<obj, cluster, feeds, cObj, cNs, cPods, due, pass, blame, bounds>>

Deliver == DeliverObj \/ DeliverPods \/ DeliverNs \/ \E part \in LaggingParts : DeliverPart(part)

-----------------------------------------------------------------------------
\* The attempt-controller: server-side apply, and delete.
Apply ==
  /\ obj.life = "absent" /\ obj.born < MaxBorn
  /\ WriteObj([Gone(obj.born + 1) EXCEPT !.life = "live"])
  /\ fresh' = FALSE /\ excused' = {}
  /\ UNCHANGED <<cluster, podFeed, caches, due, pc, env, todo, up, skipped, misread, bounds>>

Stop ==
  /\ obj.life = "live"
  /\ WriteObj(Deleted(obj))
  /\ fresh' = FALSE
  /\ UNCHANGED <<cluster, podFeed, caches, due, pc, env, todo, up, skipped, blame, bounds>>

\* Time passes.
OutliveTTL ==
  /\ obj.life # "absent" /\ expired < obj.born
  /\ expired' = obj.born
  /\ UNCHANGED <<obj, ns, made, pods, feeds, caches, due, pass, blame, bounds>>

\* The cluster: a pod turns ready or unready, or is evicted.
PodChanges ==
  /\ flips < MaxFlips /\ flips' = flips + 1
  /\ \E a \in Assets : \E s \in PodStates \ {pods[a]} :
       pods[a] # "absent" /\ WritePods([pods EXCEPT ![a] = s])
  /\ UNCHANGED <<obj, ns, made, expired, objFeed, caches, due, pass, blame, faults>>

\* A terminating namespace goes with all it holds.
NamespaceGone ==
  /\ ns = "terminating"
  /\ ns' = "absent"
  /\ made' = {}
  /\ IF pods = NoPods THEN UNCHANGED <<pods, podFeed>> ELSE WritePods(NoPods)
  /\ UNCHANGED <<obj, expired, objFeed, caches, due, pass, blame, bounds>>

\* An API call returns an error, whether or not it took effect.
CallFails ==
  /\ pc # "idle" /\ faults < MaxFaults
  /\ faults' = faults + 1
  /\ EndPass(Now)
  /\ UNCHANGED <<obj, cluster, feeds, caches, blame, flips>>

\* The operator restarts: the caches start from lists, which also wake the
\* reconciler for every object and every pod there is.
Restart ==
  /\ faults < MaxFaults /\ faults' = faults + 1
  /\ cObj' = obj /\ cNs' = ns /\ cPods' = pods /\ cMade' = made \cap LaggingParts
  /\ objFeed' = <<>> /\ podFeed' = <<>>
  /\ pc' = "idle" /\ env' = Gone(0) /\ fresh' = FALSE
  /\ todo' = {} /\ up' = {} /\ skipped' = {}
  /\ due' = IF obj.life # "absent" \/ pods # NoPods THEN Now ELSE Never
  /\ UNCHANGED <<obj, cluster, blame, flips>>

\* The cache's periodic resync.
Resync ==
  /\ cObj.life # "absent"
  /\ Enqueue
  /\ UNCHANGED <<obj, cluster, feeds, caches, pass, blame, bounds>>

Environment ==
  \/ Apply \/ Stop \/ OutliveTTL \/ PodChanges \/ CallFails \/ Restart \/ Resync

Next == Reconcile \/ Deliver \/ NamespaceGone \/ Environment

Spec == Init /\ [][Next]_vars

\* The worker runs, the watches deliver, the namespace controller finishes.
Fairness ==
  /\ WF_vars(Reconcile)
  /\ WF_vars(DeliverObj) /\ WF_vars(DeliverPods) /\ WF_vars(DeliverNs)
  /\ \A part \in LaggingParts : WF_vars(DeliverPart(part))
  /\ WF_vars(NamespaceGone)

FairSpec == Spec /\ Fairness

-----------------------------------------------------------------------------
\* Action property. A namespace comes to be without its object's finalizer in one
\* way only: reconcileDelete takes a cache that has not got it yet for its end
\* (labenvironment_controller.go:224). Otherwise ensureFinalizer comes before
\* ensureNamespace, and the finalizer stays until the namespace is gone.
NamespaceIsHeld ==
  [][ns' # "absent" /\ ~obj'.fin =>
       (ns # "absent" /\ ~obj.fin) \/ (pc = "cleanup" /\ cNs = "absent")]_vars

\* What reconcileDelete logs as "cleanup complete": no object, no namespace.
CleanupMeansGone == obj.life = "absent" => ns = "absent"

\* Safety. A live environment with a status has the network policies, the quota,
\* the relay and the grader, but for what the pass that wrote the status found in
\* a cache although the namespace it belonged to had gone: passes that fail
\* half-way, and those that resume them, leave nothing else out.
ReportedMeansProvisioned ==
  obj.life = "live" /\ obj.phase # "none" => made \cup excused = Parts

\* Action property. The expiry in reconcileCreate deletes by name, on a copy
\* that may be old: it never hits an incarnation whose own TTL is not over.
NoEarlyEviction ==
  [][pc = "expiry" /\ pc' # pc /\ obj.life = "live" /\ obj'.life # "live"
       => obj.born <= expired]_vars

\* Refinement. Whatever the interleaving of passes, owner, cluster and cache
\* lag, the object is only seen in the order of EnvLifecycle: a status written
\* by an overtaken pass never shows, and Terminating is said before it goes, unless
\* a call failed or a cache had no namespace yet.
Lifecycle == INSTANCE EnvLifecycle
               WITH life <- obj.life, phase <- obj.phase, failed <- faults > 0 \/ misread
ImplementsLifecycle == Lifecycle!Spec

\* Liveness. A condemned environment is cleaned up, namespace first, although
\* nothing watches namespaces (the requeue after 5 s), unless a finalizer went
\* because a cache had no namespace yet.
CleanupCompletes ==
  obj.life = "deleting" ~> (obj.life = "absent" /\ ns = "absent") \/ misread

\* Liveness. An environment past its TTL is condemned, whatever is wrong with
\* its assets (the expiry check comes before what can fail, and the status'
\* requeue carries the remaining time).
EnvExpires == obj.life = "live" /\ obj.born <= expired ~> obj.life # "live"

\* Liveness. Once a live environment is left alone, every asset has a pod and
\* the phase is that of the pods (the pods' watch, conflicts retried).
StatusSettles ==
  <>[](obj.life = "live") =>
    <>[](/\ \A a \in Assets : pods[a] # "absent"
         /\ obj.ready = {a \in Assets : pods[a] = "ready"}
         /\ obj.phase = PhaseOf(obj.ready))
=============================================================================
