----------------------------- MODULE Downstream -----------------------------
(***************************************************************************)
(* attempt-controller, PocketBase -> Kubernetes. Two goroutines run the    *)
(* same reconciler without a lock between them: "sub" reads the realtime   *)
(* stream, "tick" the periodic resync. Each works on attempts it read      *)
(* earlier: todo[t] is what goroutine t has read and not yet acted on.     *)
(***************************************************************************)
EXTENDS PocketBase, LabCluster

CONSTANT Malformed   \* attempts whose lab's environment or exercises do not parse

ASSUME DownstreamAssumption == Malformed \subseteq Attempts

VARIABLES
  todo,   \* todo[t]: the attempts, as read, that t has still to reconcile
  mark    \* mark[t]: the attempt whose LabEnvironment t found missing, or None

downVars == <<todo, mark>>

Threads == {"sub", "tick"}
Items   == [id : Attempts, des : DesiredStates]

DownTypeOK ==
  /\ todo \in [Threads -> Seq(Items)]
  /\ mark \in [Threads -> Attempts \cup {None}]

DownInit ==
  /\ todo = [t \in Threads |-> <<>>]
  /\ mark = [t \in Threads |-> None]

Idle(t) == todo[t] = <<>> /\ mark[t] = None

\* The expiry times the backend still holds for a.
InUse(a) == {rec[a].exp}

-----------------------------------------------------------------------------
\* The records a resync fetches: those not where they should be, less those
\* that do not parse.
\* Mutant: the resync asks for provisioned and provisioning attempts only.
UnsettledNotNew == {a \in Attempts : /\ Live(a) /\ rec[a].cur # rec[a].des
                                     /\ rec[a].cur # "new"}

Unsettled == {a \in Attempts : Live(a) /\ rec[a].cur # rec[a].des}

AsItems(s) == [i \in DOMAIN s |-> [id |-> s[i], des |-> rec[s[i]].des]]

\* ResyncAttempts on thread t: read the list, then work through it.
Resync(t) ==
  /\ \/ /\ \E s \in Orderings(Unsettled \ Malformed) : todo' = [todo EXCEPT ![t] = AsItems(s)]
        /\ NoFault
     \/ UNCHANGED todo /\ GetFails
  /\ UNCHANGED <<mark, clusterVars>>

TickResync == Idle("tick") /\ Resync("tick") /\ UNCHANGED pbVars

\* The stream is (re)opened and subscribed; from here on events are delivered.
Subscribe ==
  /\ Idle("sub")
  /\ conn = "down"
  /\ conn' = "subscribed"
  /\ NoFault
  /\ UNCHANGED <<rec, checked, feed, downVars, clusterVars>>

\* onConnect: the resync after every (re)connection.
ConnectResync ==
  /\ conn = "subscribed"
  /\ conn' = "up"
  /\ Resync("sub")
  /\ UNCHANGED <<rec, checked, feed>>

\* What the event handler decides to reconcile for event ev: nothing, or one
\* attempt. A record still wanted is fetched again, as events do not carry the
\* lab; one that is gone is treated as decommissioned.
Handled(ev) ==
  LET a == ev.id
      one(d) == <<[id |-> a, des |-> d]>>
  IN  CASE ev.des = "decommissioned" /\ ev.cur = "decommissioned" -> <<>>
        [] ev.des = "decommissioned" /\ ev.cur # "decommissioned" -> one("decommissioned")
        [] ev.des # "decommissioned" /\ ~Live(a)                  -> one("decommissioned")
        [] ev.des # "decommissioned" /\ Live(a) /\ a \in Malformed -> <<>>
        [] OTHER                                                  -> one(rec[a].des)

\* Mutant: any error of GetAttempt counts as "not found".
HandleEventAnyError ==
  /\ conn = "up"
  /\ Idle("sub")
  /\ feed # <<>>
  /\ feed' = Tail(feed)
  /\ \/ todo' = [todo EXCEPT !["sub"] = Handled(NextEvent)] /\ NoFault
     \/ /\ NextEvent.des # "decommissioned"
        /\ GetFails
        /\ todo' = [todo EXCEPT !["sub"] =
                       <<[id |-> NextEvent.id, des |-> "decommissioned"]>>]
  /\ UNCHANGED <<rec, checked, conn, mark, clusterVars>>

HandleEvent ==
  /\ conn = "up"
  /\ Idle("sub")
  /\ feed # <<>>
  /\ feed' = Tail(feed)
  /\ \/ todo' = [todo EXCEPT !["sub"] = Handled(NextEvent)] /\ NoFault
     \/ /\ NextEvent.des # "decommissioned"   \* GetAttempt fails: event dropped
        /\ GetFails
        /\ UNCHANGED todo
  /\ UNCHANGED <<rec, checked, conn, mark, clusterVars>>

-----------------------------------------------------------------------------
\* Mutant: a delete that finds nothing is taken for done.
ReconcileNoMark(t) ==
  /\ todo[t] # <<>>
  /\ mark[t] = None
  /\ todo' = [todo EXCEPT ![t] = Tail(@)]
  /\ LET a == Head(todo[t]).id
         d == Head(todo[t]).des
     IN  \/ Fail("kube") /\ UNCHANGED clusterVars
         \/ d = "decommissioned" /\ ~Exists(a) /\ NoFault /\ UNCHANGED clusterVars
         \/ d = "decommissioned" /\ Delete(a, InUse(a)) /\ NoFault
         \/ d # "decommissioned" /\ Apply(a, InUse(a)) /\ NoFault
  /\ UNCHANGED <<mark, pbVars>>

\* ReconcileAttempt, the calls to Kubernetes: a delete that finds nothing
\* leads to a PATCH; a failed call is only logged.
Reconcile(t) ==
  /\ todo[t] # <<>>
  /\ mark[t] = None
  /\ todo' = [todo EXCEPT ![t] = Tail(@)]
  /\ LET a == Head(todo[t]).id
         d == Head(todo[t]).des
     IN  \/ /\ Fail("kube")
            /\ UNCHANGED <<mark, clusterVars>>
         \/ /\ d = "decommissioned" /\ ~Exists(a)
            /\ mark' = [mark EXCEPT ![t] = a]
            /\ NoFault
            /\ UNCHANGED clusterVars
         \/ /\ d = "decommissioned"
            /\ Delete(a, InUse(a))
            /\ NoFault
            /\ UNCHANGED mark
         \/ /\ d # "decommissioned"
            /\ Apply(a, InUse(a))
            /\ NoFault
            /\ UNCHANGED mark
  /\ UNCHANGED pbVars

\* ReconcileAttempt, the PATCH after a delete that found nothing.
MarkDecommissioned(t) ==
  LET a == mark[t] IN
  /\ a # None
  /\ mark' = [mark EXCEPT ![t] = None]
  /\ \/ PatchOK(a, [rec[a] EXCEPT !.cur = "decommissioned"])
     \/ PatchFails(a)
  /\ UNCHANGED <<todo, clusterVars>>

DownNext ==
  \/ TickResync
  \/ Subscribe
  \/ ConnectResync
  \/ HandleEvent
  \/ \E t \in Threads : Reconcile(t) \/ MarkDecommissioned(t)
=============================================================================
