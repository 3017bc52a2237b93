-------------------------- MODULE LabSession_proofs -------------------------
(***************************************************************************)
(* Proofs about LabSession, for any number of visits, attempts, callbacks  *)
(* and events under way, with and without failures, losses, late saves and *)
(* another tab.                                                            *)
(*                                                                         *)
(* The buttons of the page look at the state of the attempt shown, not at  *)
(* its id: that there is an attempt to remove, or to open a terminal of,   *)
(* rests on no record of the store or on its way to it having a state      *)
(* without an id. That terminals, and the connection to the grader, are    *)
(* those of the attempt shown.                                             *)
(***************************************************************************)
EXTENDS LabSession, TLAPS, SequenceTheorems

\* A record of an attempt, or none.
Genuine(r) == r \in Records /\ (r.id = 0 => r.state = "none")

RecordsGenuine ==
  /\ Genuine(last) /\ Genuine(loaded)
  /\ \A i \in DOMAIN events : Genuine(events[i])

VisitOpen == mounted => visit \in Visits

WatchLabels == {"idle", "stop", "kept", "subscribe", "refused"}

GhostsOK == crossed \in BOOLEAN /\ clicks \in 0..MaxClicks

IInv == TypeOK /\ RecordsGenuine /\ VisitOpen

\* What is written when lastAttempt becomes a record.
LEMMA ShowType ==
  ASSUME IInv, NEW r, Genuine(r), Show(r)
  PROVE  /\ Genuine(last') /\ last' \in Records
         /\ subs' \subseteq Subs /\ tabs' \subseteq Attempts
         /\ watching' \in [Subs -> WatchLabels]
         /\ grader' \in [Visits -> 0..MaxAttempts]
<1>0. r \in Records /\ r.id \in 0..MaxAttempts
  BY DEF Genuine, Records
<1>1. Genuine(last') /\ last' \in Records
  BY <1>0 DEF Show
<1>2. /\ subs \subseteq Subs /\ tabs \subseteq Attempts /\ watching \in [Subs -> WatchLabels]
      /\ grader \in [Visits -> 0..MaxAttempts]
  BY DEF IInv, TypeOK, WatchLabels
<1>3. /\ subs' \subseteq Subs /\ tabs' \subseteq Attempts
      /\ watching' \in [Subs -> WatchLabels]
  <2>1. CASE UNCHANGED <<subs, tabs, watching>>
    BY <1>2, <2>1
  <2>2. ASSUME WatchId(r)
        PROVE  /\ subs' \subseteq Subs /\ tabs' \subseteq Attempts
               /\ watching' \in [Subs -> WatchLabels]
    <3>1. PICK k, x : /\ subs' \subseteq subs /\ tabs' \in {{}, tabs}
                      /\ watching' = [watching EXCEPT ![k] = x] /\ x \in WatchLabels
      BY <2>2 DEF WatchId, ResetTabs, AfterStop, WatchLabels
    <3> QED  BY <1>2, <3>1
  <2> QED  BY <2>1, <2>2 DEF Show
<1>4. grader' \in [Visits -> 0..MaxAttempts]
  <2>1. PICK x \in 0..MaxAttempts :
          grader' \in {grader, [grader EXCEPT ![visit] = x]}
    BY <1>0, LabSessionAssumption DEF Show, WatchState
  <2> QED  BY <1>2, <2>1
<1> QED  BY <1>1, <1>3, <1>4

\* A message less, the first.
LEMMA TailType ==
  ASSUME IInv, events # <<>>
  PROVE  /\ Head(events) \in Records /\ Genuine(Head(events))
         /\ Tail(events) \in Seq(Records) /\ Len(Tail(events)) <= MaxEvents
         /\ \A i \in DOMAIN Tail(events) : Genuine(Tail(events)[i])
<1>1. events \in Seq(Records) /\ Len(events) <= MaxEvents /\ Len(events) \in Nat
  BY DEF IInv, TypeOK
<1>2. \A i \in 1..Len(events) : Genuine(events[i])
  BY <1>1 DEF IInv, RecordsGenuine
<1>3. Head(events) = events[1] /\ 1 \in 1..Len(events)
  BY <1>1, HeadTailProperties
<1>4. /\ Tail(events) \in Seq(Records) /\ Len(Tail(events)) = Len(events) - 1
      /\ \A i \in 1..Len(Tail(events)) : Tail(events)[i] = events[i + 1]
  BY <1>1, HeadTailProperties
<1>5. \A i \in 1..Len(Tail(events)) : Genuine(Tail(events)[i])
  BY <1>1, <1>2, <1>4
<1>6. Len(Tail(events)) <= MaxEvents
  BY <1>1, <1>4, LabSessionAssumption
<1> QED  BY <1>1, <1>2, <1>3, <1>4, <1>5, <1>6

\* A message more, if anyone listens.
LEMMA EventsType ==
  ASSUME IInv, NEW a \in Attempts, NEW s \in States, Emit(a, s)
  PROVE  /\ events' \in Seq(Records) /\ Len(events') <= MaxEvents
         /\ \A i \in DOMAIN events' : Genuine(events'[i])
<1> USE LabSessionAssumption
<1>1. events \in Seq(Records) /\ Len(events) <= MaxEvents /\ Len(events) \in Nat
  BY DEF IInv, TypeOK
<1>2. \A i \in 1..Len(events) : Genuine(events[i])
  BY <1>1 DEF IInv, RecordsGenuine
<1> DEFINE e == [id |-> a, state |-> s]
<1>3. e \in Records /\ Genuine(e)
  BY DEF Genuine, Records, Attempts
<1>4. UNCHANGED events \/ (Len(events) < MaxEvents /\ events' = Append(events, e))
  BY DEF Emit
<1> HIDE DEF e
<1>5. CASE Len(events) < MaxEvents /\ events' = Append(events, e)
  <2>1. /\ events' \in Seq(Records) /\ Len(events') = Len(events) + 1
        /\ \A i \in 1..Len(events) : events'[i] = events[i]
        /\ events'[Len(events) + 1] = e
    BY <1>1, <1>3, <1>5, AppendProperties
  <2>2. \A i \in 1..Len(events') : i \in 1..Len(events) \/ i = Len(events) + 1
    BY <1>1, <2>1
  <2>3. \A i \in 1..Len(events') : Genuine(events'[i])
    BY <1>2, <1>3, <2>1, <2>2
  <2> QED  BY <1>1, <1>5, <2>1, <2>3
<1> QED  BY <1>1, <1>2, <1>4, <1>5

-----------------------------------------------------------------------------
\* The answer to a load is a record, or none.
LEMMA LatestGenuine ==
  ASSUME IInv
  PROVE  Genuine(Latest)
<1>1. CASE updated = 0
  BY <1>1, LabSessionAssumption DEF Latest, Genuine, Nothing, Records, States
<1>2. CASE updated # 0
  <2>1. updated \in Attempts /\ cur[updated] \in States
    BY <1>2, LabSessionAssumption DEF IInv, TypeOK, Attempts
  <2> QED  BY <1>2, <2>1, LabSessionAssumption DEF Latest, Genuine, Records, Attempts
<1> QED  BY <1>1, <1>2

\* The history and the budget.
LEMMA GhostStep ==
  ASSUME IInv, [Next]_vars
  PROVE  GhostsOK'
<1>1. crossed \in BOOLEAN /\ clicks \in 0..MaxClicks
  BY DEF IInv, TypeOK
<1>2. clicks' \in {clicks, clicks + 1} /\ (clicks' # clicks => clicks < MaxClicks)
  <2>1. CASE Answers \/ Watchers \/ Hooks \/ HandleAttemptEvent \/ World \/ UNCHANGED vars
    BY <2>1 DEF Answers, LoadServed, LoadAnswers, LoadFails, AddServed, AddAnswers, AddFails,
       RemoveServed, RemoveAnswers, RemoveFails, Watchers, Unsubscribed, Subscribed, Hooks, LabFetched,
       InitStopped, LeaveStopped, HandleAttemptEvent, World, StartElsewhere, LoseEvent, Progress,
       ghosts, vars
  <2>2. CASE User
    BY <2>2 DEF User, Mount, Refresh, Provision, Decommission, OpenTab, Leave, Click
  <2> QED  BY <2>1, <2>2 DEF Next
<1>3. crossed' \in BOOLEAN
  <2>1. CASE Answers \/ Watchers \/ HandleAttemptEvent \/ World \/ UNCHANGED vars
    BY <1>1, <2>1 DEF Answers, LoadServed, LoadAnswers, LoadFails, AddServed, AddAnswers, AddFails,
       RemoveServed, RemoveAnswers, RemoveFails, Watchers, Unsubscribed, Subscribed,
       HandleAttemptEvent, World, StartElsewhere, LoseEvent, Progress, ghosts, vars
  <2>2. CASE User \/ Hooks
    BY <1>1, <2>2 DEF User, Mount, Refresh, Provision, Decommission, OpenTab, Leave, Hooks,
       LabFetched, InitStopped, LeaveStopped, StartLoad, ghosts
  <2> QED  BY <2>1, <2>2 DEF Next
<1>4. clicks' \in 0..MaxClicks
  BY <1>1, <1>2, LabSessionAssumption
<1> QED  BY <1>3, <1>4 DEF GhostsOK

\* The calls of the store that load the latest attempt.
LEMMA LoadStep ==
  ASSUME IInv, GhostsOK', LoadServed \/ LoadAnswers \/ LoadFails
  PROVE  IInv'
<1>0. Genuine(Nothing) /\ Nothing \in Records
  BY LabSessionAssumption DEF Genuine, Nothing, Records, States
<1>1. CASE LoadServed
  <2>1. Genuine(loaded') /\ loaded' \in Records
    BY <1>1, LatestGenuine DEF LoadServed, Genuine
  <2> QED  BY <1>1, <2>1
     DEF LoadServed, watch, adds, removes, page, server, IInv, TypeOK, RecordsGenuine, VisitOpen, GhostsOK
<1>2. CASE LoadAnswers
  <2>1. Genuine(loaded) /\ Show(loaded)
    BY <1>2 DEF LoadAnswers, IInv, RecordsGenuine
  <2> QED  BY <1>0, <1>2, <2>1, ShowType
     DEF LoadAnswers, adds, removes, server, IInv, TypeOK, RecordsGenuine, VisitOpen, GhostsOK, WatchLabels
<1>3. CASE LoadFails
  BY <1>0, <1>3
  DEF LoadFails, watch, adds, removes, page, server, IInv, TypeOK, RecordsGenuine, VisitOpen, GhostsOK
<1> QED  BY <1>1, <1>2, <1>3

\* Those that start an attempt.
LEMMA AddStep ==
  ASSUME IInv, GhostsOK', AddServed \/ AddFails \/ \E a \in Attempts : AddAnswers(a)
  PROVE  IInv'
<1>0. adding - 1 \in 0..MaxAttempts \/ adding = 0
  BY LabSessionAssumption DEF IInv, TypeOK
<1>1. CASE AddServed
  <2>1. /\ cur' \in [Attempts -> States] /\ updated' \in 0..MaxAttempts
        /\ added' \subseteq Attempts /\ adding' \in 0..MaxAttempts
    <3>1. PICK a \in Attempts : cur' = [cur EXCEPT ![a] = "new"] /\ updated' = a
                               /\ adding' = adding - 1 /\ added' = added \cup {a}
      BY <1>1 DEF AddServed, Free
    <3>2. adding' \in 0..MaxAttempts
      BY <1>0, <1>1, <3>1 DEF AddServed
    <3>3. a \in 0..MaxAttempts
      BY LabSessionAssumption DEF Attempts
    <3> QED  BY <3>1, <3>2, <3>3 DEF States, Live, IInv, TypeOK
  <2> QED  BY <1>1, <2>1
     DEF AddServed, watch, loads, removes, page, IInv, TypeOK, RecordsGenuine, VisitOpen, GhostsOK
<1>2. ASSUME NEW a \in Attempts, AddAnswers(a) PROVE IInv'
  <2>1. Genuine([id |-> a, state |-> "new"]) /\ Show([id |-> a, state |-> "new"])
    BY <1>2, LabSessionAssumption DEF AddAnswers, Genuine, Records, Attempts, States, Live
  <2> QED  BY <1>2, <2>1, ShowType
     DEF AddAnswers, loads, removes, server, IInv, TypeOK, RecordsGenuine, VisitOpen, GhostsOK, WatchLabels
<1>3. CASE AddFails
  <2>1. adding' \in 0..MaxAttempts /\ added' \subseteq Attempts
    BY <1>0, <1>3, LabSessionAssumption DEF AddFails, IInv, TypeOK
  <2> QED  BY <1>3, <2>1
     DEF AddFails, watch, loads, removes, page, server, IInv, TypeOK, RecordsGenuine, VisitOpen, GhostsOK
<1> QED  BY <1>1, <1>2, <1>3

\* Those that end one.
LEMMA RemoveStep ==
  ASSUME IInv, GhostsOK', NEW a \in Attempts, RemoveServed(a) \/ RemoveAnswers(a) \/ RemoveFails(a)
  PROVE  IInv'
<1>1. CASE RemoveServed(a)
  <2>1. cur[a] \in States
    BY DEF IInv, TypeOK
  <2>2. /\ events' \in Seq(Records) /\ Len(events') <= MaxEvents
        /\ \A i \in DOMAIN events' : Genuine(events'[i])
    BY <1>1, <2>1, EventsType DEF RemoveServed
  <2>3. updated' \in 0..MaxAttempts
    BY <1>1, LabSessionAssumption DEF RemoveServed, Attempts
  <2> QED  BY <1>1, <2>2, <2>3
     DEF RemoveServed, watch, loads, adds, page, IInv, TypeOK, RecordsGenuine, VisitOpen, GhostsOK
<1>2. CASE RemoveAnswers(a)
  <2> DEFINE r == IF last.id = 0 THEN last ELSE [last EXCEPT !.state = "decommissioning"]
  <2>1. Genuine(r)
    BY DEF IInv, RecordsGenuine, Genuine, Records, States, Live
  <2>2. Show(r)
    BY <1>2 DEF RemoveAnswers
  <2> HIDE DEF r
  <2> QED  BY <1>2, <2>1, <2>2, ShowType
     DEF RemoveAnswers, loads, adds, server, IInv, TypeOK, RecordsGenuine, VisitOpen, GhostsOK, WatchLabels
<1>3. CASE RemoveFails(a)
  BY <1>3
  DEF RemoveFails, watch, loads, adds, page, server, IInv, TypeOK, RecordsGenuine, VisitOpen, GhostsOK
<1> QED  BY <1>1, <1>2, <1>3

\* Messages that arrive, and those that do not.
LEMMA EventStep ==
  ASSUME IInv, GhostsOK', HandleAttemptEvent \/ LoseEvent
  PROVE  IInv'
<1>1. /\ events' = Tail(events) /\ events' \in Seq(Records) /\ Len(events') <= MaxEvents
      /\ \A i \in DOMAIN events' : Genuine(events'[i])
      /\ Genuine(Head(events))
  BY TailType DEF HandleAttemptEvent, LoseEvent
<1>2. CASE HandleAttemptEvent
  <2>1. Show(Head(events)) \/ UNCHANGED <<last, subs, tabs, watching, grader>>
    BY <1>2 DEF HandleAttemptEvent
  <2>2. CASE Show(Head(events))
    BY <1>1, <1>2, <2>2, ShowType
    DEF HandleAttemptEvent, calls, loads, adds, removes, IInv, TypeOK, RecordsGenuine, VisitOpen, GhostsOK,
        WatchLabels
  <2>3. CASE UNCHANGED <<last, subs, tabs, watching, grader>>
    BY <1>1, <1>2, <2>3
    DEF HandleAttemptEvent, calls, loads, adds, removes, IInv, TypeOK, RecordsGenuine, VisitOpen, GhostsOK
  <2> QED  BY <2>1, <2>2, <2>3
<1>3. CASE LoseEvent
  BY <1>1, <1>3
  DEF LoseEvent, watch, calls, loads, adds, removes, page, IInv, TypeOK, RecordsGenuine, VisitOpen, GhostsOK
<1> QED  BY <1>2, <1>3

\* What the callbacks of the watch on the id do after their waits.
LEMMA WatcherStep ==
  ASSUME IInv, GhostsOK', NEW k \in Subs, Unsubscribed(k) \/ Subscribed(k)
  PROVE  IInv'
<1>1. CASE Unsubscribed(k)
  <2>1. tabs' \subseteq Attempts
    BY <1>1 DEF Unsubscribed, ResetTabs, IInv, TypeOK
  <2>2. AfterStop(k, last) \in WatchLabels
    BY DEF AfterStop, WatchLabels
  <2>3. watching' \in [Subs -> WatchLabels]
    BY <1>1, <2>2 DEF Unsubscribed, IInv, TypeOK, WatchLabels
  <2>4. handle' \in Subs \cup {NoSub}
    BY <1>1 DEF Unsubscribed, IInv, TypeOK
  <2> QED  BY <1>1, <2>1, <2>3, <2>4
     DEF Unsubscribed, calls, loads, adds, removes, server, IInv, TypeOK, RecordsGenuine,
         VisitOpen, GhostsOK, WatchLabels
<1>2. CASE Subscribed(k)
  <2>1. watching' \in [Subs -> WatchLabels]
    BY <1>2 DEF Subscribed, IInv, TypeOK, WatchLabels
  <2>2. subs' \subseteq Subs /\ handle' \in Subs \cup {NoSub}
    BY <1>2 DEF Subscribed, Refused, IInv, TypeOK
  <2> QED  BY <1>2, <2>1, <2>2
     DEF Subscribed, calls, loads, adds, removes, server, IInv, TypeOK, RecordsGenuine,
         VisitOpen, GhostsOK, WatchLabels
<1> QED  BY <1>1, <1>2

\* The page's hooks.
LEMMA HookStep ==
  ASSUME IInv, GhostsOK', NEW v \in Visits, LabFetched(v) \/ InitStopped(v) \/ LeaveStopped(v)
  PROVE  IInv'
<1>0. Genuine(Nothing) /\ Nothing \in Records
  BY LabSessionAssumption DEF Genuine, Nothing, Records, States
<1>1. CASE LabFetched(v)
  <2>1. /\ init' \in [Visits -> {"none", "fetch", "stop", "done", "failed"}]
        /\ UNCHANGED handle /\ subs' \subseteq Subs
    BY <1>1 DEF LabFetched, Unsubscribe, watch, IInv, TypeOK
  <2>2. /\ load' \in {"idle", "sent", "served"} /\ Genuine(loaded') /\ loaded' \in Records
        /\ loading' \in BOOLEAN
    BY <1>0, <1>1 DEF LabFetched, StartLoad, loads, IInv, TypeOK, RecordsGenuine
  <2> QED  BY <1>1, <2>1, <2>2
     DEF LabFetched, adds, removes, server, IInv, TypeOK, RecordsGenuine, VisitOpen, GhostsOK
<1>2. CASE InitStopped(v)
  <2>1. init' \in [Visits -> {"none", "fetch", "stop", "done", "failed"}]
    BY <1>2 DEF InitStopped, IInv, TypeOK
  <2>2. /\ load' \in {"idle", "sent", "served"} /\ Genuine(loaded') /\ loaded' \in Records
        /\ loading' \in BOOLEAN
    BY <1>0, <1>2 DEF InitStopped, StartLoad, loads, IInv, TypeOK, RecordsGenuine
  <2>3. handle' \in Subs \cup {NoSub}
    BY <1>2 DEF InitStopped, IInv, TypeOK
  <2> QED  BY <1>2, <2>1, <2>2, <2>3
     DEF InitStopped, adds, removes, server, IInv, TypeOK, RecordsGenuine, VisitOpen, GhostsOK
<1>3. CASE LeaveStopped(v)
  <2>1. /\ leave' \in [Visits -> {"none", "stop", "done", "failed"}]
        /\ handle' \in Subs \cup {NoSub}
    BY <1>3 DEF LeaveStopped, IInv, TypeOK
  <2>2. grader' \in [Visits -> 0..MaxAttempts]
    <3>1. grader \in [Visits -> 0..MaxAttempts] /\ 0 \in 0..MaxAttempts
      BY LabSessionAssumption DEF IInv, TypeOK
    <3>2. UNCHANGED grader \/ grader' = [grader EXCEPT ![v] = 0]
      BY <1>3 DEF LeaveStopped
    <3> QED  BY <3>1, <3>2
  <2> QED  BY <1>3, <2>1, <2>2
     DEF LeaveStopped, calls, loads, adds, removes, server, IInv, TypeOK, RecordsGenuine, VisitOpen, GhostsOK
<1> QED  BY <1>1, <1>2, <1>3

\* What the user does.
LEMMA UserStep ==
  ASSUME IInv, GhostsOK', User
  PROVE  IInv'
<1>0. Genuine(Nothing) /\ Nothing \in Records
  BY LabSessionAssumption DEF Genuine, Nothing, Records, States
<1>1. CASE Mount
  <2>1. visit' \in 0..MaxVisits /\ visit' \in Visits
    BY <1>1, LabSessionAssumption DEF Mount, Visits, IInv, TypeOK
  <2>2. init' \in [Visits -> {"none", "fetch", "stop", "done", "failed"}]
    BY <1>1 DEF Mount, IInv, TypeOK
  <2> QED  BY <1>1, <2>1, <2>2
     DEF Mount, watch, calls, loads, adds, removes, server, IInv, TypeOK, RecordsGenuine, VisitOpen, GhostsOK
<1>2. CASE Refresh
  BY <1>0, <1>2 DEF Refresh, StartLoad, watch, adds, removes, page, server, IInv, TypeOK,
     RecordsGenuine, VisitOpen, GhostsOK
<1>3. CASE Provision
  <2>1. adding' \in 0..MaxAttempts
    BY <1>3, LabSessionAssumption DEF Provision, IInv, TypeOK
  <2> QED  BY <1>3, <2>1
     DEF Provision, watch, loads, removes, page, server, IInv, TypeOK, RecordsGenuine, VisitOpen, GhostsOK
<1>4. CASE Decommission
  <2>1. last.id \in Attempts
    BY <1>4, LabSessionAssumption
    DEF Decommission, IInv, RecordsGenuine, Genuine, Records, Attempts
  <2> QED  BY <1>4, <2>1
     DEF Decommission, watch, loads, adds, page, server, IInv, TypeOK, RecordsGenuine, VisitOpen, GhostsOK
<1>5. CASE OpenTab
  <2>1. last.id \in Attempts
    BY <1>5, LabSessionAssumption
    DEF OpenTab, IInv, RecordsGenuine, Genuine, Records, Attempts, Live
  <2> QED  BY <1>5, <2>1
     DEF OpenTab, watch, calls, loads, adds, removes, server, IInv, TypeOK, RecordsGenuine, VisitOpen, GhostsOK
<1>6. CASE Leave
  <2>1. leave' \in [Visits -> {"none", "stop", "done", "failed"}]
    BY <1>6 DEF Leave, IInv, TypeOK
  <2>2. grader' \in [Visits -> 0..MaxAttempts]
    <3>1. grader \in [Visits -> 0..MaxAttempts] /\ 0 \in 0..MaxAttempts
      BY LabSessionAssumption DEF IInv, TypeOK
    <3>2. UNCHANGED grader \/ grader' = [grader EXCEPT ![visit] = 0]
      BY <1>6 DEF Leave
    <3> QED  BY <3>1, <3>2
  <2>3. UNCHANGED handle /\ subs' \subseteq Subs
    BY <1>6 DEF Leave, Unsubscribe, watch, IInv, TypeOK
  <2> QED  BY <1>6, <2>1, <2>2, <2>3
     DEF Leave, calls, loads, adds, removes, server, IInv, TypeOK, RecordsGenuine, VisitOpen, GhostsOK
<1> QED  BY <1>1, <1>2, <1>3, <1>4, <1>5, <1>6 DEF User

\* What happens elsewhere.
LEMMA WorldStep ==
  ASSUME IInv, GhostsOK', StartElsewhere \/ \E a \in Attempts : Progress(a)
  PROVE  IInv'
<1>1. CASE StartElsewhere
  <2>1. cur' \in [Attempts -> States] /\ updated' \in 0..MaxAttempts
    BY <1>1, LabSessionAssumption DEF StartElsewhere, Free, Attempts, States, Live, IInv, TypeOK
  <2> QED  BY <1>1, <2>1
     DEF StartElsewhere, watch, calls, loads, adds, removes, page, IInv, TypeOK, RecordsGenuine, VisitOpen, GhostsOK
<1>2. ASSUME NEW a \in Attempts, Progress(a) PROVE IInv'
  <2>1. PICK s \in States : cur' = [cur EXCEPT ![a] = s] /\ updated' = a /\ Emit(a, s)
    BY <1>2 DEF Progress, Written, States, Live
  <2>2. /\ events' \in Seq(Records) /\ Len(events') <= MaxEvents
        /\ \A i \in DOMAIN events' : Genuine(events'[i])
    BY <2>1, EventsType
  <2>3. cur' \in [Attempts -> States] /\ updated' \in 0..MaxAttempts
    BY <2>1, LabSessionAssumption DEF Attempts, IInv, TypeOK
  <2> QED  BY <1>2, <2>2, <2>3
     DEF Progress, watch, calls, loads, adds, removes, page, IInv, TypeOK, RecordsGenuine, VisitOpen, GhostsOK
<1> QED  BY <1>1, <1>2

\* Every step.
LEMMA Inductive ==
  IInv /\ [Next]_vars => IInv'
<1> SUFFICES ASSUME IInv, [Next]_vars PROVE IInv'
  OBVIOUS
<1>0. GhostsOK'
  BY GhostStep
<1>1. CASE Answers
  <2>1. LoadServed \/ LoadAnswers \/ LoadFails => IInv'
    BY <1>0, LoadStep
  <2>2. AddServed \/ AddFails \/ (\E a \in Attempts : AddAnswers(a)) => IInv'
    BY <1>0, AddStep
  <2>3. \A a \in Attempts : RemoveServed(a) \/ RemoveAnswers(a) \/ RemoveFails(a) => IInv'
    BY <1>0, RemoveStep
  <2> QED  BY <1>1, <2>1, <2>2, <2>3 DEF Answers
<1>2. CASE Watchers
  BY <1>0, <1>2, WatcherStep DEF Watchers
<1>3. CASE User
  BY <1>0, <1>3, UserStep
<1>4. CASE Hooks
  BY <1>0, <1>4, HookStep DEF Hooks
<1>5. CASE HandleAttemptEvent \/ LoseEvent
  BY <1>0, <1>5, EventStep
<1>6. CASE StartElsewhere \/ \E a \in Attempts : Progress(a)
  BY <1>0, <1>6, WorldStep
<1>7. CASE UNCHANGED vars
  BY <1>0, <1>7 DEF vars, server, watch, calls, loads, adds, removes, page, IInv, TypeOK, RecordsGenuine,
     VisitOpen, GhostsOK
<1> QED  BY <1>1, <1>2, <1>3, <1>4, <1>5, <1>6, <1>7 DEF Next, World

\* The beginning.
LEMMA Initial ==
  Init => IInv
<1> SUFFICES ASSUME Init PROVE IInv
  OBVIOUS
<1>1. Genuine(Nothing) /\ Nothing \in Records
  BY LabSessionAssumption DEF Genuine, Nothing, Records, States
<1>2. events \in Seq(Records) /\ Len(events) = 0
  BY EmptySeq DEF Init
<1>3. 0 \in 0..MaxAttempts /\ 0 \in 0..MaxVisits /\ 0 \in 0..MaxClicks /\ 0 <= MaxEvents
  BY LabSessionAssumption
<1>4. cur \in [Attempts -> States] /\ watching \in [Subs -> WatchLabels]
  BY DEF Init, States, WatchLabels
<1>5. /\ init \in [Visits -> {"none", "fetch", "stop", "done", "failed"}]
      /\ leave \in [Visits -> {"none", "stop", "done", "failed"}]
      /\ grader \in [Visits -> 0..MaxAttempts]
  BY <1>3 DEF Init
<1>6. RecordsGenuine
  BY <1>1, <1>2 DEF Init, RecordsGenuine
<1>7. TypeOK
  BY <1>1, <1>2, <1>3, <1>4, <1>5 DEF Init, TypeOK, WatchLabels
<1> QED  BY <1>6, <1>7 DEF Init, IInv, VisitOpen

\* IInv always holds.
LEMMA Invariance ==
  Spec => []IInv
<1> QED  BY Initial, Inductive, PTL DEF Spec

\* Every call the page sends names an attempt there is, whatever it shows by then.
THEOREM TypeCorrect ==
  Spec => []TypeOK
<1>1. IInv => TypeOK
  BY DEF IInv
<1> QED  BY <1>1, Invariance, PTL

-----------------------------------------------------------------------------
\* A callback of this visit's watch waits for the end of a subscription, or has
\* waited in vain.
Stopping == \E k \in Subs : k[1] = visit /\ watching[k] \in {"stop", "kept"}

\* Without a page there are no terminals; with one, those of the attempt shown.
TabsHeld ==
  /\ ~mounted => tabs = {}
  /\ mounted /\ ~Stopping => tabs \subseteq {last.id}

\* The attempt shown changes, and its predecessor's terminals go: at once, or
\* when the callback that waits from now on gets to resetTabs.
LEMMA ShowKeepsTabs ==
  ASSUME IInv, TabsHeld, NEW r, Genuine(r), Show(r), UNCHANGED <<visit, mounted>>
  PROVE  TabsHeld'
<1>1. CASE mounted /\ r.id # last.id
  <2>1. PICK k : /\ k \in Subs /\ k[1] = visit
                 /\ tabs' = {} \/ watching' = [watching EXCEPT ![k] = "stop"]
    <3>1. WatchId(r)
      BY <1>1 DEF Show
    <3>2. PICK n \in Runs : tabs' = {} \/ watching' = [watching EXCEPT ![<<visit, r.id, n>>] = "stop"]
      BY <3>1 DEF WatchId, ResetTabs
    <3> DEFINE k == <<visit, r.id, n>>
    <3>3. k \in Subs /\ k[1] = visit
      BY <1>1 DEF IInv, VisitOpen, Genuine, Records, Subs
    <3> QED  BY <3>2, <3>3
  <2>3. CASE tabs' = {}
    BY <2>3 DEF TabsHeld
  <2>4. CASE watching' = [watching EXCEPT ![k] = "stop"]
    <3>1. watching'[k] = "stop"
      BY <2>1, <2>4 DEF IInv, TypeOK
    <3>2. Stopping'
      BY <2>1, <3>1 DEF Stopping
    <3> QED  BY <1>1, <3>2 DEF TabsHeld
  <2> QED  BY <2>1, <2>3, <2>4
<1>2. CASE ~(mounted /\ r.id # last.id)
  <2>1. UNCHANGED <<tabs, watching>> /\ last' = r
    BY <1>2 DEF Show
  <2> QED  BY <1>2, <2>1 DEF TabsHeld, Stopping
<1> QED  BY <1>1, <1>2

\* Whatever leaves the page and the attempt shown alone keeps the terminals so.
LEMMA StillKeepsTabs ==
  ASSUME TabsHeld, UNCHANGED <<visit, mounted, tabs, watching, last>>
  PROVE  TabsHeld'
<1> QED  BY DEF TabsHeld, Stopping

\* What an answer or a message does to the terminals.
LEMMA AnswersKeepTabs ==
  ASSUME IInv, TabsHeld, Answers \/ HandleAttemptEvent
  PROVE  TabsHeld'
<1>1. CASE LoadServed \/ LoadFails \/ AddServed \/ AddFails
           \/ \E a \in Attempts : RemoveServed(a) \/ RemoveFails(a)
  <2>1. UNCHANGED <<visit, mounted, tabs, watching, last>>
    BY <1>1 DEF LoadServed, LoadFails, AddServed, AddFails, RemoveServed, RemoveFails, page
  <2> QED  BY <2>1, StillKeepsTabs
<1>2. CASE LoadAnswers
  BY <1>2, ShowKeepsTabs DEF LoadAnswers, IInv, RecordsGenuine
<1>3. ASSUME NEW a \in Attempts, AddAnswers(a) PROVE TabsHeld'
  <2>1. Genuine([id |-> a, state |-> "new"])
    BY LabSessionAssumption DEF Genuine, Records, Attempts, States, Live
  <2> QED  BY <1>3, <2>1, ShowKeepsTabs DEF AddAnswers
<1>4. ASSUME NEW a \in Attempts, RemoveAnswers(a) PROVE TabsHeld'
  <2> DEFINE r == IF last.id = 0 THEN last ELSE [last EXCEPT !.state = "decommissioning"]
  <2>1. Genuine(r)
    BY DEF IInv, RecordsGenuine, Genuine, Records, States, Live
  <2>2. Show(r) /\ UNCHANGED <<visit, mounted>>
    BY <1>4 DEF RemoveAnswers
  <2> HIDE DEF r
  <2> QED  BY <2>1, <2>2, ShowKeepsTabs
<1>5. CASE HandleAttemptEvent
  <2>1. CASE Show(Head(events))
    BY <1>5, <2>1, TailType, ShowKeepsTabs DEF HandleAttemptEvent
  <2>2. CASE UNCHANGED <<last, subs, tabs, watching, grader>>
    BY <1>5, <2>2, StillKeepsTabs DEF HandleAttemptEvent
  <2> QED  BY <1>5, <2>1, <2>2 DEF HandleAttemptEvent
<1> QED  BY <1>1, <1>2, <1>3, <1>4, <1>5 DEF Answers

\* What the watch's callback does to them after its waits.
LEMMA WatchersKeepTabs ==
  ASSUME IInv, TabsHeld, NEW k \in Subs, Unsubscribed(k) \/ Subscribed(k)
  PROVE  TabsHeld'
<1>0. watching \in [Subs -> WatchLabels]
  BY DEF IInv, TypeOK, WatchLabels
<1>1. CASE k[1] = visit /\ Unsubscribed(k) /\ watching'[k] # "kept"
  <2>1. tabs' = {}
    BY <1>0, <1>1 DEF Unsubscribed, ResetTabs
  <2> QED  BY <2>1 DEF TabsHeld
<1>2. CASE Subscribed(k) \/ (Unsubscribed(k) /\ (k[1] # visit \/ watching'[k] = "kept"))
  <2>1. UNCHANGED <<visit, mounted, tabs, last>>
    BY <1>0, <1>2 DEF Subscribed, Unsubscribed, ResetTabs, AfterStop
  <2>2. \A j \in Subs : j[1] = visit /\ watching[j] \in {"stop", "kept"} =>
                           watching'[j] \in {"stop", "kept"}
    BY <1>0, <1>2 DEF Subscribed, Unsubscribed
  <2>3. Stopping => Stopping'
    BY <2>1, <2>2 DEF Stopping
  <2> QED  BY <2>1, <2>3 DEF TabsHeld
<1> QED  BY <1>1, <1>2

\* Every step keeps them so.
LEMMA TabsInductive ==
  IInv /\ TabsHeld /\ [Next]_vars => TabsHeld'
<1> SUFFICES ASSUME IInv, TabsHeld, [Next]_vars PROVE TabsHeld'
  OBVIOUS
<1>1. CASE Answers \/ HandleAttemptEvent
  BY <1>1, AnswersKeepTabs
<1>2. CASE Watchers
  BY <1>2, WatchersKeepTabs DEF Watchers
<1>3. CASE Mount \/ Leave
  BY <1>3 DEF Mount, Leave, TabsHeld
<1>4. CASE OpenTab
  BY <1>4 DEF OpenTab, Controls, TabsHeld, Stopping
<1>5. CASE Refresh \/ Provision \/ Decommission \/ Hooks \/ World \/ UNCHANGED vars
  <2>1. UNCHANGED <<visit, mounted, tabs, watching, last>>
    BY <1>5 DEF Refresh, Provision, Decommission, Hooks, LabFetched, InitStopped, LeaveStopped,
       World, StartElsewhere, LoseEvent, Progress, vars, page
  <2> QED  BY <2>1, StillKeepsTabs
<1> QED  BY <1>1, <1>2, <1>3, <1>4, <1>5 DEF Next, User

\* A terminal on screen is one of the attempt shown, in every order of answers,
\* messages, visits and the callback's waits (the watch on lastAttempt.id).
THEOREM TabsFollowAttemptHolds ==
  Spec => []TabsFollowAttempt
<1>1. Init => TabsHeld
  BY DEF Init, TabsHeld
<1>2. TabsHeld => TabsFollowAttempt
  BY DEF TabsHeld, TabsFollowAttempt, Stopping
<1>3. Spec => []TabsHeld
  BY <1>1, TabsInductive, Invariance, PTL DEF Spec
<1> QED  BY <1>2, <1>3, PTL
-----------------------------------------------------------------------------
(* The connection to the grader. The watch that makes it looks at the      *)
(* state of the attempt shown alone: one provisioned attempt in place of   *)
(* another would go unnoticed. Unless the page has missed an attempt, the  *)
(* store shows the newest but while that is on its way: a load brings no   *)
(* other, and the answer to addAttempt brings a new one.                   *)

Known(a) == a = 0 \/ cur[a] # "none"

\* Whatever the store and PocketBase speak of has been started.
AllKnown ==
  /\ Known(last.id) /\ Known(loaded.id) /\ Known(updated)
  /\ \A a \in added \cup removing : Known(a)

\* A visit to come has no connection.
NoneAhead == \A v \in Visits : v > visit => grader[v] = 0

\* One attempt is being started at most, and none while a load is under way.
OneAdd ==
  /\ load # "idle" => adding = 0 /\ added = {}
  /\ \/ adding = 0 /\ (added = {} \/ \E a \in Attempts : added = {a})
     \/ adding = 1 /\ added = {}

\* Attempt i is the latest there is, or there is none and i is 0.
Newest(i) ==
  /\ \A a \in Attempts : cur[a] # "none" <=> a <= i
  /\ i \in 0 .. MaxAttempts

\* The attempt shown is the latest, but while a new one is on its way.
NewestShown ==
  /\ added = {} => Newest(last.id)
  /\ \A a \in added : Newest(a)
  /\ load = "served" => loaded.id <= last.id

Followed ==
  mounted /\ grader[visit] # 0 =>
    last.id = grader[visit] /\ last.state = "provisioned"

FollowInv == /\ AllKnown /\ NoneAhead
             /\ ~crossed => OneAdd /\ NewestShown /\ Followed

-----------------------------------------------------------------------------
\* An attempt that is started stays so.
LEMMA KnownStays ==
  ASSUME IInv, NEW a \in Attempts, NEW s \in States \ {"none"}, cur' = [cur EXCEPT ![a] = s],
         NEW b \in 0 .. MaxAttempts, Known(b)
  PROVE  Known(b)'
<1>1. cur \in [Attempts -> States]
  BY DEF IInv, TypeOK
<1> QED  BY <1>1, LabSessionAssumption DEF Known, Attempts

\* What becomes known stays so, and nothing else is spoken of.
LEMMA KnownStep ==
  ASSUME IInv, AllKnown, [Next]_vars
  PROVE  AllKnown'
<1> USE DEF AllKnown
<1>0. /\ cur \in [Attempts -> States] /\ last \in Records /\ loaded \in Records
      /\ updated \in 0 .. MaxAttempts /\ added \subseteq Attempts /\ removing \subseteq Attempts
  BY DEF IInv, TypeOK
<1>1. ASSUME NEW a \in Attempts, NEW s \in States \ {"none"}, cur' = [cur EXCEPT ![a] = s],
             updated' = a, added' \subseteq added \cup {a}, UNCHANGED <<last, loaded, removing>>
      PROVE  AllKnown'
  <2>1. Known(a)'
    BY <1>0, <1>1 DEF Known
  <2>2. last.id \in 0 .. MaxAttempts /\ loaded.id \in 0 .. MaxAttempts
    BY <1>0 DEF Records
  <2>3. \A b \in 0 .. MaxAttempts : Known(b) => Known(b)'
    BY <1>1, KnownStays
  <2>4. \A b \in Attempts : b \in 0 .. MaxAttempts
    BY LabSessionAssumption DEF Attempts
  <2>5. Known(last.id)' /\ Known(loaded.id)'
    BY <1>1, <2>2, <2>3
  <2>6. \A b \in added' \cup removing' : Known(b)'
    BY <1>0, <1>1, <2>1, <2>3, <2>4
  <2> QED  BY <1>1, <2>1, <2>5, <2>6
<1>2. ASSUME UNCHANGED cur, Known(last.id)', Known(loaded.id)', Known(updated)',
             added' \subseteq added, removing' \subseteq removing \cup {last.id}
      PROVE  AllKnown'
  BY <1>2 DEF Known
<1>3. ASSUME UNCHANGED <<cur, updated, last, loaded>>, added' \subseteq added,
             removing' \subseteq removing \cup {last.id}
      PROVE  AllKnown'
  BY <1>2, <1>3 DEF Known
<1>4. CASE LoadServed
  <2>1. Known(loaded.id)'
    BY <1>4 DEF LoadServed, Latest, Nothing, Known, server
  <2> QED  BY <1>2, <1>4, <2>1 DEF LoadServed, Known, server, adds, removes
<1>5. CASE LoadAnswers
  BY <1>2, <1>5 DEF LoadAnswers, Show, Nothing, Known, server, adds, removes
<1>6. ASSUME NEW r, r.id = last.id, Show(r), UNCHANGED <<cur, updated, loaded, added, removing>>
      PROVE  AllKnown'
  BY <1>2, <1>6 DEF Show, Known
<1>7. ASSUME NEW a \in Attempts, RemoveAnswers(a) PROVE AllKnown'
  <2> DEFINE r == IF last.id = 0 THEN last ELSE [last EXCEPT !.state = "decommissioning"]
  <2>1. r.id = last.id /\ Show(r)
    BY <1>0, <1>7 DEF RemoveAnswers, Records
  <2> HIDE DEF r
  <2> QED  BY <1>6, <1>7, <2>1 DEF RemoveAnswers, server, loads, adds
<1>8. CASE HandleAttemptEvent
  <2>1. UNCHANGED <<cur, updated, loaded, added, removing>>
    BY <1>8 DEF HandleAttemptEvent, calls, loads, adds, removes
  <2>2. CASE last.id = Head(events).id /\ Show(Head(events))
    BY <1>6, <2>1, <2>2
  <2>3. CASE UNCHANGED last
    BY <1>3, <2>1, <2>3
  <2> QED  BY <1>8, <2>2, <2>3 DEF HandleAttemptEvent
<1>9. ASSUME NEW a \in Attempts, AddAnswers(a) PROVE AllKnown'
  <2>1. a \in added /\ last'.id = a
    BY <1>9 DEF AddAnswers, Show
  <2> QED  BY <1>2, <1>9, <2>1 DEF AddAnswers, Known, server, loads, removes
<1>10. CASE AddServed
  <2>1. PICK a \in Attempts : cur' = [cur EXCEPT ![a] = "new"] /\ updated' = a /\ added' = added \cup {a}
    BY <1>10 DEF AddServed, Free
  <2> QED  BY <1>1, <1>10, <2>1 DEF AddServed, loads, removes, States, Live
<1>11. ASSUME NEW a \in Attempts, RemoveServed(a) PROVE AllKnown'
  BY <1>2, <1>11 DEF RemoveServed, Known, loads, adds
<1>12. ASSUME NEW a \in Attempts, Progress(a) PROVE AllKnown'
  <2>1. PICK s \in States \ {"none"} : cur' = [cur EXCEPT ![a] = s] /\ updated' = a
    BY <1>12 DEF Progress, Written, States, Live
  <2> QED  BY <1>1, <1>12, <2>1 DEF Progress, calls, loads, adds, removes
<1>13. CASE StartElsewhere
  <2>1. PICK a \in Attempts : cur' = [cur EXCEPT ![a] = "new"] /\ updated' = a
    BY <1>13 DEF StartElsewhere, Free
  <2> QED  BY <1>1, <1>13, <2>1 DEF StartElsewhere, calls, loads, adds, removes, States, Live
<1>14. ASSUME StartLoad \/ UNCHANGED loaded, UNCHANGED <<cur, updated, last, added, removing>>
       PROVE  AllKnown'
  BY <1>2, <1>14 DEF StartLoad, Nothing, Known
<1>15. CASE Refresh \/ \E v \in Visits : LabFetched(v) \/ InitStopped(v)
  BY <1>14, <1>15 DEF Refresh, LabFetched, InitStopped, server, loads, adds, removes
<1>16. CASE LoadFails
  BY <1>2, <1>16 DEF LoadFails, Nothing, Known, server, adds, removes
<1>17. CASE AddFails \/ \E a \in Attempts : RemoveFails(a)
  BY <1>3, <1>17 DEF AddFails, RemoveFails, server, loads, adds, removes
<1>18. CASE Provision \/ Decommission
  BY <1>3, <1>18 DEF Provision, Decommission, server, loads, adds, removes
<1>19. CASE Watchers \/ Mount \/ OpenTab \/ Leave \/ LoseEvent \/ UNCHANGED vars
            \/ \E v \in Visits : LeaveStopped(v)
  BY <1>3, <1>19 DEF Watchers, Unsubscribed, Subscribed, Mount, OpenTab, Leave, LoseEvent, LeaveStopped,
     server, calls, loads, adds, removes, vars
<1> QED
  BY <1>4, <1>5, <1>7, <1>8, <1>9, <1>10, <1>11, <1>12, <1>13, <1>15, <1>16, <1>17, <1>18, <1>19
  DEF Next, Answers, User, Hooks, World

\* What an answer or a message puts on the page is of the attempt it shows, or
\* is a new attempt: the answer of addAttempt. Unless the page misses one.
LEMMA ShowOfAnswer ==
  ASSUME IInv, ~crossed => NewestShown, Answers \/ HandleAttemptEvent
  PROVE  /\ UNCHANGED <<visit, mounted>>
         /\ \/ UNCHANGED <<last, grader>>
            \/ \E r : /\ Genuine(r) /\ Show(r)
                      /\ ~crossed' => r.id = last.id \/ r.state = "new"
<1>1. CASE LoadServed \/ LoadFails \/ AddServed \/ AddFails
           \/ \E a \in Attempts : RemoveServed(a) \/ RemoveFails(a)
  BY <1>1 DEF LoadServed, LoadFails, AddServed, AddFails, RemoveServed, RemoveFails, page
<1>2. CASE LoadAnswers
  <2>1. Genuine(loaded) /\ Show(loaded) /\ UNCHANGED <<visit, mounted>>
    BY <1>2 DEF LoadAnswers, IInv, RecordsGenuine
  <2>2. ASSUME ~crossed' PROVE loaded.id = last.id
    <3>1. ~crossed /\ ~(loaded.id < last.id) /\ load = "served"
      BY <1>2, <2>2 DEF LoadAnswers
    <3>2. loaded.id <= last.id /\ loaded.id \in 0 .. MaxAttempts /\ last.id \in 0 .. MaxAttempts
      BY <3>1 DEF NewestShown, IInv, TypeOK, Records
    <3> QED  BY <3>1, <3>2, LabSessionAssumption
  <2> QED  BY <2>1, <2>2
<1>3. ASSUME NEW a \in Attempts, AddAnswers(a)
      PROVE  /\ UNCHANGED <<visit, mounted>>
             /\ \E r : Genuine(r) /\ Show(r) /\ r.state = "new"
  <2>1. Genuine([id |-> a, state |-> "new"])
    BY LabSessionAssumption DEF Genuine, Records, Attempts, States, Live
  <2> QED  BY <1>3, <2>1 DEF AddAnswers
<1>4. ASSUME NEW a \in Attempts, RemoveAnswers(a)
      PROVE  /\ UNCHANGED <<visit, mounted>>
             /\ \E r : Genuine(r) /\ Show(r) /\ r.id = last.id
  <2> DEFINE r == IF last.id = 0 THEN last ELSE [last EXCEPT !.state = "decommissioning"]
  <2>1. Genuine(r) /\ r.id = last.id
    BY DEF IInv, RecordsGenuine, Genuine, Records, States, Live
  <2>2. Show(r) /\ UNCHANGED <<visit, mounted>>
    BY <1>4 DEF RemoveAnswers
  <2> HIDE DEF r
  <2> QED  BY <2>1, <2>2
<1>5. CASE HandleAttemptEvent
  <2>1. Genuine(Head(events))
    BY <1>5, TailType DEF HandleAttemptEvent
  <2> QED  BY <1>5, <2>1 DEF HandleAttemptEvent
<1> QED  BY <1>1, <1>2, <1>3, <1>4, <1>5 DEF Answers

\* Connections are made by the visit under way.
LEMMA AheadStep ==
  ASSUME IInv, NoneAhead, [Next]_vars
  PROVE  NoneAhead'
<1> USE DEF NoneAhead
<1>0. /\ visit \in 0 .. MaxVisits /\ (mounted => visit \in Visits) /\ MaxVisits \in Nat
      /\ grader \in [Visits -> 0 .. MaxAttempts]
  BY LabSessionAssumption DEF IInv, VisitOpen, TypeOK
<1>1. CASE UNCHANGED <<visit, grader>>
  BY <1>1
<1>2. ASSUME NEW x, NEW v \in Visits, UNCHANGED visit, grader' = [grader EXCEPT ![v] = x], v <= visit
      PROVE  NoneAhead'
  BY <1>0, <1>2 DEF Visits
<1>3. ASSUME NEW v \in Visits, UNCHANGED visit, grader' = [grader EXCEPT ![v] = 0]
      PROVE  NoneAhead'
  BY <1>0, <1>3
<1>4. ASSUME NEW r, Show(r), UNCHANGED visit PROVE NoneAhead'
  <2>1. UNCHANGED grader \/ (mounted /\ \E x : grader' = [grader EXCEPT ![visit] = x])
    BY <1>4 DEF Show, WatchState
  <2>2. visit <= visit
    BY <1>0
  <2> QED  BY <1>0, <1>1, <1>2, <1>4, <2>1, <2>2
<1>5. CASE HandleAttemptEvent
  BY <1>1, <1>4, <1>5 DEF HandleAttemptEvent
<1>6. CASE Answers
  BY <1>1, <1>4, <1>6 DEF Answers, LoadServed, LoadAnswers, LoadFails, AddServed, AddAnswers, AddFails,
     RemoveServed, RemoveAnswers, RemoveFails, page
<1>7. CASE Mount
  <2>1. visit' = visit + 1 /\ UNCHANGED grader
    BY <1>7 DEF Mount
  <2> QED  BY <1>0, <2>1 DEF Visits
<1>8. CASE Leave
  <2>1. visit \in Visits /\ UNCHANGED visit
    BY <1>0, <1>8 DEF Leave
  <2> QED  BY <1>1, <1>3, <1>8, <2>1 DEF Leave
<1>9. ASSUME NEW v \in Visits, LeaveStopped(v) PROVE NoneAhead'
  BY <1>1, <1>3, <1>9 DEF LeaveStopped
<1> QED
  BY <1>1, <1>5, <1>6, <1>7, <1>8, <1>9
  DEF Next, Watchers, Unsubscribed, Subscribed, User, Refresh, Provision, Decommission, OpenTab, Hooks,
      LabFetched, InitStopped, World, StartElsewhere, LoseEvent, Progress, page, vars

\* Nothing takes the history back.
LEMMA CrossedStays ==
  ASSUME [Next]_vars, ~crossed'
  PROVE  ~crossed
<1>1. CASE Answers \/ Watchers \/ HandleAttemptEvent \/ World \/ UNCHANGED vars
  BY <1>1 DEF Answers, LoadServed, LoadAnswers, LoadFails, AddServed, AddAnswers, AddFails,
     RemoveServed, RemoveAnswers, RemoveFails, Watchers, Unsubscribed, Subscribed,
     HandleAttemptEvent, World, StartElsewhere, LoseEvent, Progress, ghosts, vars
<1>2. CASE User \/ Hooks
  BY <1>2 DEF User, Mount, Refresh, Provision, Decommission, OpenTab, Leave, Hooks,
     LabFetched, InitStopped, LeaveStopped, StartLoad, ghosts
<1> QED  BY <1>1, <1>2 DEF Next

\* A call that would be a second one is held against the page.
LEMMA OneAddStep ==
  ASSUME IInv, OneAdd, ~crossed', [Next]_vars
  PROVE  OneAdd'
<1> USE DEF OneAdd
<1>1. CASE UNCHANGED <<load, adding, added>>
  BY <1>1
<1>2. CASE LoadServed \/ LoadAnswers \/ LoadFails
  BY <1>2 DEF LoadServed, LoadAnswers, LoadFails, adds
<1>3. CASE AddServed
  <2>1. adding > 0 /\ adding' = adding - 1 /\ UNCHANGED load
        /\ \E a \in Attempts : added' = added \cup {a}
    BY <1>3 DEF AddServed, Free, loads
  <2> QED  BY <2>1
<1>4. ASSUME NEW a \in Attempts, AddAnswers(a) PROVE OneAdd'
  BY <1>4 DEF AddAnswers, loads
<1>5. CASE AddFails
  BY <1>5 DEF AddFails, loads
<1>6. ASSUME StartLoad, UNCHANGED adds PROVE OneAdd'
  <2>1. ~(adding > 0) /\ added = {}
    BY <1>6 DEF StartLoad, AddBusy
  <2> QED  BY <1>6, <2>1 DEF adds
<1>7. CASE Refresh \/ \E v \in Visits : LabFetched(v) \/ InitStopped(v)
  BY <1>1, <1>6, <1>7 DEF Refresh, LabFetched, InitStopped, loads, adds
<1>8. CASE Provision
  <2>1. load = "idle" /\ ~(adding > 0) /\ added = {}
    BY <1>8 DEF Provision, AddBusy
  <2> QED  BY <1>8, <2>1 DEF Provision, loads
<1> QED
  BY <1>1, <1>2, <1>3, <1>4, <1>5, <1>7, <1>8
  DEF Next, Answers, RemoveServed, RemoveAnswers, RemoveFails, Watchers, Unsubscribed, Subscribed, User,
      Mount, Decommission, OpenTab, Leave, Hooks, LeaveStopped, World, StartElsewhere, LoseEvent, Progress,
      HandleAttemptEvent, calls, loads, adds, vars

\* The next attempt comes after the newest.
LEMMA NextNewest ==
  ASSUME IInv, NEW i, Newest(i), NEW a \in Free, cur' = [cur EXCEPT ![a] = "new"]
  PROVE  Newest(a)'
<1>0. cur \in [Attempts -> States] /\ a \in Attempts
  BY DEF IInv, TypeOK, Free
<1>1. cur[a] = "none" /\ \A b \in Attempts : b < a => cur[b] # "none"
  BY DEF Free
<1>2. ASSUME NEW b \in Attempts PROVE cur'[b] # "none" <=> b <= a
  <2>1. a \in Nat /\ b \in Nat /\ i \in Nat
    BY <1>0, LabSessionAssumption DEF Attempts, Newest
  <2>2. ~(a <= i)
    BY <1>0, <1>1 DEF Newest
  <2>3. CASE b = a
    BY <1>0, <2>1, <2>3
  <2>4. CASE b < a
    BY <1>0, <1>1, <2>1, <2>4
  <2>5. CASE a < b
    <3>1. ~(b <= i)
      BY <2>1, <2>2, <2>5
    <3>2. cur[b] = "none"
      BY <3>1 DEF Newest
    <3> QED  BY <1>0, <2>1, <2>5, <3>2
  <2> QED  BY <2>1, <2>3, <2>4, <2>5
<1>3. a \in 0 .. MaxAttempts
  BY <1>0, LabSessionAssumption DEF Attempts
<1> QED  BY <1>2, <1>3 DEF Newest

\* Attempts come one after the other, each from the page's own call.
LEMMA NewestStep ==
  ASSUME IInv, AllKnown, OneAdd, NewestShown, ~crossed', [Next]_vars
  PROVE  NewestShown'
<1> USE DEF NewestShown
<1>0. /\ cur \in [Attempts -> States] /\ updated \in 0 .. MaxAttempts
      /\ last \in Records /\ loaded \in Records
  BY DEF IInv, TypeOK
<1>1. ASSUME UNCHANGED cur, NEW i PROVE Newest(i)' <=> Newest(i)
  BY <1>1 DEF Newest
<1>2. ASSUME UNCHANGED <<cur, added>>, last'.id = last.id,
             load' \in {"idle", "sent"} \/ UNCHANGED <<load, loaded>>
      PROVE  NewestShown'
  <2>1. Newest(last.id)' <=> Newest(last.id)
    BY <1>2 DEF Newest
  <2> QED  BY <1>1, <1>2, <2>1
<1>3. CASE LoadServed
  <2>1. added = {} /\ UNCHANGED <<cur, last, added>> /\ loaded' = Latest
    BY <1>3 DEF LoadServed, OneAdd, server, adds
  <2>2. Newest(last.id)
    BY <2>1
  <2>3. loaded'.id = updated
    BY <2>1 DEF Latest, Nothing
  <2>4. updated <= last.id
    <3>1. CASE updated = 0
      BY <1>0, <3>1, LabSessionAssumption DEF Records
    <3>2. CASE updated # 0
      <4>1. updated \in Attempts /\ cur[updated] # "none"
        BY <1>0, <3>2, LabSessionAssumption DEF AllKnown, Known, Attempts
      <4> QED  BY <2>2, <4>1 DEF Newest
    <3> QED  BY <3>1, <3>2
  <2> QED  BY <1>1, <2>1, <2>3, <2>4
<1>4. CASE LoadAnswers
  <2>1. last' = loaded /\ load' = "idle" /\ UNCHANGED <<cur, added>>
    BY <1>4 DEF LoadAnswers, Show, adds, server
  <2>2. ~(loaded.id < last.id) /\ loaded.id <= last.id
    BY <1>4 DEF LoadAnswers
  <2>3. loaded.id = last.id
    BY <1>0, <2>2, LabSessionAssumption DEF Records
  <2> QED  BY <1>2, <2>1, <2>3
<1>5. CASE LoadFails
  BY <1>2, <1>5 DEF LoadFails, server, adds
<1>6. CASE AddServed
  <2>1. PICK a \in Free : cur' = [cur EXCEPT ![a] = "new"] /\ added' = added \cup {a}
    BY <1>6 DEF AddServed
  <2>2. adding > 0 /\ UNCHANGED <<last, load>>
    BY <1>6 DEF AddServed, loads
  <2>3. added = {} /\ load = "idle" /\ Newest(last.id)
    BY <2>2 DEF OneAdd
  <2>4. Newest(a)'
    BY <2>1, <2>3, NextNewest
  <2> QED  BY <2>1, <2>2, <2>3, <2>4
<1>7. ASSUME NEW a \in Attempts, AddAnswers(a) PROVE NewestShown'
  <2>1. a \in added /\ last'.id = a /\ added' = added \ {a} /\ UNCHANGED <<cur, load>>
    BY <1>7 DEF AddAnswers, Show, server, loads
  <2>2. added' = {} /\ load = "idle"
    BY <2>1 DEF OneAdd
  <2>3. Newest(a)'
    BY <1>1, <2>1
  <2> QED  BY <2>1, <2>2, <2>3
<1>8. CASE AddFails
  BY <1>2, <1>8 DEF AddFails, server, loads
<1>9. ASSUME NEW a \in Attempts, RemoveAnswers(a) PROVE NewestShown'
  <2>1. last'.id = last.id /\ UNCHANGED <<cur, load, loaded, added>>
    BY <1>0, <1>9 DEF RemoveAnswers, Show, server, loads, adds, Records
  <2> QED  BY <1>2, <2>1
<1>10. CASE HandleAttemptEvent
  <2>1. last'.id = last.id /\ UNCHANGED <<cur, load, loaded, added>>
    BY <1>10 DEF HandleAttemptEvent, Show, calls, loads, adds
  <2> QED  BY <1>2, <2>1
<1>11. CASE Refresh \/ \E v \in Visits : LabFetched(v) \/ InitStopped(v)
  BY <1>2, <1>11 DEF Refresh, LabFetched, InitStopped, StartLoad, server, loads, adds
<1>12. ASSUME NEW a \in Attempts, Progress(a) PROVE NewestShown'
  <2>1. PICK s \in States \ {"none"} : cur' = [cur EXCEPT ![a] = s] /\ cur[a] # "none"
    BY <1>12 DEF Progress, Written, States, Live
  <2>2. UNCHANGED <<last, load, loaded, added>>
    BY <1>12 DEF Progress, calls, loads, adds
  <2>3. \A i : Newest(i)' <=> Newest(i)
    BY <1>0, <2>1 DEF Newest
  <2> QED  BY <2>2, <2>3
<1>13. ~StartElsewhere
  BY DEF StartElsewhere
<1>14. CASE Watchers \/ Mount \/ Provision \/ Decommission \/ OpenTab \/ Leave \/ LoseEvent \/ UNCHANGED vars
            \/ (\E v \in Visits : LeaveStopped(v))
            \/ \E a \in Attempts : RemoveServed(a) \/ RemoveFails(a)
  BY <1>2, <1>14 DEF Watchers, Unsubscribed, Subscribed, Mount, Provision, Decommission, OpenTab, Leave,
     LoseEvent, LeaveStopped, RemoveServed, RemoveFails, server, calls, loads, adds, vars
<1> QED
  BY <1>3, <1>4, <1>5, <1>6, <1>7, <1>8, <1>9, <1>10, <1>11, <1>12, <1>13, <1>14
  DEF Next, Answers, User, Hooks, World

\* So the watch on the state sees every change that matters to the connection.
LEMMA FollowedStep ==
  ASSUME IInv, NoneAhead, ~crossed => NewestShown, Followed, ~crossed', [Next]_vars
  PROVE  Followed'
<1> USE DEF Followed
<1>0. /\ visit \in 0 .. MaxVisits /\ (mounted => visit \in Visits) /\ MaxVisits \in Nat
      /\ grader \in [Visits -> 0 .. MaxAttempts]
  BY LabSessionAssumption DEF IInv, VisitOpen, TypeOK
<1>1. CASE UNCHANGED <<visit, mounted, last, grader>>
  BY <1>1
<1>2. CASE Answers \/ HandleAttemptEvent
  <2>1. UNCHANGED <<visit, mounted>>
    BY <1>2, ShowOfAnswer
  <2>2. ASSUME NEW r, Show(r), r.id = last.id \/ r.state = "new" PROVE Followed'
    <3>1. CASE mounted /\ r.state # last.state
      BY <1>0, <2>1, <2>2, <3>1 DEF Show, WatchState
    <3>2. CASE ~mounted \/ r.state = last.state
      <4>1. last' = r /\ UNCHANGED grader
        BY <2>2, <3>2 DEF Show
      <4> QED  BY <2>1, <2>2, <3>2, <4>1
    <3> QED  BY <3>1, <3>2
  <2> QED  BY <1>1, <1>2, <2>1, <2>2, ShowOfAnswer
<1>3. CASE Mount
  <2>1. visit' = visit + 1 /\ visit < MaxVisits /\ UNCHANGED grader
    BY <1>3 DEF Mount
  <2>2. visit' \in Visits /\ visit' > visit
    BY <1>0, <2>1 DEF Visits
  <2> QED  BY <2>1, <2>2 DEF NoneAhead
<1>4. CASE Leave
  BY <1>4 DEF Leave
<1>5. ASSUME NEW v \in Visits, LeaveStopped(v) PROVE Followed'
  <2>1. UNCHANGED <<visit, mounted, last>> /\ (UNCHANGED grader \/ grader' = [grader EXCEPT ![v] = 0])
    BY <1>5 DEF LeaveStopped
  <2> QED  BY <1>0, <1>1, <2>1
<1> QED
  BY <1>1, <1>2, <1>3, <1>4, <1>5
  DEF Next, Watchers, Unsubscribed, Subscribed, User, Refresh, Provision, Decommission, OpenTab, Hooks,
      LabFetched, InitStopped, World, StartElsewhere, LoseEvent, Progress, page, vars

\* In the beginning there is no attempt, and no call under way.
LEMMA InitFollow == Init => FollowInv
<1> SUFFICES ASSUME Init PROVE FollowInv
  OBVIOUS
<1>1. AllKnown /\ NoneAhead
  BY DEF Init, AllKnown, Known, Nothing, NoneAhead
<1>2. OneAdd
  BY DEF Init, OneAdd
<1>3. Newest(0)
  BY LabSessionAssumption DEF Init, Newest, Attempts
<1>4. NewestShown
  BY <1>3 DEF Init, NewestShown, Nothing
<1>5. Followed
  BY DEF Init, Followed
<1> QED  BY <1>1, <1>2, <1>4, <1>5 DEF FollowInv

\* Every step keeps the connection so.
LEMMA FollowInductive ==
  IInv /\ FollowInv /\ [Next]_vars => FollowInv'
<1> SUFFICES ASSUME IInv, FollowInv, [Next]_vars PROVE FollowInv'
  OBVIOUS
<1>1. AllKnown' /\ NoneAhead'
  BY KnownStep, AheadStep DEF FollowInv
<1>2. ASSUME ~crossed' PROVE OneAdd' /\ NewestShown' /\ Followed'
  <2>1. ~crossed /\ AllKnown /\ NoneAhead /\ OneAdd /\ NewestShown /\ Followed
    BY <1>2, CrossedStays DEF FollowInv
  <2> QED  BY <1>2, <2>1, OneAddStep, NewestStep, FollowedStep
<1> QED  BY <1>1, <1>2 DEF FollowInv

\* A page that has missed no attempt has badges of the one it shows, and only
\* while that is provisioned, on every visit (useLabSession.js:37).
THEOREM GraderFollowsAttemptHolds ==
  Spec => []GraderFollowsAttempt
<1>1. IInv /\ FollowInv => GraderFollowsAttempt
  <2> SUFFICES ASSUME IInv, Followed, mounted, grader[visit] # 0
               PROVE  last = [id |-> grader[visit], state |-> "provisioned"]
    BY DEF FollowInv, GraderFollowsAttempt
  <2> QED  BY DEF Followed, IInv, TypeOK, Records
<1>2. Spec => []FollowInv
  BY InitFollow, FollowInductive, Invariance, PTL DEF Spec
<1> QED  BY <1>1, <1>2, Invariance, PTL
=============================================================================
