----------------------------- MODULE LabSession -----------------------------
(***************************************************************************)
(* The lab page in one browser document: the store of attempts, which      *)
(* outlives the page, and useLabSession, made anew on every visit. Between *)
(* an await and what follows it anything may happen, another visit         *)
(* included. Links to labs load a new document, so a document only ever    *)
(* shows one lab: attempts are those of one user at that lab. The active   *)
(* attempt at another lab, the history and the wording are left out.       *)
(***************************************************************************)
EXTENDS Naturals, Sequences, FiniteSets

CONSTANTS
  OtherTab,     \* whether the user also starts attempts in another browser tab
  Failing,      \* whether calls to PocketBase may fail
  Lossy,        \* the states whose realtime messages may get lost
  LateSaves,    \* whether a status may be saved after the attempt's end
  MaxAttempts,  \* bound: attempts at this lab
  MaxVisits,    \* bound: visits of the page
  MaxClicks,    \* bound: what the user does on the page
  MaxRuns,      \* bound: callbacks of a visit for one attempt that are under way
  MaxEvents     \* bound: changes on their way to the page

ASSUME LabSessionAssumption ==
  /\ {OtherTab, Failing, LateSaves} \subseteq BOOLEAN
  /\ {MaxAttempts, MaxVisits, MaxClicks, MaxRuns, MaxEvents} \subseteq Nat

Attempts == 1..MaxAttempts
Visits   == 1..MaxVisits
Runs     == 1..MaxRuns
\* "new" is also "provisioning"; only the page itself writes "decommissioning".
Written  == {"new", "provisioned", "decommissioned"}
Live     == {"new", "provisioned", "decommissioning"}
States   == Live \cup {"none", "decommissioned"}
\* What the store may hold; id 0 stands for null.
Records  == [id : 0..MaxAttempts, state : States]
Nothing  == [id |-> 0, state |-> "none"]
\* A callback of the watch on the id and its subscription, named for the visit
\* and the attempt it is for.
Subs     == Visits \X (0..MaxAttempts) \X Runs
NoSub    == <<0, 0, 0>>

VARIABLES
  cur, updated,          \* PocketBase: each current_state; the record saved last
  events,                \* PocketBase: realtime messages on their way
  last, loading, handle, \* the store: lastAttempt, loading, _unsubscribe
  subs,                  \* subscriptions that deliver
  load, loaded,          \* loadLastAttempt: "idle", "sent" or "served", and its answer
  adding, added,         \* addAttempt: how many are sent; the answers to others
  removing, removed,     \* removeAttempt: the attempts it is sent for; answers
  visit, mounted,        \* the page: how many visits so far; whether it is open
  tabs,                  \* the attempts its terminals belong to
  init, leave,           \* initLab and onUnmounted, of each visit
  watching,              \* the callbacks of the watch on the id, where they wait
  grader,                \* graderConnection of each visit: the attempt, or 0
  crossed,               \* history: what the page shows may have missed an attempt
  clicks                 \* what the user has done so far

server == <<cur, updated, events>>
loads   == <<load, loaded>>
adds    == <<adding, added>>
removes == <<removing, removed>>
calls   == <<loads, adds, removes>>
watch  == <<handle, subs>>
page   == <<visit, mounted, tabs, init, leave, watching, grader>>
ghosts == <<crossed, clicks>>
vars   == <<server, last, loading, watch, calls, page, ghosts>>

TypeOK ==
  /\ cur \in [Attempts -> States] /\ updated \in 0..MaxAttempts
  /\ events \in Seq(Records) /\ Len(events) <= MaxEvents
  /\ last \in Records /\ loading \in BOOLEAN
  /\ handle \in Subs \cup {NoSub} /\ subs \subseteq Subs
  /\ load \in {"idle", "sent", "served"} /\ loaded \in Records
  /\ adding \in 0..MaxAttempts /\ added \subseteq Attempts
  /\ removing \subseteq Attempts /\ removed \subseteq Attempts
  /\ visit \in 0..MaxVisits /\ mounted \in BOOLEAN
  /\ tabs \subseteq Attempts
  /\ init \in [Visits -> {"none", "fetch", "stop", "done", "failed"}]
  /\ leave \in [Visits -> {"none", "stop", "done", "failed"}]
  /\ watching \in [Subs -> {"idle", "stop", "kept", "subscribe", "refused"}]
  /\ grader \in [Visits -> 0..MaxAttempts] /\ crossed \in BOOLEAN
  /\ clicks \in 0..MaxClicks

Init ==
  /\ cur = [a \in Attempts |-> "none"] /\ updated = 0 /\ events = <<>>
  /\ last = Nothing /\ loading = FALSE
  /\ handle = NoSub /\ subs = {}
  /\ load = "idle" /\ loaded = Nothing
  /\ adding = 0 /\ added = {} /\ removing = {} /\ removed = {}
  /\ visit = 0 /\ mounted = FALSE /\ tabs = {}
  /\ init = [v \in Visits |-> "none"] /\ leave = [v \in Visits |-> "none"]
  /\ watching = [k \in Subs |-> "idle"]
  /\ grader = [v \in Visits |-> 0] /\ crossed = FALSE
  /\ clicks = 0

-----------------------------------------------------------------------------
\* stopWatching: the listener goes at once, the handle when PocketBase answers.
Unsubscribe == subs' = subs \ {handle} /\ UNCHANGED handle

\* A subscription refused leaves its listener with the SDK, which names it again
\* in the next request.
Refused == {k \in Subs : watching[k] = "refused"}

\* PocketBase is told of an unsubscription, and may fail to answer, when other
\* listeners remain; with the last one the SDK just disconnects.
MayReject == Failing /\ (subs \cup Refused # {} \/ \E k \in Subs : watching[k] = "subscribe")

\* Mutant: the tabs stay.
KeepTabs(k) == UNCHANGED tabs

\* What follows it: resetTabs ...
ResetTabs(k) == tabs' = IF k[1] = visit THEN {} ELSE tabs

\* Mutant: only a provisioned attempt is watched.
WatchReady(k, r) == IF k[2] # 0 /\ r.state = "provisioned" THEN "subscribe" ELSE "idle"

\* ... and a new subscription, unless the attempt is over.
AfterStop(k, r) == IF k[2] # 0 /\ r.state # "decommissioned" THEN "subscribe" ELSE "idle"

\* watch(lastAttempt.id), up to its first wait.
WatchId(r) ==
  \E n \in Runs :
    LET k == <<visit, r.id, n>>
    IN
      /\ watching[k] \in {"idle", "kept"} /\ k \notin subs
      /\ \/ /\ handle = NoSub
            /\ ResetTabs(k)
            /\ watching' = [watching EXCEPT ![k] = AfterStop(k, r)]
            /\ UNCHANGED subs
         \/ /\ handle # NoSub
            /\ subs' = subs \ {handle}
            /\ watching' = [watching EXCEPT ![k] = "stop"]
            /\ UNCHANGED tabs

\* Mutant: a connection is kept although the attempt stops being provisioned.
WatchStateKeeps(r) ==
  grader' = [grader EXCEPT ![visit] = IF r.state = "provisioned" THEN r.id ELSE @]

\* watch(lastAttempt.current_state): the grader is connected, or let go.
WatchState(r) ==
  grader' = [grader EXCEPT ![visit] = IF r.state = "provisioned" THEN r.id ELSE 0]

\* lastAttempt becomes r. The open page's watchers of what this changes run at
\* once, before any other callback can.
Show(r) ==
  /\ last' = r
  /\ IF mounted /\ r.id # last.id THEN WatchId(r) ELSE UNCHANGED <<subs, tabs, watching>>
  /\ IF mounted /\ r.state # last.state THEN WatchState(r) ELSE UNCHANGED grader

\* The wait of the callback ends. When it is rejected nothing follows, and the
\* handle stays.
Unsubscribed(k) ==
  /\ watching[k] = "stop"
  /\ \/ /\ handle' = NoSub
        /\ ResetTabs(k)
        /\ watching' = [watching EXCEPT ![k] = AfterStop(k, last)]
     \/ /\ MayReject
        /\ watching' = [watching EXCEPT ![k] = "kept"]
        /\ UNCHANGED <<handle, tabs>>
  /\ UNCHANGED <<server, last, loading, subs, calls, visit, mounted, init, leave,
                 grader, ghosts>>

\* startWatching, with no handle to take down first: the subscription delivers,
\* and its handle replaces any other. When it is refused there is no handle.
Subscribed(k) ==
  /\ watching[k] = "subscribe"
  /\ \/ /\ handle' = k /\ subs' = subs \cup {k} \cup Refused
        /\ watching' = [watching EXCEPT ![k] = "idle"]
     \/ /\ Failing
        /\ subs' \in {subs, subs \cup {k}}
        /\ watching' = [watching EXCEPT ![k] = "refused"]
        /\ UNCHANGED handle
  /\ UNCHANGED <<server, last, loading, calls, visit, mounted, tabs, init, leave,
                 grader, ghosts>>

-----------------------------------------------------------------------------
\* The store's calls. A call that fails leaves the attempt as it was. One load
\* aborts another, whose end then resets loading (the two have one requestKey).
AddBusy == adding > 0 \/ added # {}

StartLoad ==
  /\ load' = "sent" /\ loaded' = Nothing /\ loading' = (load = "idle")
  /\ crossed' = (crossed \/ AddBusy)

\* Of the user's attempts at the lab, the one saved last: not always the newest.
Latest == IF updated = 0 THEN Nothing ELSE [id |-> updated, state |-> cur[updated]]

LoadServed ==
  /\ load = "sent"
  /\ load' = "served" /\ loaded' = Latest
  /\ UNCHANGED <<server, last, loading, watch, adds, removes, page, ghosts>>

LoadAnswers ==
  /\ load = "served" /\ Show(loaded)
  /\ load' = "idle" /\ loaded' = Nothing /\ loading' = FALSE
  /\ crossed' = (crossed \/ loaded.id < last.id)
  /\ UNCHANGED <<server, handle, adds, removes, visit, mounted, init, leave, clicks>>

LoadFails ==
  /\ Failing
  /\ load # "idle"
  /\ load' = "idle" /\ loaded' = Nothing /\ loading' = FALSE
  /\ UNCHANGED <<server, last, watch, adds, removes, page, ghosts>>

\* PocketBase lets a user have one attempt that is not decommissioned.
Free == {a \in Attempts : cur[a] = "none" /\ \A b \in Attempts : b < a => cur[b] = "decommissioned"}

AddServed ==
  /\ adding > 0
  /\ \E a \in Free :
       /\ cur' = [cur EXCEPT ![a] = "new"] /\ updated' = a
       /\ adding' = adding - 1 /\ added' = added \cup {a}
  /\ UNCHANGED <<events, last, loading, watch, loads, removes, page, ghosts>>

AddAnswers(a) ==
  /\ a \in added /\ Show([id |-> a, state |-> "new"])
  /\ added' = added \ {a} /\ loading' = FALSE
  /\ UNCHANGED <<server, handle, loads, adding, removes, visit, mounted, init, leave, ghosts>>

\* Refused by PocketBase's hook, or lost: the request, or the answer.
AddFails ==
  /\ \/ /\ adding > 0
        /\ Failing \/ Free = {}
        /\ adding' = adding - 1 /\ UNCHANGED <<added, crossed>>
     \/ /\ Failing
        /\ \E a \in added : added' = added \ {a}
        /\ crossed' = TRUE /\ UNCHANGED adding
  /\ loading' = FALSE
  /\ UNCHANGED <<server, last, watch, loads, removes, page, clicks>>

\* A change of a record is sent to whoever listens.
Listening(a) == \E k \in subs : k[2] = a
Emit(a, s) ==
  IF Listening(a) THEN Len(events) < MaxEvents /\ events' = Append(events, [id |-> a, state |-> s])
                  ELSE UNCHANGED events

RemoveServed(a) ==
  /\ a \in removing
  /\ removing' = removing \ {a} /\ removed' = removed \cup {a}
  /\ updated' = a /\ Emit(a, cur[a])
  /\ UNCHANGED <<cur, last, loading, watch, loads, adds, page, ghosts>>

\* The new state is not in the answer: the page puts it there itself, into the
\* attempt it shows by then.
RemoveAnswers(a) ==
  /\ a \in removed
  /\ Show(IF last.id = 0 THEN last ELSE [last EXCEPT !.state = "decommissioning"])
  /\ removed' = removed \ {a} /\ loading' = FALSE
  /\ UNCHANGED <<server, handle, loads, adds, removing, visit, mounted, init, leave, ghosts>>

RemoveFails(a) ==
  /\ Failing
  /\ \/ a \in removing /\ removing' = removing \ {a} /\ UNCHANGED removed
     \/ a \in removed /\ removed' = removed \ {a} /\ UNCHANGED removing
  /\ loading' = FALSE
  /\ UNCHANGED <<server, last, watch, loads, adds, page, ghosts>>

\* Mutant: news of the end of an attempt are not shown.
HandleLiveOnly ==
  /\ events # <<>>
  /\ events' = Tail(events)
  /\ IF Listening(Head(events).id) /\ last.id = Head(events).id /\ Head(events).state \in Live
       THEN Show(Head(events)) ELSE UNCHANGED <<last, subs, tabs, watching, grader>>
  /\ UNCHANGED <<cur, updated, loading, handle, calls, visit, mounted, init, leave, ghosts>>

\* _handleAttemptEvent: an event for the attempt shown replaces it.
HandleAttemptEvent ==
  /\ events # <<>>
  /\ events' = Tail(events)
  /\ IF Listening(Head(events).id) /\ last.id = Head(events).id
       THEN Show(Head(events)) ELSE UNCHANGED <<last, subs, tabs, watching, grader>>
  /\ UNCHANGED <<cur, updated, loading, handle, calls, visit, mounted, init, leave, ghosts>>

\* The realtime connection breaks, and comes back without what was sent meanwhile.
LoseEvent ==
  /\ events # <<>> /\ Head(events).state \in Lossy
  /\ events' = Tail(events)
  /\ UNCHANGED <<cur, updated, last, loading, watch, calls, page, ghosts>>

-----------------------------------------------------------------------------
Click == clicks < MaxClicks /\ clicks' = clicks + 1

\* A visit of the page.
Mount ==
  /\ Click
  /\ ~mounted /\ visit < MaxVisits
  /\ visit' = visit + 1 /\ mounted' = TRUE
  /\ tabs' = {}
  /\ init' = [init EXCEPT ![visit + 1] = "fetch"]
  /\ UNCHANGED <<server, last, loading, watch, calls, leave, watching, grader, crossed>>

\* initLab runs on even when the visit it is for has ended.
LabFetched(v) ==
  /\ init[v] = "fetch"
  /\ \/ /\ handle = NoSub
        /\ init' = [init EXCEPT ![v] = "done"] /\ StartLoad
        /\ UNCHANGED watch
     \/ /\ handle # NoSub
        /\ init' = [init EXCEPT ![v] = "stop"] /\ Unsubscribe
        /\ UNCHANGED <<loads, loading, crossed>>
     \/ /\ Failing
        /\ init' = [init EXCEPT ![v] = "failed"]
        /\ UNCHANGED <<watch, loads, loading, crossed>>
  /\ UNCHANGED <<server, last, adds, removes, visit, mounted, tabs, leave, watching,
                 grader, clicks>>

InitStopped(v) ==
  /\ init[v] = "stop"
  /\ \/ /\ handle' = NoSub
        /\ init' = [init EXCEPT ![v] = "done"] /\ StartLoad
     \/ /\ MayReject
        /\ init' = [init EXCEPT ![v] = "failed"]
        /\ UNCHANGED <<handle, loads, loading, crossed>>
  /\ UNCHANGED <<server, last, subs, adds, removes, visit, mounted, tabs,
                 leave, watching, grader, clicks>>

\* LabControls is on screen once the lab is known, and no error is.
Controls == mounted /\ init[visit] \in {"stop", "done"}

Refresh ==
  /\ Click
  /\ Controls /\ ~loading
  /\ StartLoad
  /\ UNCHANGED <<server, last, watch, adds, removes, page>>

Provision ==
  /\ Click
  /\ Controls /\ ~loading
  /\ last.state \in {"none", "decommissioned"}
  /\ adding < MaxAttempts
  /\ adding' = adding + 1 /\ loading' = TRUE
  /\ crossed' = (crossed \/ load # "idle" \/ AddBusy)
  /\ UNCHANGED <<server, last, watch, loads, added, removes, page>>

\* Mutant: removeAttempt does not look whether there is an attempt.
DecommissionNothing ==
  /\ Click
  /\ Controls /\ ~loading
  /\ removing' = removing \cup {last.id} /\ loading' = TRUE
  /\ UNCHANGED <<server, last, watch, loads, adds, removed, page, crossed>>

Decommission ==
  /\ Click
  /\ Controls /\ ~loading
  /\ last.state \in {"new", "provisioned"}
  /\ removing' = removing \cup {last.id} /\ loading' = TRUE
  /\ UNCHANGED <<server, last, watch, loads, adds, removed, page, crossed>>

OpenTab ==
  /\ Click
  /\ Controls /\ last.state \in Live
  /\ tabs' = tabs \cup {last.id}
  /\ UNCHANGED <<server, last, loading, watch, calls, visit, mounted, init, leave,
                 watching, grader, crossed>>

\* Mutant: leaving does not close the connection to the grader.
LeaveStoppedOnly(v) ==
  /\ leave[v] = "stop"
  /\ handle' = NoSub
  /\ leave' = [leave EXCEPT ![v] = "done"]
  /\ UNCHANGED <<server, last, loading, subs, calls, visit, mounted, tabs, init,
                 watching, grader, ghosts>>

\* onUnmounted: first stopWatching, then graderConnection.close.
Leave ==
  /\ Click
  /\ mounted
  /\ mounted' = FALSE /\ tabs' = {}
  /\ \/ /\ handle = NoSub
        /\ leave' = [leave EXCEPT ![visit] = "done"]
        /\ grader' = [grader EXCEPT ![visit] = 0]
        /\ UNCHANGED watch
     \/ /\ handle # NoSub
        /\ leave' = [leave EXCEPT ![visit] = "stop"] /\ Unsubscribe
        /\ UNCHANGED grader
  /\ UNCHANGED <<server, last, loading, calls, visit, init, watching, crossed>>

\* A rejected wait leaves the connection to the grader open.
LeaveStopped(v) ==
  /\ leave[v] = "stop"
  /\ \/ /\ handle' = NoSub
        /\ leave' = [leave EXCEPT ![v] = "done"]
        /\ grader' = [grader EXCEPT ![v] = 0]
     \/ /\ MayReject
        /\ leave' = [leave EXCEPT ![v] = "failed"]
        /\ UNCHANGED <<handle, grader>>
  /\ UNCHANGED <<server, last, loading, subs, calls, visit, mounted, tabs, init,
                 watching, ghosts>>

-----------------------------------------------------------------------------
\* The rest of the world: attempt-controller, which saves the state of an attempt
\* again and again, and the user's other tab.
Progress(a) ==
  /\ cur[a] # "none"
  /\ \E s \in Written :
       /\ cur[a] = "decommissioned" /\ ~LateSaves => s = "decommissioned"
       /\ cur' = [cur EXCEPT ![a] = s] /\ updated' = a
       /\ Emit(a, s)
  /\ UNCHANGED <<last, loading, watch, calls, page, ghosts>>

StartElsewhere ==
  /\ OtherTab
  /\ \E a \in Free : cur' = [cur EXCEPT ![a] = "new"] /\ updated' = a
  /\ crossed' = TRUE
  /\ UNCHANGED <<events, last, loading, watch, calls, page, clicks>>

Answers ==
  \/ LoadServed \/ LoadAnswers \/ LoadFails \/ AddServed \/ AddFails
  \/ \E a \in Attempts :
       AddAnswers(a) \/ RemoveServed(a) \/ RemoveAnswers(a) \/ RemoveFails(a)
Watchers == \E k \in Subs : Unsubscribed(k) \/ Subscribed(k)
User     == Mount \/ Refresh \/ Provision \/ Decommission \/ OpenTab \/ Leave
Hooks    == \E v \in Visits : LabFetched(v) \/ InitStopped(v) \/ LeaveStopped(v)
World    == StartElsewhere \/ LoseEvent \/ \E a \in Attempts : Progress(a)

Next == Answers \/ Watchers \/ User \/ Hooks \/ HandleAttemptEvent \/ World

Spec == Init /\ [][Next]_vars

\* Callbacks run and answers arrive; users and attempts do as they like.
Fairness ==
  /\ WF_vars(Watchers) /\ WF_vars(Hooks) /\ WF_vars(HandleAttemptEvent)
  /\ WF_vars(LoadServed \/ LoadAnswers) /\ WF_vars(\E a \in Attempts : RemoveAnswers(a))

FairSpec == Spec /\ Fairness

-----------------------------------------------------------------------------
\* Safety. A page whose watchers have run has badges of the attempt it shows, and
\* only while that is provisioned (useLabSession's second watch, which looks at the
\* state alone). Unless the page has missed an attempt: one started in another tab,
\* by a call whose answer is lost, or while a load is under way, or one whose
\* predecessor, saved later, a load has brought back.
GraderFollowsAttempt ==
  mounted /\ ~crossed /\ grader[visit] # 0 =>
    last = [id |-> grader[visit], state |-> "provisioned"]

\* Safety. Terminals belong to the attempt shown, unless its predecessor's
\* subscription is still being taken down, or cannot be (resetTabs after an await).
TabsFollowAttempt ==
  mounted /\ (\A k \in Subs : k[1] = visit => watching[k] \notin {"stop", "kept"}) =>
    tabs \subseteq {last.id}

\* Safety. attempts.spec.js: "stops prior subscription before starting a new one".
OneSubscription == Cardinality(subs) <= 1

\* Liveness. After a visit its connection to the grader is closed (onUnmounted),
\* unless PocketBase rejects the unsubscription that comes first.
GraderClosedOnLeave ==
  \A v \in Visits : visit = v /\ ~mounted ~> grader[v] = 0 \/ leave[v] = "failed"

\* The callbacks of this visit for an attempt.
CallbackIn(a, labels) ==
  \E k \in Subs : k[1] = visit /\ k[2] = a /\ watching[k] \in labels

\* Liveness. A running attempt that a page has come to show, so that a callback
\* of the watch on the id is under way for it, gets listened to, in every order
\* of that callback's waits and those of others, unless PocketBase refuses.
RunningIsWatched ==
  \A a \in Attempts :
    mounted /\ last.id = a /\ last.state \in Live /\ CallbackIn(a, {"stop", "subscribe"})
      ~> \/ Listening(a) \/ CallbackIn(a, {"kept", "refused"})
         \/ ~mounted \/ last.id # a \/ last.state \notin Live

\* Liveness. The news that an attempt has ended come to be shown, by a page that
\* shows the attempt and goes on listening.
EndIsShown ==
  \A a \in Attempts :
    (\E i \in DOMAIN events : events[i] = [id |-> a, state |-> "decommissioned"])
      /\ mounted /\ last.id = a /\ Listening(a)
      ~> \/ last = [id |-> a, state |-> "decommissioned"]
         \/ last.id # a \/ ~mounted \/ ~Listening(a)

\* A page has loaded a provisioned attempt.
AwaitsBadges ==
  /\ Controls /\ load = "idle"
  /\ \E a \in Attempts :
       last = [id |-> a, state |-> "provisioned"] /\ cur[a] = "provisioned"

\* Liveness. 2026-07-06-frontend-grader-design.md: "current_state === 'provisioned'
\* -> graderConnection.connect()". Such a page does not stay without its badges.
BadgesConnect == AwaitsBadges ~> ~(AwaitsBadges /\ grader[visit] # last.id)
=============================================================================
