# rootenv: specifications, model checking and proofs

rootenv gives each student of a lab a set of machines of their own. A student starts an
*attempt* in the web page; a controller turns it into a Kubernetes object, an operator turns
that into a namespace with pods, two relays connect the browser to the terminals and to a
grader, and an expiry takes it all down again. These parts share no lock and no transaction:
they agree through records, watches, events and WebSockets, each of which may be late, lost or
repeated. The modules here say what each part does, step by step, and what is to be true
whatever order the steps come in.

* TLC checks the properties on small instances (`*.cfg`, modules `MC*`).
* TLAPS proves the most important safety properties for every value of the constants
  (modules `*_proofs`).
* `PROJECT.json` lists components, runs, mutants, findings, hazards and theorems, and maps each
  definition to the lines it stands for.

To run: `tlc -workers 2 -config relay.cfg MCRelay`, `tlapm RelayHandler_proofs.tla`.

Paths below are relative to `src/`; `AC` stands for `services/attempt-controller`, `OP` for
`services/labenv-operator/internal/controller`, `RE` for `services/relay`, `FE` for
`services/frontend/src`.

## 1. Inventory

### Components, their state and their operations

| Component | State it keeps | Operations | Hard part |
|---|---|---|---|
| backend (PocketBase: `services/backend/pb_hooks`, `pb_migrations`) | records of attempts: `user`, `current_state`, `desired_state`, `expires_at` | owner: create, stop; superuser: erase; controller: PATCH; realtime stream to subscribers | the create hook queries, then saves; events are lost when a stream breaks |
| attempt-controller, downstream (`AC/internal/downstream`, `AC/internal/pocketbase`, `AC/cmd`) | none but what its two goroutines have read and not yet acted on | realtime event, re-fetch, resync on connect, resync on a ticker; server-side apply or delete; PATCH after a delete that found nothing | two goroutines without a lock act on old reads |
| attempt-controller, upstream (`AC/internal/upstream`) | the informer's cache, `lastRV`, `expiresAtWritten` | informer add, update, delete, resync; PATCH of state and expiry | suppresses writes by maps kept in memory; failed PATCHes |
| labenv-operator (`OP`) | none; caches of objects, namespaces and pods | one reconcile: finalizer, namespace, expiry, policies, relay, grader, pods, status; clean-up | each call from another cache, and each may fail |
| relay handler (`RE/pkg/relaybase`, `RE/cmd`) | a counter per user, a WaitGroup | upgrade, first message, acquire, serve, release; shutdown | lock-free counter; shutdown against handlers that start |
| relay-exec (`RE/exec`) | per session: two pipes, a channel of sizes, a context; a forwarder with a bounded queue | four goroutines per session; the forwarder's dial, drain, retry | who ends whom; what is lost at the end |
| relay-grader (`RE/grader`) | per asset: the line under way and the last ten; grades; clients | listen, ingest, match, broadcast; register, greet, deregister | broadcasts under a mutex, greetings without; several connections of one forwarder at once |
| frontend, lab page (`FE/stores/attempts.js`, `FE/composables/useLabSession.js`) | the last attempt, a subscription handle, tabs, the grader's connection | load, add, remove, watch; mount, leave; callbacks on id and state | everything is between two `await`s |
| frontend, sockets (`FE/composables/use*Connection.js`) | a WebSocket, a reconnect timer | connect, send, show, close | reconnect |
| relay-authenticator | none | cookie, token check, owner check | stateless |
| labs, scripts, infrastructure, CI | files | offline | none at run time |

### How they interact

```
 browser --HTTP--> PocketBase --SSE--> attempt-controller(downstream) --apply/delete--> API server
    ^                  ^                                                                   |  ^
    |                  +------------- PATCH -- attempt-controller(upstream) <---watch------+  |
    |                                                                                      v  |
    |                                                                        labenv-operator -+
    |                                                                           | creates
    +--WebSocket--> relay-exec --kubectl exec--> pod of an asset  <--------------+
    |                   | NDJSON over TCP
    +--WebSocket--> relay-grader <-+
```

### What makes each correct

* A wanted attempt's lab is never deleted by the controller; a stopped one ends for good; a new
  one is picked up.
* What the record shows is what the object says, at least once the controller believes it
  has written it.
* A namespace never outlives the object that would have it removed, and nothing is reported before it
  is provisioned, except on the word of a cache that has not caught up; expiry hits every environment past its
  time and no other.
* The limiter's counters are exact; a relay told to stop leaves `main`, and waits for sessions until then;
  relay-exec then ends unless a frontend that stopped reading holds its forwarder.
* No output of a terminal is lost to a browser that stays; a session ends when either end does, unless a
  peer stays and reads no more.
* A task passes when, and only when, its template was shown, unless a chunk was dropped, lost or
  overtaken on its way, or outgrew the ring; every client comes to know.
* The page shows terminals and badges of the attempt it shows, and listens to an attempt it comes to show.

Section 6 lists where the code, read closely, does not do what a document says of it; the
`hazards` of `PROJECT.json` list the places that are hard to test, each with its line.

## 2. Modules

| Module | Models | Extends / uses |
|---|---|---|
| `AttemptBase` | states, phases, the budget of faults | |
| `PocketBase` | the attempts collection, its hooks, the stream | `AttemptBase` |
| `LabCluster` | LabEnvironments as the controller sees them: writes, watch, and the operator in outline | `AttemptBase` |
| `Downstream` | events, resyncs, reconciles of the two goroutines | `PocketBase`, `LabCluster` |
| `Upstream` | the informer and the reconciler behind it | `PocketBase`, `LabCluster` |
| `AttemptSystem` | the life of an attempt end to end, restarts, fairness, properties | `Downstream`, `Upstream` |
| `EnvLifecycle` | **abstract**: the order of lives and phases an environment is seen in | |
| `LabEnvOperator` | the operator's reconciler, call by call, on lagging caches | implements `EnvLifecycle` |
| `SlotPool` | **abstract**: slots per user, given or refused | |
| `ConnLimiter` | load, compare-and-swap, release | |
| `RelayHandler` | a handler per connection, and main's shutdown | `ConnLimiter`, implements `SlotPool` |
| `ExecSession` | one terminal session and the forwarder's queue | |
| `Grader` | lines, matching, broadcasts, clients | |
| `GraderFeed` | the forwarder of relay-exec and the listener of relay-grader, between the terminals and the grader; crashes of the grader | extends `Grader` |
| `LabSession` | the store of attempts and the lab page | |
| `MC*` | values of constants for TLC | the module named |
| `*_proofs` | theorems | the module named |
| `AttemptSync_proofs` | what upstream believes written | `AttemptSystem_proofs` |

`LabCluster` repeats in outline what `LabEnvOperator` models in detail: the object appears, gets a
phase, the phase follows the pods, a delete leads through Terminating to the object's
removal. That outline is `EnvLifecycle`, which `LabEnvOperator` is checked to implement. `ExecSession`
and `Grader` say when a backend's `Serve` returns, which `RelayHandler` leaves open. `Grader` on its own
takes each chunk in as it is printed; `GraderFeed` puts between the two what is there in the code.

### How state and actions correspond to the code

**`AttemptSystem`.** `rec[a]` is a record, `checked[u]` the create requests of a user between the
hook's query and the save, `conn` and `feed` the controller's SSE connection and what is under way on
it. `todo[t]` is what goroutine `t` (`"sub"` for the subscription with its resync on connect,
`"tick"` for the ticker) has read and not acted on, `mark[t]` the attempt whose delete found nothing
and which it is about to PATCH. `env[a]` is the LabEnvironment, `watch` the informer's pending events,
`seen`, `lastRV` and `expiresAtWritten` what `upstream` remembers. Each HTTP or API call is one step
that succeeds or fails (`Fail(kind)`); a re-authentication after a 401 is part of the call, as a
401 that persists is a failure. Resource versions and times are opaque values of which the code only
ever asks whether two are equal. The identity of an object is its creation time (`born`), which is also
its expiry. `hidden` is history: the attempts of which a re-list has shown one object in place of another.

**`LabEnvOperator`.** One pass is a walk through `pc`, one API call per step; `env` is the copy it
works on and `fresh` whether that copy still has the server's resource version, all that the outcome
of an update depends on. The caches `cObj`, `cNs`, `cPods` and `cMade` are behind independently: the first and the third by
`objFeed` and `podFeed`, the others by what they show until they are brought up to date. `due` is the one entry the
work queue can hold for the key. Time is the number of the
last incarnation that has outlived its TTL. The objects a namespace is provisioned with are the seven
`Parts`, in the order the code creates them. Each `ensure` function looks for its object in the cache of its kind and creates
what it does not find, so a part that the cache still has of an earlier namespace is left out. Three variables are
history, and name what is to be laid to such a copy: `skipped`, the parts the present pass found in a cache and nowhere
else; `excused`, those of the pass that wrote the status; `misread`, that a finalizer went because the cache had no
namespace yet.

**`RelayHandler`.** `pc[c]` follows `ServeHTTP` for connection `c`; `counts` are the limiter's atomic
counters; `main`, `late`, `wg`, `done` are main's select at shutdown.

**`ExecSession`.** The pumps are the goroutines of `Serve`; `stdoutPipe` is the unbuffered pipe, `resizeCh`
the channel of capacity one, `fwdQueue` the forwarder's channel. A chunk of output stands for one
read of at most 32 KiB. `got` is what the browser has read, which it need not go on doing.

**`Grader`.** A line is the set of marks it shows, a chunk a sequence of pieces with newlines between
them, a template a sequence of sets of marks: what matters of a regular expression
is what lines it needs. `sending` means `Ingest` holds the mutex and broadcasts `payload` to the
clients in `todo`. `told`, `printed`, `tail` and `pushedOut` are history, for the properties. An asset's output is that of all
its terminals, put together in the order in which they hand it on, as the grader keeps one buffer per asset. `pushedOut[a]`
are the tasks whose template was in lines that `Ingest` trimmed from the ring before it matched.

**`GraderFeed`.** `queue` is the forwarder's channel, `fwd` and `hand` where its goroutine is and the
message it is writing, `wire[n]` what connection `n` still carries: the grader reads every connection
in a goroutine of its own (`Receive(n)`), the last one and those before it. A connection that breaks (`Break`) lets
the grader read a beginning of what was on it; a write to it fails or appears to succeed, and the message is gone either way.
`closing` is the deferred `Close` of relay-exec's `main`. `GraderRestarts` empties everything the grader
keeps, and frontends keep their screens until they have connected again. `gapped` is history: the assets of which a
chunk was dropped, lost or taken in before an earlier one.

**`LabSession`.** Every `await` splits a function: requests that are sent, served and answered
(`load`, `adding`, `removing`), callbacks that wait (`watching`), hooks of a visit (`init`, `leave`).
The store's `last`, `handle`, `loading` outlive a visit; `tabs` and `grader[v]` are those of a visit.
Links to labs load a new document, so a document only ever shows one lab; leaving is by breadcrumb, and coming
back by the browser's Back. With `Failing` every call may be refused, subscribing and unsubscribing included: the
callback, `initLab` or `onUnmounted` that waits for it then ends where it stands (`"kept"`, `"refused"`, `"failed"`). Several callbacks of
the watch on the id, also for one attempt, are under way at once. PocketBase answers with the attempt *saved last*
(`updated`), which need not be the newest. `crossed` is history: the page may have missed an attempt.

## 3. Runs

Bounds are constants named `Max...`, with the sizes of the sets; a run of one user and one attempt is enough where
attempts do not share state (each has its own record, object, map entries), and the goroutines
that could mix them up are both there.

| Run | Instance | Properties | What it shows |
|---|---|---|---|
| `attempt_safety` | 1 attempt, 1 fault of any kind, re-lists included, phases Pending and Ready | `TypeOK`, `NoWrongfulDelete`, `SyncedStateMatches`, `SyncedExpiryMatches` | no goroutine holds the intent to delete a wanted attempt; what upstream believes it has written is what the record shows, across deletion and re-creation; the expiry unless a re-list hid these |
| `attempt_life` | 1 attempt, 1 fault of any kind | `DecommissionCompletes`, `PickedUp` | a stopped, expired or erased attempt ends for good; a new one is picked up |
| `attempt_missed` | 1 attempt, a restart | `MissedWriteHealed` (violated) | section 6 |
| `relay` | 3 connections, 2 users, 2 slots | `TypeOK`, `CountsExact`, `ImplementsSlotPool`, `DrainedSessionsDone`, `ShutdownEnds`, `AuthEnds` | counters exact under races, slots given out as promised, shutdown ends |
| `grader_lines` | 2 assets, 4 tasks, ring of 2, chunks of up to three newlines | `TypeOK`, `GradeEarned`, `ScrollbackMatched` | a task passes only when its template was shown, and always when it was, unless the chunk outgrew the ring |
| `feed` | 2 assets, queue of 2, 2 connections of capacity 1, chunks that are lines, no frontend | `EarnedUnlessGap` | a pass no output earned can always be laid to a chunk dropped, lost or overtaken |
| `feed_exit` | 1 terminal, 1 frontend that comes, stalls, goes and comes back, queue and connections of 1 | `NothingWithheld`, `NoGhostClient`, `OnlyStallHoldsExit` | every grade reaches every greeted client, dead connections are dropped, whatever the feed and the grader do; only a frontend that stops reading holds relay-exec's `Close` |
| `labenv_life` | 1 asset, 2 incarnations, 1 fault, 1 change of a pod, every cache lags, that of the policies for the parts | `TypeOK`, `NamespaceIsHeld`, `ReportedMeansProvisioned`, `ImplementsLifecycle`, `CleanupCompletes`, `StatusSettles` | in what one way a namespace loses its finalizer and what a status leaves out; order of lives and phases; clean-up ends; status settles |
| `labenv_expiry` | the same with 2 assets, one of them bad | `NoEarlyEviction`, `EnvExpires` | the expiry hits all that is due and nothing else |
| `session` | 3 chunks, 2 frames, queues of 1; browser and shell read when they like | `TypeOK`, `LastOutputDelivered`, `OutputReachesClient`, `OnlyStallHoldsSession`, `OnlyInputHoldsSession` | nothing is lost at the end; only a peer that stays and reads no more holds output or session |
| `page_session` | 2 attempts, 2 visits, 4 clicks, another tab, calls that fail, lost messages | `TypeOK`, `GraderFollowsAttempt`, `TabsFollowAttempt`, `RunningIsWatched`, `EndIsShown`, `GraderClosedOnLeave` | the page follows its attempt, and lets go of it |
| `page_return` | 1 attempt, 2 visits, nothing fails | `BadgesConnect` (violated) | section 6 |

Why the bounds are enough:

* *Attempts.* One fault lets each retry be needed once, at any moment; two pending
  watch events and one pending stream event are what it takes for a goroutine to be behind and for a
  stream to overflow.
* *Relay.* Three connections over two slots make a limit that is reached, a failed compare-and-swap
  between two, and a bystander; two users show that counters are apart. `SkipAuth` is set: a
  handler that refuses the headers does what one does that never gets a first message, so
  these behaviours include the others.
* *Operator.* Two incarnations under one name are what a stale copy or a stale expiry takes; a feed of two versions is
  a cache behind by a life. In `labenv_life` one asset suffices, as nothing but the phase depends on more
  (Degraded is `labenv_expiry`'s); one fault lets each call be the one that fails. Of the seven parts the first has a
  cache that lags (`LaggingParts`): the code looks for each in the same way, and the theorem is about any set of them.
* *Grader.* A ring of two with templates of up to two lines is the code's ring of ten with
  templates that fill it. Chunks are cut anywhere, and may have one more newline than the ring has lines.
* *Feed.* A queue of two keeps an order that a wrong `Take` would break; a connection that carries one message and
  another opened after it are what it takes for chunks to overtake each other. Chunks are whole lines, as cuts
  are `grader_lines`' question. One frontend suffices for who waits for whom, since a broadcast waits for each client
  on its own; that grades reach any number of them is proved (section 5).
* *Session.* One place in every queue makes every queue full; three chunks are one in the browser's
  hands, one under way and one in the pipe.
* *Page.* Two attempts are a restart; two visits are a page that comes back, with the callbacks of the first still
  waiting. Four clicks (`MaxClicks`) are start, stop and start with a leave, or two visits with something done in each; the theorems are
  about any number. `MaxRuns = 1` makes two callbacks of one visit that are under way at once be for different attempts.
  Messages of the end are not lost (`Lossy`), since nothing but they tell the page; `LateSaves = FALSE` keeps records that
  are over as they are, which `GraderFollowsAttempt`'s theorem does not need.

Deadlock is checked in the attempt, relay and `feed_exit` runs. In the others the
world ends because a bound is used up (incarnations, lines, a session that is over, visits), which their
configurations say with `CHECK_DEADLOCK FALSE`.

Each property of a passing run has a mutant: a plausible bug in a mapped definition (a dropped
error check, a version recorded too early, a counter stored blindly, an end that is not noticed)
under which TLC finds the property violated. The mutant stands before the definition it changes,
with a comment that begins "Mutant:"; no action uses it.

## 4. Fairness

Only what the program and its platform do on their own is fair.

* `AttemptSystem`: goroutines run, tickers fire, the stream is reopened, the informer is served and
  resynchronises; the operator does what it re-queues itself to do. People, pods and faults are not
  fair. Faults are finite in number: a call that fails for ever can complete nothing.
* `RelayHandler`: handlers run and timers fire. No client need send anything, no session need end.
* `GraderFeed`: a dial ends (its time limit is five seconds), goroutines that can go on do. Go's mutex starves
  nobody and its select takes every case that is ready again and again, which makes `Receive(n)`, `WriteGrades(c)` and
  `Leave` *strongly* fair: a peer that reads again and again gets the write through although it stalls in between
  (TCP retransmits). Nothing makes a frontend read: `OnlyStallHoldsExit` has its reading as the premise. Terminals,
  `Take` and new dials are not fair.
* `LabEnvOperator`: the worker, the three watches and the namespace controller. `Resync` is not
  fair, so nothing relies on it.
* `ExecSession`: the relay's goroutines, and Exec's return. Neither the browser's nor the shell's reading is fair, as no
  deadline in the code sees to it: where a property needs one of them, it is its premise (`BrowserReads`, `InputIsTaken`). Nothing of relay-grader.
* `LabSession`: callbacks run, PocketBase answers loads and (un)subscriptions, if only with an error, and an answer to a
  removal arrives once it has been served. Users and attempts do as they like.

## 5. Proofs

All theorems hold for every value of the constants that the named assumptions of the modules allow.

| Module | Theorem | Invariant behind it |
|---|---|---|
| `AttemptSystem_proofs` | `TypeCorrect`; `NoWrongfulDeleteHolds` | `IInv`: type, the property, and `FeedJustified` |
| `AttemptSync_proofs` | `SyncedStateMatchesHolds`, `SyncedExpiryMatchesHolds` | `MatchInv`: `CopiesDistinct`, `CopiesSynced`, `UnusedClean`; `ExpiryInv`: `EventsSound`, `OneLife`, `ExpiryOfLife`, `WrittenOfLife`, `ExpirySynced`, each but for `hidden` |
| `RelayHandler_proofs` | `TypeCorrect`, `CountsExactHolds`, `SlotPoolImplemented`, `DrainedSessionsDoneHolds` | `IInv`: counters are cardinalities, the WaitGroup counts the sessions served, a handler about to swap loaded less than the limit |
| `Grader_proofs` | `TypeCorrect`, `NothingWithheldHolds`, `NoGhostClientHolds`, `GradeEarnedHolds`, `ScrollbackMatchedHolds` | `CastInv`, `EarnInv`, `MissInv` |
| `GraderFeed_proofs` | `FeedWithholdsNothing`, `FeedLeavesNoGhost`, `EarnedUnlessGapHolds` | `FeedInv`: type, `CastInv`, `OnTheWay`; `OrderInv`: every asset that lost nothing is `Ordered` |
| `LabEnvOperator_proofs` | `TypeCorrect`, `NamespaceIsHeldHolds`, `ReportedMeansProvisionedHolds`, `NoEarlyEvictionHolds`, `LifecycleImplemented` | `LifeInv`, `ReportInv`, `OrderInv` |
| `ExecSession_proofs` | `TypeCorrect`, `LastOutputDeliveredHolds` | `IInv`: type, `Counted`, `Teardown`, `NothingLost` |
| `LabSession_proofs` | `TypeCorrect`, `TabsFollowAttemptHolds`, `GraderFollowsAttemptHolds` | `TabsHeld`; `FollowInv`: `AllKnown`, `NoneAhead` and, unless `crossed`, `OneAdd`, `NewestShown`, `Followed` |

* **No wrongful delete** (assuming `OwnersOnlyStop`: the only value owners write is
  `decommissioned`, as the frontend does). An event on the stream says "stopped" only of an attempt that
  was stopped (`FeedJustified`), being stopped is never undone, and each item a
  goroutine takes up is read from an event or from the record. The delete of an attempt erased in between
  is justified by its record being gone.
* **What upstream believes written** (assuming `OwnersOnlyStop`). Versions are distinct: on the server, in the
  watch, in the informer's cache, two copies with one version are one copy (`CopiesDistinct`). Hence it is enough that, for
  any copy whose version is the one recorded in `lastRV`, a wanted record shows its phase (`CopiesSynced`); a new object's
  versions are recorded nowhere (`UnusedClean`). That nothing else writes the state of a wanted record is
  `NoWrongfulDelete`.
* **The expiry written** (nothing assumed). `expiresAtWritten` is kept per attempt and
  forgotten when the informer reports a deletion, so the proof follows one object after the other: between two deletions
  on the watch all copies are of one life (`OneLife`), and a copy's expiry is its life's (`ExpiryOfLife`). Hence what was
  written is of the life the informer knows (`WrittenOfLife`), and a version synced has its expiry in the record
  (`ExpirySynced`). A re-list may show another object in place of the one last seen; it puts the attempt
  among the `hidden` until a deletion is reported, and the property is about the others.
* **Slots.** The counter of a user equals the number of handlers between a successful swap
  and their release. A load at the limit is a moment when all slots are taken, which is the point
  where `SlotPool` refuses; a failed swap is a stutter. `SlotPoolImplemented` shows
  that every initial state and every step maps to one of `SlotPool`.
* **Grades.** `CastInv`: what a registered client has not been told, it is *owed*, either by the
  broadcast under way or by the greeting it is about to get. `EarnInv`: the ring with the line under way
  is an end of the asset's output (`EndOf`), so that a match in the ring is a match in what was shown. `MissInv` is the converse:
  the ring is as full as it can be, so a match in the output that the ring does not hold was matched before, or lay in
  lines trimmed unmatched (`KeptOrTooFarBack`), and the task is in `pushedOut`. Nothing is assumed of chunks or of the ring; a template
  longer than the ring can never match, and the property is about the others.
* **The feed.** What is on its way was printed by a terminal (`OnTheWay`), so every message the grader reads is one
  `Grader` knows, in whatever order; `CastInv` holds of any sequence of chunks. A restart of the grader forgets
  grades and clients together, so that nothing is owed.
* **The order of the feed.** For an asset that lost nothing, the chunks on its way, over queue,
  hand and all connections, can be counted without a hole (`Counted`), each leads from what the asset's terminals had shown to
  what they showed next (`Chained`), the first from where the grader's buffer stands and the last to the present output
  (`Spanned`). A message taken, written or read moves one end of the count; a message dropped or lost marks the asset as
  `gapped`, and so does one read out of turn. What the grader reads is therefore a beginning of what was printed, and `EarnInv`'s argument applies.
* **Expiry.** `LifeInv`: the last version on the feed is the server's (`FeedEndsNow`), and a live copy that has the
  finalizer is of the object's present life (`CopiesName`), because only this worker takes the finalizer away and a new life
  starts without one; a pass between `EnsureFinalizer` and the expiry therefore names the life it read (`PassNames`).
* **Namespaces.** By `LifeInv` a pass that creates a namespace is past `EnsureFinalizer` on an object that still has its finalizer, so the
  only step that leaves a namespace without one is `reconcileDelete`'s, on a cache that has no namespace.
* **Status.** `ReportInv`: no copy of a live object that has the finalizer tells of a deletion (`CondemnedCopies`), an object
  without the finalizer has no status (`UnheldIsNew`), and a pass at each step has, of the parts `Behind` it, those it created still
  there and the others among the `skipped` (`PassCounts`), as the namespace of a live object that is held stays. A status written
  turns `skipped` into `excused` (`Provided`).
* **Life cycle.** `LifecycleImplemented` maps every step to one of `EnvLifecycle`. The
  step that is hard is the object's going: it must have said Terminating, unless a call failed or the cache had no namespace. A pass that finds the
  object condemned, with a phase of its pods still shown, has the last version there is (`LastTells`, `CleanupIsFresh`):
  nobody writes after the delete but this worker. So the pass that asks for the namespace's removal also succeeds in
  writing Terminating, and the next one, which sees the namespace gone, comes after it (`NamespaceFollows`, `Announced`). A status
  written by an overtaken pass is refused by its version (`FreshIsLive`).
* None of these four assumes anything of the lag of a cache.
* **Last output.** While the browser is there, every printed chunk is written, in the output pump's hands
  or in the pipe; nothing cancels the context before `Serve` returns, and it returns after the pump
  has seen the end of the pipe.
* **Tabs.** Each callback of the watch on the id resets the tabs when its unsubscription has ended, and acts on the
  attempt shown by then (`TabsHeld`): a tab of another attempt is open only while such a callback is under way, or after
  its unsubscription was rejected.
* **The badges' connection** (nothing assumed). Only the attempt's state is watched for it, so the attempt shown must not be
  replaced by another that is provisioned too. Attempts the page or the server knows exist (`AllKnown`), and visits to come have no
  connection (`NoneAhead`). As long as the page has missed nothing, one addition is under way at most (`OneAdd`), so that the attempt shown, or
  the one about to be, is the newest (`NewestShown`), and one replaces another only by coming new (`Followed`). What sets `crossed` are
  the ways out of that: another tab; an addition whose answer is lost, or one that overlaps a load or another addition; a load
  that answers with an older attempt than the one shown. Without this exception TLC finds the property violated.

Every safety property the runs check is thus a theorem. The one assumption on the world is `OwnersOnlyStop`, of
`NoWrongfulDeleteHolds` and `SyncedStateMatchesHolds`: owners write nothing but `decommissioned`, as the frontend does. What
the code does not keep is not assumed away but named in the property, by history variables that hold exactly the cases:
`hidden`, `pushedOut`, `gapped`, `skipped`, `excused`, `misread`, `crossed`.

Only model-checked: liveness, which is what remains of the runs' properties. Its proofs need ENABLED, which the prover does
not handle. The operators on lines are not recursive; nothing here needs induction over data.

## 6. Where documents and code part

Two runs show a violation. `attempt_missed`: a LabEnvironment that goes while the controller restarts leaves no
tombstone, and nothing compares records with objects afterwards: the record shows `provisioned` for good
(`AC/README.md:27-30`: "so transient failures self-heal").

`page_return`: a visit that finds the last one's attempt in the store, provisioned, never connects to the
grader, because the watch fires on a *change* of the state (`useLabSession.js:37`), where
`docs/superpowers/specs/2026-07-06-frontend-grader-design.md:54` has provisioned connect. For the same reason (`:28`) that visit watches
nothing: `initLab` (`:68`) has stopped the subscription, and the id does not change. `RunningIsWatched` is about attempts that a
page *comes* to show.

Others are stated as definitions in the modules, next to the properties that hold, and are violated with the
constants given:

| Definition | Document | Code | To see it |
|---|---|---|---|
| `OneActiveAttempt` | `docs/architecture.md:43` "only one active attempt allowed" | `pb_hooks/attempts.pb.js:45`: query and save apart | `MaxRequests = 2`, two attempts; even with 1, a resync's old item re-applies an attempt that ended |
| `ExpiryWrittenOnce` | `AC/README.md:52-53` "never overwritten on subsequent reconciles" | `upstream/reconcile.go:81`: forgotten on delete | `FaultKinds = {}`, `UserDesired = {}` |
| `DecommissionedMeansGone` | `AC/README.md:49-50` "`Terminating` → `decommissioning`" | `upstream/reconcile.go:95-97` | any instance |
| `DecommissionCompletes` with `Malformed` | `AC/README.md:27-30` | `pbclient.go:181-184`: skipped by every resync | `Malformed <- OneAttempt`, a `stream` fault |
| `DrainedMeansNoSession` | `RE/cmd/relay-exec/main.go:167` "all sessions drained" | `handler.go:105`: joined only after authentication | `relay.cfg` |
| `ScrollbackMatched` without its exception `pushedOut` | `docs/lab-grade.md:49` "once the pattern appears anywhere in that asset's recent scrollback" | `lines.go:48`: the ring is trimmed to ten lines before it is matched, reads are of up to 32 KiB; any output of more lines at once may be missed | `grader_lines.cfg` |
| `BadgesStayGreen` | `docs/lab-grade.md:87` "it can never un-pass" | `backend.go:157,164`: an older greeting after a broadcast | `Grader`'s `Spec` with one client |
| `CloseReturns` | `RE/exec/forwarder.go:68-71`: `Close` waits for a dial under way | `forwarder.go:122-128`, `RE/grader/backend.go:132-136`: also for a write that a stalled frontend holds | `feed_exit.cfg` |
| `GradeEarned` with the feed | `docs/lab-grade.md:49` "appears anywhere in that asset's recent scrollback" | `forwarder.go:57-66`: a full queue drops lines from the middle; what is left may match | `feed.cfg` |
| `CleanupMeansGone` | `labenvironment_controller.go:229` "cleanup complete" | `:224`: a cached Get of the namespace | `labenv_life.cfg` |
| `DisconnectEndsSession` | `RE/exec/backend.go:81` "WS disconnect cancels the exec context" | `:100`: the goroutine that would notice waits to write input nobody takes; Exec then never returns | `session.cfg` |
| `LastResizeApplies` | `services/relay/README.md:45` "only the last resize in a burst applies" | `backend.go:94-96`: the newest is dropped | `session.cfg` |
| `GraderFollowsAttempt` without `crossed` | `docs/superpowers/specs/2026-07-06-frontend-grader-design.md:55` "attempt changes/clears → `graderConnection.close()`" | `useLabSession.js:37`: only the state is watched | `page_session.cfg` |
| `GraderClosedOnLeave` without its exception | the same, `:56` "`onUnmounted`: also call `graderConnection.close()`" | `useLabSession.js:84`: not reached when the unsubscription is rejected | `page_session.cfg` |
| `OneSubscription` | `attempts.spec.js:403` "stops prior subscription before starting a new one" | `stores/attempts.js:35`: the handle is set after the answer | `page_session.cfg` |

Modelled, and seen on the way, without a document that says otherwise:

* *A part may be missing from an environment that is reported `Ready`*: each `ensure` function takes a cached copy for what
  there is, also of an object that went with an earlier namespace (`relay.go:110-338`, `grader.go:94`,
  `labenvironment_controller.go:384-455`), and nothing says so (`ReportedMeansProvisioned` without `excused`, `labenv_life.cfg`).
* *Two tabs on a server* share a buffer in the grader (`backend.go:78`): a line may show what neither tab
  did, and a task pass on it. `GradeEarned` and `EarnedUnlessGap` take the asset's output put together.
* *An unsubscription that is rejected*, possible while another listener remains: the callback ends before `resetTabs` and the
  new subscription (`useLabSession.js:29`), `initLab` shows "Lab not found." (`:68-75`). A subscription refused (`stores/attempts.js:36`) leaves no handle,
  and nothing tries again.
* *The attempt saved last* is what a page loads (`api/attempts.js:4`). A late PATCH of an attempt that is over, as
  `ReconcileDelete`'s after a restart, brings it back on a refresh in place of its successor (`LateSaves`).

Seen, not modelled: the forwarder's back-off reaches 16 s where the plan caps it at 10 s; the relay's
README describes a token-refresh frame the code does not have; the operator ignores an asset's
`Setup`; the resync reads one page of thirty records; a grader that restarts forgets its grades (documented).

## 7. Not modelled

* *Time.* Durations, back-offs and TTLs only order events. `RequeueAfter` of exactly zero is therefore not
  visible.
* *Content.* Pod specs, policies, manifests, regular expressions, ANSI stripping, labels.
* *PocketBase and Kubernetes* as such: taken as the code uses them. In particular an expired token is answered with
  a 401, as `pbclient.go` expects.
* *Two operators at once* during a rollout (leader election is off by default).
* *relay-authenticator.* It keeps nothing and calls in sequence, and `RelayHandler` accepts any headers it may set and
  checks attempt and owner again; a property of it would restate one of its guards.
* *The user store, the route guard.* One record, one promise, one call at a time.
* *labs-sync and the other scripts.* Run by hand, one HTTP call after another; they rewrite text.
* *`pbclient`'s re-authentication.* One retry inside a call that then succeeds or fails; the token is behind a mutex.
* *UTF-8.* A chunk that cuts a character is altered by its JSON encoding on the way to the grader; marks are not
  characters here.
* *Infrastructure, CI, generated code, labs' content.*

## 8. Plan

Done, in this order: attempt life cycle, relay, grader, operator, terminal session, page; then the feed between
forwarder and grader, the theorems of `AttemptSync_proofs`, `GraderFeed_proofs`, `LabSession_proofs`, the second
halves of `Grader_proofs` and `LabEnvOperator_proofs`; then the three properties that need an order of events: the expiry
across incarnations, the feed's order, the badges' connection; last what had been assumed away: stale get-or-create and a lagging
cache of namespaces, re-lists, floods and several tabs, peers that read no more, rejected subscriptions and second visits.

Next, model: two operators during a rollout, which share nothing but the API server and its versions.
