---------------------------- MODULE RelayHandler ---------------------------
(***************************************************************************)
(* The WebSocket handler both relays share (pkg/relaybase, Handler), one   *)
(* goroutine per connection, with the shutdown sequence of their main      *)
(* functions.  What a backend's Serve does is left open here: it returns   *)
(* when it will.                                                           *)
(***************************************************************************)
EXTENDS ConnLimiter

CONSTANTS
  SkipAuth,    \* RELAY_SKIP_AUTH: the identity headers are not checked
  Owner,       \* OwnerID of this relay instance
  Anonymous,   \* the user id a connection without one gets under SkipAuth
  None         \* an empty X-User-Id header

ASSUME HandlerAssumption ==
  /\ SkipAuth \in BOOLEAN /\ None \notin Users
  /\ Anonymous \in Users /\ Owner \in Users \cup {None}

VARIABLES
  main,    \* the main goroutine: listening, closing (in Shutdown), waiting, exited
  late,    \* shutdownCtx, of 30 seconds, is over
  wg,      \* the WaitGroup's counter
  done,    \* the goroutine that waits for the WaitGroup has closed `done`
  last     \* what main logged on its way out: drained, timeout

mainVars == <<main, late, wg, done, last>>
vars == <<limiterVars, mainVars>>

Labels == {"idle", "requested", "auth", "asking", "loaded", "refused",
           "held", "serving", "served"}

TypeOK ==
  /\ pc \in [Conns -> Labels]
  /\ user \in [Conns -> Users]
  /\ counts \in [Users -> Nat]
  /\ cur \in [Conns -> Nat]
  /\ main \in {"listening", "closing", "waiting", "exited"}
  /\ late \in BOOLEAN /\ done \in BOOLEAN
  /\ wg \in Nat
  /\ last \in {"none", "drained", "timeout"}

Init ==
  /\ LimiterInit
  /\ pc = [c \in Conns |-> "idle"]
  /\ main = "listening" /\ late = FALSE /\ done = FALSE
  /\ wg = 0 /\ last = "none"

-----------------------------------------------------------------------------
\* A client's upgrade request reaches the HTTP server.
Request(c) ==
  /\ main = "listening" /\ pc[c] = "idle"
  /\ Goto(c, "requested")
  /\ UNCHANGED <<user, counts, cur, mainVars>>

\* websocket.Accept takes the connection over, or fails.
Upgrade(c) ==
  /\ pc[c] = "requested"
  /\ \E label \in {"auth", "idle"} : Goto(c, label)
  /\ UNCHANGED <<user, counts, cur, mainVars>>

\* Mutant: the first message is waited for without a time limit.
WaitOn(c) == pc[c] = "auth" /\ UNCHANGED vars

\* The first message never comes: AuthTimeout, or the client is gone.
NoFirstMessage(c) ==
  /\ pc[c] = "auth"
  /\ Goto(c, "idle")
  /\ UNCHANGED <<user, counts, cur, mainVars>>

\* The first message arrives and is discarded; the request's headers name a
\* user (or None) and an attempt, this relay's or not, and decide.
Identify(c, header, attemptMatches) ==
  /\ pc[c] = "auth"
  /\ IF SkipAuth
       THEN /\ user' = [user EXCEPT ![c] = IF header = None THEN Anonymous ELSE header]
            /\ Goto(c, "asking")
       ELSE IF attemptMatches /\ header = Owner /\ header # None
         THEN user' = [user EXCEPT ![c] = header] /\ Goto(c, "asking")
         ELSE Goto(c, "idle") /\ UNCHANGED user
  /\ UNCHANGED <<counts, cur, mainVars>>

FirstMessage(c) ==
  \E header \in Users \cup {None}, attemptMatches \in BOOLEAN :
    Identify(c, header, attemptMatches)

Acquire(c) == (Load(c) \/ Swap(c)) /\ UNCHANGED mainVars

\* Mutant: Release is deferred before Acquire's error is looked at.
TooManyReleased(c) ==
  /\ pc[c] = "refused"
  /\ counts' = [counts EXCEPT ![user[c]] = @ - 1]
  /\ Goto(c, "idle")
  /\ UNCHANGED <<user, cur, mainVars>>

\* The refused connection is closed.
TooMany(c) ==
  /\ pc[c] = "refused"
  /\ Goto(c, "idle")
  /\ UNCHANGED <<user, counts, cur, mainVars>>

\* Mutant: the session is not added to the WaitGroup.
JoinUncounted(c) ==
  /\ pc[c] = "held"
  /\ Goto(c, "serving")
  /\ UNCHANGED <<user, counts, cur, mainVars>>

\* WG.Add, after which the backend serves.
Join(c) ==
  /\ pc[c] = "held"
  /\ wg' = wg + 1
  /\ Goto(c, "serving")
  /\ UNCHANGED <<user, counts, cur, main, late, done, last>>

\* The backend returns; the deferred WG.Done runs before the deferred Release.
ServeReturns(c) ==
  /\ pc[c] = "serving"
  /\ wg' = wg - 1
  /\ Goto(c, "served")
  /\ UNCHANGED <<user, counts, cur, main, late, done, last>>

Depart(c) == Release(c) /\ UNCHANGED mainVars

-----------------------------------------------------------------------------
\* SIGTERM: main calls Shutdown, which closes the listener.
Signal ==
  /\ main = "listening"
  /\ main' = "closing"
  /\ UNCHANGED <<limiterVars, late, wg, done, last>>

\* Mutant: the shutdown has no time limit.
ExpireNever ==
  /\ main \in {"closing", "waiting"} /\ ~late
  /\ UNCHANGED vars

Expire ==
  /\ main \in {"closing", "waiting"} /\ ~late
  /\ late' = TRUE
  /\ UNCHANGED <<limiterVars, main, wg, done, last>>

\* Shutdown waits for requests in progress, among which connections that a
\* handler took over do not count, until its context is over.
ShutdownReturns ==
  /\ main = "closing"
  /\ late \/ \A c \in Conns : pc[c] # "requested"
  /\ main' = "waiting"
  /\ UNCHANGED <<limiterVars, late, wg, done, last>>

\* The goroutine that main starts after Shutdown sees the WaitGroup at zero.
WaitReturns ==
  /\ main = "waiting" /\ wg = 0 /\ ~done
  /\ done' = TRUE
  /\ UNCHANGED <<limiterVars, main, late, wg, last>>

\* main's select takes either of what is ready, and main returns.
Exit ==
  /\ main = "waiting"
  /\ \/ done /\ last' = "drained"
     \/ late /\ last' = "timeout"
  /\ main' = "exited"
  /\ UNCHANGED <<limiterVars, late, wg, done>>

\* The process is over: nothing runs.
Over == main = "exited" /\ UNCHANGED vars

-----------------------------------------------------------------------------
\* The steps of a handler that its client cannot hold up.
Handle(c) ==
  Upgrade(c) \/ NoFirstMessage(c) \/ Acquire(c) \/ TooMany(c) \/ Join(c) \/ Depart(c)

Main == Signal \/ Expire \/ ShutdownReturns \/ WaitReturns \/ Exit

Next ==
  \/ /\ main # "exited"
     /\ \/ \E c \in Conns : Request(c) \/ FirstMessage(c) \/ Handle(c) \/ ServeReturns(c)
        \/ Main
  \/ Over

Spec == Init /\ [][Next]_vars

\* Goroutines are scheduled and timers fire.  No client need send, and no
\* session need end.
Fairness ==
  /\ \A c \in Conns : WF_vars(main # "exited" /\ Handle(c))
  /\ WF_vars(Expire) /\ WF_vars(ShutdownReturns) /\ WF_vars(WaitReturns) /\ WF_vars(Exit)

FairSpec == Spec /\ Fairness

-----------------------------------------------------------------------------
\* The counter of a user is the number of handlers that acquired and have not
\* released, whatever the order of loads, swaps and releases (limiter.go:24-53).
CountsExact == \A u \in Users : counts[u] = Cardinality(Holding(u))

\* Handler plus limiter give out slots as SlotPool does: in particular a
\* connection is refused only at a moment when its user's slots are all taken,
\* and a failed compare-and-swap alone never refuses one.
Place ==
  [c \in Conns |->
    CASE pc[c] \in {"asking", "loaded"} -> "asking"
      [] pc[c] \in {"held", "serving", "served"} -> "in"
      [] pc[c] = "refused" -> "refused"
      [] OTHER -> "out"]

Pool == INSTANCE SlotPool WITH Max <- MaxConns, place <- Place, owner <- user

ImplementsSlotPool == Pool!PoolSpec

\* When the wait for the sessions ends, none that joined the WaitGroup is still
\* being served (main.go of relay-exec, 160-171).
DrainedSessionsDone ==
  [][done' # done => \A c \in Conns : pc[c] # "serving"]_vars

\* A relay told to stop stops, though sessions may go on for ever
\* (main.go of relay-exec, 155-171).
ShutdownEnds == (main = "closing") ~> (main = "exited")

\* A connection that never speaks does not keep its handler: AuthTimeout.
AuthEnds ==
  \A c \in Conns : (pc[c] = "auth") ~> (pc[c] # "auth" \/ main = "exited")

\* "all sessions drained", says main.go:167 of relay-exec when it returns: no
\* connection that holds a slot is left without the rest of its session.
DrainedMeansNoSession ==
  last = "drained" => \A c \in Conns : pc[c] \notin {"held", "serving"}
=============================================================================
