----------------------------- MODULE GraderFeed -----------------------------
(***************************************************************************)
(* The way of terminal output from relay-exec to relay-grader: Send puts a *)
(* copy of every chunk in a bounded queue or drops it; one goroutine, run, *)
(* dials the grader and writes the queue to the connection; the grader     *)
(* reads every connection it accepted in a goroutine of its own, and all   *)
(* of those, and all frontends, contend for one mutex.                     *)
(***************************************************************************)
EXTENDS Grader

CONSTANTS
  QueueCap,   \* forwarderChanCapacity, 256 in the code
  WireCap,    \* messages the two kernels buffer of a connection
  MaxConns    \* bound: connections the forwarder opens in all

ASSUME GraderFeedAssumption ==
  QueueCap \in Nat /\ WireCap \in Nat \ {0} /\ MaxConns \in Nat

VARIABLES
  queue,     \* f.ch
  fwd,       \* run: dialing (or backing off), draining, ended
  hand,      \* the message drainInto is writing, if any
  conn,      \* the number of its connection
  wire,      \* wire[n]: what connection n carries to the grader
  cut,       \* the connections that are broken
  closing,   \* f.done is closed: relay-exec's main waits in Close
  gapped     \* history: assets of whose output the grader missed a chunk, or took
             \* two in the wrong order

feedVars == <<queue, fwd, hand, conn, wire, cut, closing, gapped>>
allVars  == <<vars, feedVars>>

FeedInit ==
  /\ Init
  /\ queue = <<>> /\ fwd = "dialing" /\ hand = <<>>
  /\ conn = 0 /\ wire = [n \in 1..MaxConns |-> <<>>] /\ cut = {}
  /\ closing = FALSE /\ gapped = {}

\* The assets whose output these messages carry.
Sources(msgs) == {msgs[i].asset : i \in DOMAIN msgs}

-----------------------------------------------------------------------------
(* relay-exec.                                                             *)

\* Send: never blocks.
Send(m) ==
  /\ queue' = IF Len(queue) < QueueCap THEN Append(queue, m) ELSE queue
  /\ gapped' = IF Len(queue) < QueueCap THEN gapped ELSE gapped \cup {m.asset}

\* A terminal prints a chunk, and a copy is sent.
Forward(a, chunk) ==
  /\ fwd # "ended"
  /\ Output(a, chunk)
  /\ Send([asset |-> a, chunk |-> chunk])
  /\ UNCHANGED <<gradeVars, castVars, clientVars, fwd, hand, conn, wire, cut, closing>>

\* Where run goes on when it is done with a connection.
LoopTop == IF closing THEN "ended" ELSE "dialing"

\* The dial, perhaps one that was under way when Close was called, succeeds.
Dial ==
  /\ fwd = "dialing" /\ conn < MaxConns
  /\ fwd' = "draining" /\ conn' = conn + 1
  /\ UNCHANGED <<vars, queue, hand, wire, cut, closing, gapped>>

\* Mutant: the dial is tried again, whether Close was called or not.
DialAgain ==
  /\ fwd = "dialing" /\ closing
  /\ UNCHANGED allVars

\* It fails, or there is none, and Close was called.
GiveUp ==
  /\ fwd = "dialing" /\ closing
  /\ fwd' = "ended"
  /\ UNCHANGED <<vars, queue, hand, conn, wire, cut, closing, gapped>>

\* Mutant: the newest message first.
TakeNewest ==
  /\ fwd = "draining" /\ hand = <<>> /\ queue # <<>>
  /\ hand' = <<Last(queue)>> /\ queue' = Front(queue)
  /\ UNCHANGED <<vars, fwd, conn, wire, cut, closing, gapped>>

\* drainInto's select, when there is a message. Close may have been called.
Take ==
  /\ fwd = "draining" /\ hand = <<>> /\ queue # <<>>
  /\ hand' = <<Head(queue)>> /\ queue' = Tail(queue)
  /\ UNCHANGED <<vars, fwd, conn, wire, cut, closing, gapped>>

\* drainInto's select, when Close was called: what is queued stays unsent.
Leave ==
  /\ fwd = "draining" /\ hand = <<>> /\ closing
  /\ fwd' = "ended"
  /\ UNCHANGED <<vars, queue, hand, conn, wire, cut, closing, gapped>>

\* The write waits for room, without a deadline. On a broken connection the
\* message is lost, and the write fails or appears to succeed.
Write ==
  /\ fwd = "draining" /\ hand # <<>>
  /\ \/ /\ conn \notin cut /\ Len(wire[conn]) < WireCap
        /\ wire' = [wire EXCEPT ![conn] = @ \o hand]
        /\ UNCHANGED <<fwd, gapped>>
     \/ /\ conn \in cut
        /\ fwd' \in {"draining", LoopTop}
        /\ gapped' = gapped \cup Sources(hand)
        /\ UNCHANGED wire
  /\ hand' = <<>>
  /\ UNCHANGED <<vars, queue, conn, cut, closing>>

\* main returns: its deferred call of Close.
Close ==
  /\ ~closing
  /\ closing' = TRUE
  /\ UNCHANGED <<vars, queue, fwd, hand, conn, wire, cut, gapped>>

-----------------------------------------------------------------------------
(* relay-grader.                                                           *)

\* The goroutine of connection n has the next message and gets the mutex.
Receive(n) ==
  /\ wire[n] # <<>>
  /\ LET m == Head(wire[n])
     IN /\ Ingest(m.asset, m.chunk)
        /\ gapped' = IF \E j \in 1..n - 1 : m.asset \in Sources(wire[j])
                     THEN gapped \cup {m.asset} ELSE gapped
  /\ wire' = [wire EXCEPT ![n] = Tail(@)]
  /\ UNCHANGED <<clientVars, printVars, queue, fwd, hand, conn, cut, closing>>

\* A connection breaks: the grader still reads the beginning of what it carried.
Break(n) ==
  /\ n \in 1..conn /\ n \notin cut
  /\ cut' = cut \cup {n}
  /\ \E i \in 0..Len(wire[n]) :
       /\ wire' = [wire EXCEPT ![n] = SubSeq(@, 1, i)]
       /\ gapped' = gapped \cup Sources(SubSeq(wire[n], i + 1, Len(wire[n])))
  /\ UNCHANGED <<vars, queue, fwd, hand, conn, closing>>

\* The grader crashes and is started again. It keeps nothing; a frontend shows
\* what it showed until it has connected again.
GraderRestarts ==
  /\ partial' = [a \in Assets |-> {}] /\ lines' = [a \in Assets |-> <<>>]
  /\ grades' = {} /\ pushedOut' = [a \in Assets |-> {}]
  /\ sending' = FALSE /\ payload' = {} /\ todo' = {}
  /\ clients' = {} /\ pc' = [c \in Clients |-> "closed"]
  /\ snap' = [c \in Clients |-> {}] /\ link' = [c \in Clients |-> "gone"]
  /\ told' = [c \in Clients |-> {}]
  /\ wire' = [n \in 1..MaxConns |-> <<>>] /\ cut' = 1..conn
  /\ gapped' = Assets
  /\ UNCHANGED <<screen, printVars, queue, fwd, hand, conn, closing>>

-----------------------------------------------------------------------------
\* A step of the grader that the feed has no part in.
Alone(A) == A /\ UNCHANGED feedVars

Forwarder == Dial \/ GiveUp \/ Take \/ Leave \/ Write

FeedNext ==
  \/ \E a \in Assets, chunk \in Chunks : Forward(a, chunk)
  \/ Forwarder \/ Close
  \/ \E n \in 1..MaxConns : Receive(n) \/ Break(n)
  \/ GraderRestarts
  \/ \E c \in Clients : Alone(WriteGrades(c) \/ Connect(c) \/ Serve(c) \/ LinkChanges(c))
  \/ Alone(Written)

FeedSpec == FeedInit /\ [][FeedNext]_allVars

\* A dial ends within five seconds, a goroutine that can go on does, Go's mutex
\* starves nobody, and its select takes each ready case sooner or later.
FeedFairness ==
  /\ WF_allVars(GiveUp) /\ WF_allVars(Write) /\ SF_allVars(Leave)
  /\ \A n \in 1..MaxConns : SF_allVars(Receive(n))
  /\ \A c \in Clients : SF_allVars(Alone(WriteGrades(c))) /\ WF_allVars(Alone(Serve(c)))
  /\ WF_allVars(Alone(Written))

FairFeedSpec == FeedSpec /\ FeedFairness

-----------------------------------------------------------------------------
\* Safety. A pass that no output earned is one the feed is to blame for: it dropped
\* a chunk of an asset the task looks at, lost it, or delivered it after a later one
\* (forwarder.go:57-66, 108-131; listener.go:39). The order in which queue,
\* connections and goroutines hand chunks over is otherwise kept.
EarnedUnlessGap ==
  \A t \in grades : \E a \in Assets :
    /\ Scope[t] \in {a, LabWide}
    /\ Matches(t, printed[a]) \/ a \in gapped

\* Nothing but a frontend that stops reading for good keeps Close, and with it
\* relay-exec's main, from returning (forwarder.go:72-75, backend.go:132-136).
OnlyStallHoldsExit ==
  (\A c \in Clients : []<>(c \notin todo \/ link[c] # "stalled"))
    => (closing ~> fwd = "ended")

\* "Close() waits for it to return (up to its own timeout) rather than aborting
\* it, but run() will not perform any further work afterward",
\* forwarder.go:68-71: only a dial under way delays Close, and not for long.
CloseReturns == closing ~> fwd = "ended"
=============================================================================
