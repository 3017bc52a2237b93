-------------------------- MODULE GraderFeed_proofs --------------------------
(***************************************************************************)
(* Grades reach every frontend also when the output comes through the      *)
(* forwarder: for any number of assets, frontends and connections, any     *)
(* capacity of the queue, connections that break with part of what they    *)
(* carry, and a grader that crashes and forgets at any moment. And the feed*)
(* keeps the order of an asset's output unless it loses some of it, so that*)
(* a grade nobody earned is one the feed is to blame for.                  *)
(***************************************************************************)
EXTENDS GraderFeed, Grader_proofs

\* A chunk on its way, with the asset it comes from.
Message == [asset : Assets, chunk : Chunks]

\* What is on its way to the grader comes from a terminal of an asset.
OnTheWay ==
  /\ queue \in Seq(Message) /\ hand \in Seq(Message)
  /\ wire \in [1 .. MaxConns -> Seq(Message)]

\* The invariant: the grader's own, and what the goroutines read.
FeedInv == TypeOK /\ CastInv /\ OnTheWay

\* At first nothing is on its way.
LEMMA InitFeed == FeedInit => FeedInv
<1> SUFFICES ASSUME FeedInit PROVE FeedInv
  OBVIOUS
<1>1. OnTheWay
  BY DEF FeedInit, OnTheWay
<1> QED  BY <1>1, InitType, InitCast DEF FeedInit, FeedInv

\* The steps of relay-exec and of the network leave the grader alone: what they
\* move was printed by a terminal.
LEMMA ForwarderStep ==
  ASSUME OnTheWay, Forwarder \/ Close \/ \E n \in 1 .. MaxConns : Break(n)
  PROVE  OnTheWay' /\ UNCHANGED vars
<1> USE DEF OnTheWay
<1>1. CASE Dial \/ GiveUp \/ Leave \/ Close
  BY <1>1 DEF Dial, GiveUp, Leave, Close
<1>2. CASE Take
  <2>1. Head(queue) \in Message /\ Tail(queue) \in Seq(Message)
    BY <1>2 DEF Take
  <2>2. <<Head(queue)>> \in Seq(Message)
    BY <2>1
  <2> QED  BY <1>2, <2>1, <2>2 DEF Take
<1>3. CASE Write
  <2>1. UNCHANGED <<vars, queue>> /\ hand' = <<>>
        /\ (wire' = [wire EXCEPT ![conn] = @ \o hand] \/ UNCHANGED wire)
    BY <1>3 DEF Write
  <2>2. \A n \in 1 .. MaxConns : wire[n] \o hand \in Seq(Message)
    OBVIOUS
  <2>3. wire' \in [1 .. MaxConns -> Seq(Message)]
    BY <2>1, <2>2
  <2>4. hand' \in Seq(Message)
    BY <2>1
  <2> QED  BY <2>1, <2>3, <2>4
<1>4. ASSUME NEW n \in 1 .. MaxConns, Break(n) PROVE OnTheWay' /\ UNCHANGED vars
  <2>1. PICK i \in 0 .. Len(wire[n]) : wire' = [wire EXCEPT ![n] = SubSeq(@, 1, i)]
    BY <1>4 DEF Break
  <2>2. SubSeq(wire[n], 1, i) \in Seq(Message)
    OBVIOUS
  <2> QED  BY <1>4, <2>1, <2>2 DEF Break
<1> QED  BY <1>1, <1>2, <1>3, <1>4 DEF Forwarder

\* Every step of the composition keeps the invariant.
LEMMA FeedStep == FeedInv /\ [FeedNext]_allVars => FeedInv'
<1> SUFFICES ASSUME FeedInv, [FeedNext]_allVars PROVE FeedInv'
  OBVIOUS
<1> USE DEF FeedInv
<1>1. ASSUME UNCHANGED vars PROVE TypeOK' /\ CastInv'
  BY <1>1, TypeStep, CastStep
<1>2. ASSUME NEW a \in Assets, NEW chunk \in Chunks, Forward(a, chunk) PROVE FeedInv'
  <2>1. Output(a, chunk) /\ UNCHANGED <<gradeVars, castVars, clientVars, hand, wire>>
    BY <1>2 DEF Forward
  <2>2. TypeOK'
    BY <2>1, OutputType DEF TypeOK, gradeVars, castVars, clientVars
  <2>3. CastInv'
    BY <2>1 DEF CastInv, NoGhostClient, Owed, gradeVars, castVars, clientVars
  <2>4. OnTheWay'
    <3>1. [asset |-> a, chunk |-> chunk] \in Message
      BY DEF Message
    <3>2. queue' = Append(queue, [asset |-> a, chunk |-> chunk]) \/ queue' = queue
      BY <1>2 DEF Forward, Send
    <3> QED  BY <2>1, <3>1, <3>2 DEF OnTheWay
  <2> QED  BY <2>2, <2>3, <2>4
<1>3. CASE Forwarder \/ Close \/ \E n \in 1 .. MaxConns : Break(n)
  BY <1>1, <1>3, ForwarderStep
<1>4. ASSUME NEW n \in 1 .. MaxConns, Receive(n) PROVE FeedInv'
  <2> DEFINE m == Head(wire[n])
  <2>1. m \in Message /\ Tail(wire[n]) \in Seq(Message)
    BY <1>4 DEF Receive, OnTheWay
  <2>2. /\ Ingest(m.asset, m.chunk)
        /\ wire' = [wire EXCEPT ![n] = Tail(@)]
        /\ UNCHANGED <<clientVars, printVars, queue, hand>>
    BY <1>4 DEF Receive
  <2>3. m.asset \in Assets /\ m.chunk \in Chunks
    BY <2>1 DEF Message
  <2>4. printed' \in [Assets -> Seq(Line)] /\ tail' \in [Assets -> Line]
    BY <2>2 DEF TypeOK, printVars
  <2> HIDE DEF m
  <2>5. TypeOK'
    BY <2>2, <2>3, <2>4, IngestType
  <2>6. CastInv'
    BY <2>2, IngestCast
  <2>7. OnTheWay'
    BY <2>1, <2>2 DEF OnTheWay
  <2> QED  BY <2>5, <2>6, <2>7
<1>5. CASE GraderRestarts
  <2>1. /\ lines' = [a \in Assets |-> <<>>] /\ partial' = [a \in Assets |-> {}]
        /\ UNCHANGED <<screen, printed, tail>>
    BY <1>5 DEF GraderRestarts, printVars
  <2>2. <<>> \in Seq(Line) /\ Len(<<>>) <= Ring /\ {} \in Line
    BY GraderAssumption DEF Line
  <2>3. /\ partial' \in [Assets -> Line] /\ lines' \in [Assets -> Seq(Line)]
        /\ \A a \in Assets : Len(lines'[a]) <= Ring
        /\ pushedOut' \in [Assets -> SUBSET Tasks]
    BY <1>5, <2>1, <2>2 DEF GraderRestarts
  <2>4. TypeOK'
    BY <1>5, <2>1, <2>3 DEF TypeOK, GraderRestarts
  <2>5. CastInv'
    BY <1>5 DEF CastInv, NoGhostClient, GraderRestarts
  <2>6. OnTheWay'
    BY <1>5 DEF OnTheWay, GraderRestarts
  <2> QED  BY <2>4, <2>5, <2>6
<1>6. ASSUME NEW c \in Clients, Alone(WriteGrades(c) \/ Connect(c) \/ Serve(c) \/ LinkChanges(c))
      PROVE  FeedInv'
  <2>1. Next /\ UNCHANGED feedVars
    BY <1>6 DEF Alone, Next
  <2> QED  BY <2>1, TypeStep, CastStep DEF OnTheWay, feedVars
<1>7. CASE Alone(Written)
  <2>1. Next /\ UNCHANGED feedVars
    BY <1>7 DEF Alone, Next
  <2> QED  BY <2>1, TypeStep, CastStep DEF OnTheWay, feedVars
<1>8. CASE UNCHANGED allVars
  BY <1>1, <1>8 DEF allVars, feedVars, OnTheWay
<1> QED
  BY <1>2, <1>3, <1>4, <1>5, <1>6, <1>7, <1>8 DEF FeedNext

\* So it holds in every reachable state.
LEMMA FeedInvHolds == FeedSpec => []FeedInv
BY InitFeed, FeedStep, PTL DEF FeedSpec

\* Every grade reaches every greeted frontend, whatever connections break and
\* whenever the grader is restarted (backend.go:126-170, forwarder.go:80-131).
THEOREM FeedWithholdsNothing == FeedSpec => []NothingWithheld
<1>1. FeedInv => NothingWithheld
  BY DEF FeedInv, CastInv, NothingWithheld, Owed
<1> QED  BY <1>1, FeedInvHolds, PTL

\* No dead connection stays registered either (backend.go:164-176).
THEOREM FeedLeavesNoGhost == FeedSpec => []NoGhostClient
<1>1. FeedInv => NoGhostClient
  BY DEF FeedInv, CastInv
<1> QED  BY <1>1, FeedInvHolds, PTL
-----------------------------------------------------------------------------
(* Order. An asset the grader missed nothing of, and took nothing of in    *)
(* the wrong order, has its chunks in order on their way: in the order of  *)
(* the connections, then in run's hand, then in the queue.                 *)

Places == 1 .. MaxConns + 2

Way(n) == IF n \in 1 .. MaxConns THEN wire[n] ELSE IF n = MaxConns + 1 THEN hand ELSE queue

\* Where messages of asset a are: at which place, and the how manieth there.
Slots(a) == {s \in Places \X Nat : s[2] \in DOMAIN Way(s[1]) /\ Way(s[1])[s[2]].asset = a}

ChunkAt(s) == Way(s[1])[s[2]].chunk

Ahead(s, t) == s[1] < t[1] \/ (s[1] = t[1] /\ s[2] < t[2])

\* nr counts them, the next to arrive being `first`.
Counted(a, nr, first, next) ==
  /\ \A s \in Slots(a) : nr[s] \in first .. next - 1
  /\ \A s, t \in Slots(a) : Ahead(s, t) => nr[s] < nr[t]
  /\ \A i \in first .. next - 1 : \E s \in Slots(a) : nr[s] = i

\* What an asset has shown at some time, and the line it was in the middle of.
View == [shown : Seq(Line), rest : Line]

\* A chunk leads from one to another.
Joined(view, chunk, next) ==
  /\ next.shown = view.shown \o Front(Segments(view.rest, chunk))
  /\ next.rest = Last(Segments(view.rest, chunk))

Chained(a, nr, view) ==
  \A s \in Slots(a) : Joined(view[nr[s]], ChunkAt(s), view[nr[s] + 1])

\* The grader's buffer is where the first chunk goes on, the output where the
\* last one ends, and all of it is part of what was printed there.
Spanned(a, view, first, next) ==
  /\ EndOf(lines[a], view[first].shown) /\ partial[a] = view[first].rest
  /\ view[next].shown = printed[a] /\ view[next].rest = tail[a]
  /\ \A i \in first .. next : \E more \in Seq(Line) : printed[a] = view[i].shown \o more

Ordered(a) ==
  \E nr \in [Slots(a) -> Nat], view \in [Nat -> View], first, next \in Nat :
    /\ first <= next /\ Counted(a, nr, first, next)
    /\ Chained(a, nr, view) /\ Spanned(a, view, first, next)

\* Connections not yet dialed carry nothing.
Dialed ==
  /\ conn \in 0 .. MaxConns /\ (fwd = "draining" => conn > 0)
  /\ \A n \in 1 .. MaxConns : n > conn => wire[n] = <<>>

OrderInv == Dialed /\ \A a \in Assets : a \in gapped \/ Ordered(a)

-----------------------------------------------------------------------------
\* What is on its way are messages.
LEMMA WayType == OnTheWay => \A n \in Places : Way(n) \in Seq(Message)
BY GraderFeedAssumption DEF OnTheWay, Places, Way

\* A slot is a place and a position.
LEMMA SlotIs ==
  ASSUME NEW a
  PROVE  \A s \in Slots(a) : /\ s = <<s[1], s[2]>> /\ s[1] \in Places /\ s[2] \in Nat
                             /\ s[2] \in DOMAIN Way(s[1]) /\ Way(s[1])[s[2]].asset = a
BY DEF Slots

\* And each place and position with a message of a is one.
LEMMA SlotOf ==
  ASSUME NEW a, NEW n \in Places, NEW i \in Nat, i \in DOMAIN Way(n), Way(n)[i].asset = a
  PROVE  <<n, i>> \in Slots(a)
BY DEF Slots

\* The chunks of a that were in slots `old` are in other ones now, p telling in
\* which each one was.
Moved(a, p, old) ==
  /\ p \in [Slots(a)' -> old]
  /\ \A s \in Slots(a)' : ChunkAt(s)' = ChunkAt(p[s])
  /\ \A s, t \in Slots(a)' : Ahead(s, t) => Ahead(p[s], p[t])
  /\ \A s \in old : \E t \in Slots(a)' : p[t] = s

\* What the grader has of a, and what was printed, stays.
EndsStay(a) ==
  /\ lines'[a] = lines[a] /\ partial'[a] = partial[a]
  /\ printed'[a] = printed[a] /\ tail'[a] = tail[a]

\* Chunks that move and keep their order are still in order.
LEMMA MovedOrder ==
  ASSUME NEW a \in Assets, Ordered(a), NEW p, Moved(a, p, Slots(a)), EndsStay(a)
  PROVE  Ordered(a)'
<1>1. PICK nr \in [Slots(a) -> Nat], view \in [Nat -> View], first \in Nat, next \in Nat :
        /\ first <= next /\ Counted(a, nr, first, next) /\ Chained(a, nr, view)
        /\ Spanned(a, view, first, next)
  BY DEF Ordered
<1>2. PICK new : new = [s \in Slots(a)' |-> nr[p[s]]]
  OBVIOUS
<1>3. new \in [Slots(a)' -> Nat] /\ \A s \in Slots(a)' : new[s] = nr[p[s]]
  BY <1>1, <1>2 DEF Moved
<1>4. Counted(a, new, first, next)'
  BY <1>1, <1>3 DEF Counted, Moved
<1>5. Chained(a, new, view)'
  BY <1>1, <1>3 DEF Chained, Moved
<1>6. Spanned(a, view, first, next)'
  BY <1>1 DEF Spanned, EndsStay
<1> QED  BY <1>1, <1>3, <1>4, <1>5, <1>6 DEF Ordered

\* So are chunks that stay, whatever becomes of others.
LEMMA StillOrder ==
  ASSUME NEW a \in Assets, Ordered(a), Slots(a)' = Slots(a),
         \A s \in Slots(a) : ChunkAt(s)' = ChunkAt(s), EndsStay(a)
  PROVE  Ordered(a)'
<1>1. PICK p : p = [s \in Slots(a) |-> s]
  OBVIOUS
<1>2. p \in [Slots(a) -> Slots(a)] /\ \A s \in Slots(a) : p[s] = s
  BY <1>1
<1>3. Moved(a, p, Slots(a))
  BY <1>2 DEF Moved
<1> QED  BY <1>3, MovedOrder

\* When the head of one place is taken off, what is behind it moves up.
LEMMA HeadTaken ==
  ASSUME OnTheWay, NEW a \in Assets, NEW n \in Places, Way(n) # <<>>,
         Way(n)' = Tail(Way(n)), \A m \in Places \ {n} : Way(m)' = Way(m)
  PROVE  \E p : Moved(a, p, Slots(a) \ {<<n, 1>>})
<1> DEFINE f(s) == IF s[1] = n THEN <<n, s[2] + 1>> ELSE s
           old  == Slots(a) \ {<<n, 1>>}
<1>0. n \in Nat /\ Places \subseteq Nat
  BY GraderFeedAssumption DEF Places
<1>1. /\ Way(n) \in Seq(Message) /\ DOMAIN Way(n) = 1 .. Len(Way(n)) /\ Len(Way(n)) \in Nat
      /\ DOMAIN Way(n)' = 1 .. Len(Way(n)) - 1
      /\ \A i \in 1 .. Len(Way(n)) - 1 : Way(n)'[i] = Way(n)[i + 1]
  <2>1. Way(n) \in Seq(Message)
    BY WayType
  <2> QED  BY <2>1
<1>2. ASSUME NEW s \in Slots(a)' PROVE f(s) \in old /\ ChunkAt(s)' = ChunkAt(f(s))
  <2>1. /\ s = <<s[1], s[2]>> /\ s[1] \in Places /\ s[2] \in Nat
        /\ s[2] \in DOMAIN Way(s[1])' /\ Way(s[1])'[s[2]].asset = a
    BY <1>2 DEF Slots
  <2>2. CASE s[1] = n
    <3>1. /\ s[2] + 1 \in DOMAIN Way(n) /\ s[2] + 1 \in Nat /\ s[2] + 1 # 1
          /\ Way(n)'[s[2]] = Way(n)[s[2] + 1]
      BY <1>1, <2>1, <2>2
    <3>2. <<n, s[2] + 1>> \in Slots(a)
      BY <2>1, <2>2, <3>1, SlotOf
    <3>3. <<n, s[2] + 1>> # <<n, 1>>
      BY <3>1
    <3> QED  BY <2>2, <3>1, <3>2, <3>3 DEF ChunkAt
  <2>3. CASE s[1] # n
    <3>1. Way(s[1])' = Way(s[1])
      BY <2>1, <2>3
    <3>2. s \in Slots(a) /\ s # <<n, 1>>
      BY <2>1, <2>3, <3>1, SlotOf
    <3> QED  BY <2>3, <3>1, <3>2 DEF ChunkAt
  <2> QED  BY <2>2, <2>3
<1>3. ASSUME NEW s \in Slots(a)', NEW t \in Slots(a)', Ahead(s, t) PROVE Ahead(f(s), f(t))
  <2>1. s[1] \in Nat /\ s[2] \in Nat /\ t[1] \in Nat /\ t[2] \in Nat
    BY <1>0 DEF Slots
  <2> QED  BY <1>3, <2>1, <1>0 DEF Ahead
<1>4. ASSUME NEW s \in old PROVE \E t \in Slots(a)' : f(t) = s
  <2>1. /\ s = <<s[1], s[2]>> /\ s[1] \in Places /\ s[2] \in Nat
        /\ s[2] \in DOMAIN Way(s[1]) /\ Way(s[1])[s[2]].asset = a
    BY SlotIs
  <2>2. CASE s[1] = n
    <3>1. s[2] - 1 \in DOMAIN Way(n)' /\ s[2] - 1 \in Nat /\ Way(n)'[s[2] - 1] = Way(n)[s[2]]
      <4>1. s[2] # 1
        BY <2>1, <2>2
      <4> QED  BY <1>1, <2>1, <2>2, <4>1
    <3>2. <<n, s[2] - 1>> \in Slots(a)'
      BY <2>1, <2>2, <3>1 DEF Slots
    <3>3. f(<<n, s[2] - 1>>) = s
      BY <2>1, <2>2, <3>1
    <3> QED  BY <3>2, <3>3
  <2>3. CASE s[1] # n
    <3>1. s \in Slots(a)'
      BY <2>1, <2>3 DEF Slots
    <3> QED  BY <2>3, <3>1
  <2> QED  BY <2>2, <2>3
<1>5. PICK p : p = [s \in Slots(a)' |-> f(s)]
  OBVIOUS
<1> HIDE DEF f, old
<1>6. Moved(a, p, old)
  BY <1>2, <1>3, <1>4, <1>5 DEF Moved
<1> QED  BY <1>6 DEF old

\* A message run takes from the queue is ahead of the others.
LEMMA TakeMoves ==
  ASSUME OnTheWay, NEW a \in Assets, Take
  PROVE  \E p : Moved(a, p, Slots(a))
<1> DEFINE H == MaxConns + 1
           Q == MaxConns + 2
           f(s) == IF s[1] = H THEN <<Q, 1>> ELSE IF s[1] = Q THEN <<Q, s[2] + 1>> ELSE s
<1>0. /\ H \in Places /\ Q \in Places /\ H \in Nat /\ Q \in Nat /\ H < Q /\ Places \subseteq Nat
      /\ \A n \in Places : n \in 1 .. MaxConns \cup {H, Q}
      /\ \A n \in 1 .. MaxConns : n < H /\ n < Q
      /\ \A n \in Places : n <= Q
  BY GraderFeedAssumption DEF Places
<1>1. /\ Way(H) = <<>> /\ Way(Q) = queue /\ Way(H)' = <<Head(queue)>> /\ Way(Q)' = Tail(queue)
      /\ \A n \in 1 .. MaxConns : Way(n)' = Way(n)
  BY <1>0 DEF Take, Way
<1>2. /\ queue \in Seq(Message) /\ queue # <<>> /\ Len(queue) \in Nat \ {0}
      /\ DOMAIN queue = 1 .. Len(queue) /\ Head(queue) = queue[1]
      /\ DOMAIN Tail(queue) = 1 .. Len(queue) - 1
      /\ \A i \in 1 .. Len(queue) - 1 : Tail(queue)[i] = queue[i + 1]
  BY DEF Take, OnTheWay
<1>3. DOMAIN Way(H) = {} /\ DOMAIN Way(H)' = {1} /\ Way(H)'[1] = queue[1]
  BY <1>1, <1>2
<1> HIDE DEF H, Q
<1>4. ASSUME NEW s \in Slots(a)' PROVE f(s) \in Slots(a) /\ ChunkAt(s)' = ChunkAt(f(s))
  <2>1. /\ s = <<s[1], s[2]>> /\ s[1] \in Places /\ s[2] \in Nat
        /\ s[2] \in DOMAIN Way(s[1])' /\ Way(s[1])'[s[2]].asset = a
    BY <1>4 DEF Slots
  <2>2. CASE s[1] = H
    <3>1. s[2] = 1 /\ 1 \in DOMAIN Way(Q) /\ Way(H)'[1] = Way(Q)[1]
      BY <1>1, <1>2, <1>3, <2>1, <2>2
    <3>2. <<Q, 1>> \in Slots(a)
      BY <1>0, <2>1, <2>2, <3>1, SlotOf
    <3> QED  BY <2>2, <3>1, <3>2 DEF ChunkAt
  <2>3. CASE s[1] = Q
    <3>1. /\ s[2] + 1 \in DOMAIN Way(Q) /\ s[2] + 1 \in Nat
          /\ Way(Q)'[s[2]] = Way(Q)[s[2] + 1]
      BY <1>1, <1>2, <2>1, <2>3
    <3>2. <<Q, s[2] + 1>> \in Slots(a)
      BY <1>0, <2>1, <2>3, <3>1, SlotOf
    <3> QED  BY <1>0, <2>3, <3>1, <3>2 DEF ChunkAt
  <2>4. CASE s[1] \in 1 .. MaxConns
    <3>1. s \in Slots(a) /\ f(s) = s
      BY <1>0, <1>1, <2>1, <2>4, SlotOf
    <3> QED  BY <1>1, <2>4, <3>1 DEF ChunkAt
  <2> QED  BY <1>0, <2>1, <2>2, <2>3, <2>4
<1>5. ASSUME NEW s \in Slots(a)', NEW t \in Slots(a)', Ahead(s, t) PROVE Ahead(f(s), f(t))
  <2>1. /\ s[1] \in Places /\ s[2] \in Nat /\ t[1] \in Places /\ t[2] \in Nat
        /\ s[2] \in DOMAIN Way(s[1])' /\ t[2] \in DOMAIN Way(t[1])'
    BY DEF Slots
  <2>2. t[1] = Q => t[2] >= 1
    BY <1>1, <1>2, <2>1
  <2>3. s[1] = H => s[2] = 1
    BY <1>3, <2>1
  <2>4. t[1] = H => t[2] = 1
    BY <1>3, <2>1
  <2>5. \A u \in {s, t} : /\ f(u)[1] = IF u[1] = H THEN Q ELSE u[1]
                          /\ f(u)[2] = IF u[1] = H THEN 1 ELSE IF u[1] = Q THEN u[2] + 1 ELSE u[2]
    BY <1>0
  <2> HIDE DEF f
  <2>6. CASE s[1] = t[1] /\ s[2] < t[2]
    BY <1>0, <2>1, <2>3, <2>4, <2>5, <2>6 DEF Ahead
  <2>7. CASE s[1] < t[1]
    <3>1. s[1] \in Nat /\ t[1] \in Nat /\ t[1] <= Q
      BY <1>0, <2>1
    <3>2. s[1] # Q
      BY <1>0, <2>1, <2>7, <3>1
    <3>3. s[1] = H => t[1] = Q
      BY <1>0, <2>1, <2>7, <3>1
    <3>4. s[1] \in 1 .. MaxConns \/ (s[1] = H /\ t[1] = Q)
      BY <1>0, <2>1, <3>2, <3>3
    <3> QED  BY <1>0, <2>1, <2>2, <2>5, <2>7, <3>4 DEF Ahead
  <2> QED  BY <1>5, <2>6, <2>7 DEF Ahead
<1>6. ASSUME NEW s \in Slots(a) PROVE \E t \in Slots(a)' : f(t) = s
  <2>1. /\ s = <<s[1], s[2]>> /\ s[1] \in Places /\ s[2] \in Nat
        /\ s[2] \in DOMAIN Way(s[1]) /\ Way(s[1])[s[2]].asset = a
    BY SlotIs
  <2>2. CASE s[1] = Q /\ s[2] = 1
    <3>1. <<H, 1>> \in Slots(a)'
      BY <1>0, <1>1, <1>3, <2>1, <2>2 DEF Slots
    <3>2. f(<<H, 1>>) = s
      BY <2>1, <2>2
    <3> QED  BY <3>1, <3>2
  <2>3. CASE s[1] = Q /\ s[2] # 1
    <3>1. s[2] - 1 \in DOMAIN Way(Q)' /\ s[2] - 1 \in Nat /\ Way(Q)'[s[2] - 1] = Way(Q)[s[2]]
      BY <1>1, <1>2, <2>1, <2>3
    <3>2. <<Q, s[2] - 1>> \in Slots(a)'
      BY <1>0, <2>1, <2>3, <3>1 DEF Slots
    <3>3. f(<<Q, s[2] - 1>>) = s
      BY <1>0, <2>1, <2>3, <3>1
    <3> QED  BY <3>2, <3>3
  <2>4. CASE s[1] \in 1 .. MaxConns
    <3>1. s \in Slots(a)' /\ f(s) = s
      BY <1>0, <1>1, <2>1, <2>4 DEF Slots
    <3> QED  BY <3>1
  <2> QED  BY <1>0, <1>3, <2>1, <2>2, <2>3, <2>4
<1>7. PICK p : p = [s \in Slots(a)' |-> f(s)]
  OBVIOUS
<1> HIDE DEF f
<1>8. Moved(a, p, Slots(a))
  BY <1>4, <1>5, <1>6, <1>7 DEF Moved
<1> QED  BY <1>8

\* What run writes to its connection is behind all the connection carries, and
\* no later connection carries anything.
LEMMA WriteMoves ==
  ASSUME OnTheWay, Dialed, NEW a \in Assets, Write, conn \notin cut
  PROVE  \E p : Moved(a, p, Slots(a))
<1>1. PICK c \in 1 .. MaxConns : c = conn
  BY DEF Dialed, Write
<1>2. PICK l \in Nat : l = Len(wire[c])
  BY DEF OnTheWay
<1> DEFINE H == MaxConns + 1
           Q == MaxConns + 2
           f(s) == IF s[1] = c /\ s[2] > l THEN <<H, s[2] - l>> ELSE s
<1>3. /\ H \in Places /\ Q \in Places /\ c \in Places /\ H \in Nat /\ Q \in Nat /\ c \in Nat
      /\ c < H /\ H < Q /\ c # H /\ c # Q /\ Places \subseteq Nat
      /\ \A n \in Places : n \in 1 .. MaxConns \cup {H, Q}
  BY GraderFeedAssumption DEF Places
<1>4. /\ wire' = [wire EXCEPT ![c] = @ \o hand] /\ hand' = <<>> /\ UNCHANGED queue
      /\ wire[c] \in Seq(Message) /\ hand \in Seq(Message) /\ wire \in [1 .. MaxConns -> Seq(Message)]
  BY <1>1 DEF Write, OnTheWay
<1>5. /\ Way(c) = wire[c] /\ Way(c)' = wire[c] \o hand /\ Way(H) = hand /\ Way(H)' = <<>>
      /\ \A n \in Places \ {c, H} : Way(n)' = Way(n)
  BY <1>3, <1>4, GraderFeedAssumption DEF Way, Places
<1>6. /\ DOMAIN Way(c) = 1 .. l /\ DOMAIN Way(H) = 1 .. Len(hand) /\ DOMAIN Way(H)' = {}
      /\ DOMAIN Way(c)' = 1 .. l + Len(hand) /\ Len(hand) \in Nat
      /\ \A i \in 1 .. l : Way(c)'[i] = Way(c)[i]
      /\ \A i \in 1 .. Len(hand) : Way(c)'[l + i] = Way(H)[i]
  BY <1>2, <1>4, <1>5
<1>7. \A n \in 1 .. MaxConns : c < n => DOMAIN Way(n)' = {}
  <2> SUFFICES ASSUME NEW n \in 1 .. MaxConns, c < n PROVE DOMAIN Way(n)' = {}
    OBVIOUS
  <2>1. wire[n] = <<>> /\ wire'[n] = wire[n]
    BY <1>1, <1>4 DEF Dialed
  <2> QED  BY <2>1 DEF Way
<1> HIDE DEF H, Q
<1>8. ASSUME NEW s \in Slots(a)' PROVE f(s) \in Slots(a) /\ ChunkAt(s)' = ChunkAt(f(s))
  <2>1. /\ s = <<s[1], s[2]>> /\ s[1] \in Places /\ s[2] \in Nat
        /\ s[2] \in DOMAIN Way(s[1])' /\ Way(s[1])'[s[2]].asset = a
    BY <1>8 DEF Slots
  <2>2. CASE s[1] = c /\ s[2] > l
    <3>1. s[2] - l \in DOMAIN Way(H) /\ s[2] - l \in Nat /\ Way(c)'[s[2]] = Way(H)[s[2] - l]
      <4>1. s[2] - l \in 1 .. Len(hand) /\ s[2] = l + (s[2] - l)
        BY <1>6, <2>1, <2>2
      <4> QED  BY <1>6, <4>1
    <3>2. <<H, s[2] - l>> \in Slots(a)
      BY <1>3, <2>1, <2>2, <3>1, SlotOf
    <3> QED  BY <2>2, <3>1, <3>2 DEF ChunkAt
  <2>3. CASE ~(s[1] = c /\ s[2] > l)
    <3>1. s[1] # H
      BY <1>6, <2>1
    <3>2. s[2] \in DOMAIN Way(s[1]) /\ Way(s[1])'[s[2]] = Way(s[1])[s[2]]
      <4>1. CASE s[1] = c
        <5>1. s[2] \in 1 .. l
          BY <1>2, <1>6, <2>1, <2>3, <4>1
        <5> QED  BY <1>6, <4>1, <5>1
      <4>2. CASE s[1] # c
        BY <1>5, <2>1, <3>1, <4>2
      <4> QED  BY <4>1, <4>2
    <3>3. s \in Slots(a)
      BY <2>1, <3>2, SlotOf
    <3> QED  BY <2>3, <3>2, <3>3 DEF ChunkAt
  <2> QED  BY <2>2, <2>3
<1>9. ASSUME NEW s \in Slots(a)', NEW t \in Slots(a)', Ahead(s, t) PROVE Ahead(f(s), f(t))
  <2>1. /\ s[1] \in Places /\ s[2] \in Nat /\ t[1] \in Places /\ t[2] \in Nat
        /\ s[2] \in DOMAIN Way(s[1])' /\ t[2] \in DOMAIN Way(t[1])'
    BY DEF Slots
  <2>2. s[1] # H /\ t[1] # H /\ (t[1] \in 1 .. MaxConns => ~(c < t[1]))
    BY <1>6, <1>7, <2>1
  <2>3. \A u \in {s, t} : /\ f(u)[1] = IF u[1] = c /\ u[2] > l THEN H ELSE u[1]
                          /\ f(u)[2] = IF u[1] = c /\ u[2] > l THEN u[2] - l ELSE u[2]
    OBVIOUS
  <2> HIDE DEF f
  <2>4. CASE s[1] = t[1] /\ s[2] < t[2]
    BY <1>2, <1>3, <2>1, <2>3, <2>4 DEF Ahead
  <2>5. CASE s[1] < t[1]
    <3>1. s[1] # c \/ t[1] = Q
      BY <1>3, <2>1, <2>2, <2>5
    <3>2. s[1] \in Nat /\ t[1] \in Nat
      BY <1>3, <2>1
    <3> QED  BY <1>2, <1>3, <2>1, <2>3, <2>5, <3>1, <3>2 DEF Ahead
  <2> QED  BY <1>9, <2>4, <2>5 DEF Ahead
<1>10. ASSUME NEW s \in Slots(a) PROVE \E t \in Slots(a)' : f(t) = s
  <2>1. /\ s = <<s[1], s[2]>> /\ s[1] \in Places /\ s[2] \in Nat
        /\ s[2] \in DOMAIN Way(s[1]) /\ Way(s[1])[s[2]].asset = a
    BY SlotIs
  <2>2. CASE s[1] = H
    <3>1. /\ l + s[2] \in DOMAIN Way(c)' /\ l + s[2] \in Nat /\ l + s[2] > l
          /\ (l + s[2]) - l = s[2] /\ Way(c)'[l + s[2]] = Way(H)[s[2]]
      BY <1>6, <2>1, <2>2
    <3>2. <<c, l + s[2]>> \in Slots(a)'
      BY <1>3, <2>1, <2>2, <3>1 DEF Slots
    <3>3. f(<<c, l + s[2]>>) = s
      BY <2>1, <2>2, <3>1
    <3> QED  BY <3>2, <3>3
  <2>3. CASE s[1] # H
    <3>1. s[2] \in DOMAIN Way(s[1])' /\ Way(s[1])'[s[2]] = Way(s[1])[s[2]]
      <4>1. CASE s[1] = c
        <5>1. s[2] \in 1 .. l /\ s[2] \in 1 .. l + Len(hand)
          BY <1>2, <1>6, <2>1, <4>1
        <5> QED  BY <1>6, <4>1, <5>1
      <4>2. CASE s[1] # c
        BY <1>5, <2>1, <2>3, <4>2
      <4> QED  BY <4>1, <4>2
    <3>2. s \in Slots(a)'
      BY <2>1, <3>1 DEF Slots
    <3>3. f(s) = s
      BY <1>6, <2>1
    <3> QED  BY <3>2, <3>3
  <2> QED  BY <2>2, <2>3
<1>11. PICK p : p = [s \in Slots(a)' |-> f(s)]
  OBVIOUS
<1> HIDE DEF f
<1>12. Moved(a, p, Slots(a))
  BY <1>8, <1>9, <1>10, <1>11 DEF Moved
<1> QED  BY <1>12

\* Messages of others that come and go at the end of a queue change nothing for a.
LEMMA OthersOrder ==
  ASSUME NEW a \in Assets, Ordered(a), EndsStay(a),
         \A n \in Places, i \in Nat :
           /\ i \in DOMAIN Way(n)' /\ Way(n)'[i].asset = a
                <=> i \in DOMAIN Way(n) /\ Way(n)[i].asset = a
           /\ i \in DOMAIN Way(n) /\ Way(n)[i].asset = a => Way(n)'[i] = Way(n)[i]
  PROVE  Ordered(a)'
<1>1. Slots(a)' = Slots(a)
  BY DEF Slots
<1>2. \A s \in Slots(a) : ChunkAt(s)' = ChunkAt(s)
  BY DEF Slots, ChunkAt
<1> QED  BY <1>1, <1>2, StillOrder

\* The next chunk of an asset continues what it has shown.
LEMMA ForwardOrder ==
  ASSUME FeedInv, NEW a \in Assets, NEW chunk \in Chunks, Forward(a, chunk),
         Ordered(a), a \notin gapped'
  PROVE  Ordered(a)'
<1> DEFINE Q    == MaxConns + 2
           more == Front(Segments(tail[a], chunk))
           rest == Last(Segments(tail[a], chunk))
<1>1. PICK nr \in [Slots(a) -> Nat], view \in [Nat -> View], first \in Nat, next \in Nat :
        /\ first <= next /\ Counted(a, nr, first, next) /\ Chained(a, nr, view)
        /\ Spanned(a, view, first, next)
  BY DEF Ordered
<1>2. /\ more \in Seq(Line) /\ rest \in Line /\ printed[a] \in Seq(Line) /\ tail[a] \in Line
  <2>1. chunk \in Seq(Line) /\ chunk # <<>> /\ tail[a] \in Line /\ printed[a] \in Seq(Line)
    BY GraderAssumption DEF FeedInv, TypeOK
  <2> QED  BY <2>1, SegmentsType
<1>3. /\ printed' = [printed EXCEPT ![a] = @ \o more] /\ tail' = [tail EXCEPT ![a] = rest]
      /\ queue' = Append(queue, [asset |-> a, chunk |-> chunk])
      /\ UNCHANGED <<hand, wire, lines, partial>>
  BY DEF Forward, Send, Output, Segments, gradeVars
<1>4. /\ printed'[a] = printed[a] \o more /\ tail'[a] = rest
      /\ lines'[a] = lines[a] /\ partial'[a] = partial[a]
  BY <1>3 DEF FeedInv, TypeOK
<1> HIDE DEF more, rest
<1>5. PICK l \in Nat : l = Len(queue)
  BY DEF FeedInv, OnTheWay
<1>6. /\ Q \in Places /\ Q \in Nat /\ Places \subseteq Nat /\ \A n \in Places : n <= Q
      /\ Way(Q) = queue /\ Way(Q)' = queue' /\ \A n \in Places \ {Q} : Way(n)' = Way(n)
  BY <1>3, GraderFeedAssumption DEF Places, Way
<1>7. /\ DOMAIN Way(Q) = 1 .. l /\ DOMAIN Way(Q)' = 1 .. l + 1
      /\ Way(Q)'[l + 1].asset = a /\ Way(Q)'[l + 1].chunk = chunk
      /\ \A i \in 1 .. l : Way(Q)'[i] = Way(Q)[i]
  <2>1. queue \in Seq(Message)
    BY DEF FeedInv, OnTheWay
  <2>2. [asset |-> a, chunk |-> chunk] \in Message
    BY DEF Message
  <2>3. PICK m \in Message : m.asset = a /\ m.chunk = chunk /\ queue' = Append(queue, m)
    BY <1>3, <2>2
  <2> QED  BY <1>5, <1>6, <2>1, <2>3
<1> HIDE DEF Q
<1> DEFINE e == <<Q, l + 1>>
<1>8. /\ Slots(a)' = Slots(a) \cup {e} /\ e \notin Slots(a)
      /\ \A s \in Slots(a) : ChunkAt(s)' = ChunkAt(s) /\ Ahead(s, e) /\ ~Ahead(e, s)
      /\ ChunkAt(e)' = chunk /\ ~Ahead(e, e)
  <2>1. e \in Slots(a)' /\ ChunkAt(e)' = chunk
    BY <1>6, <1>7 DEF Slots, ChunkAt
  <2>2. e \notin Slots(a) /\ ~Ahead(e, e)
    BY <1>6, <1>7 DEF Slots, Ahead
  <2>3. ASSUME NEW s \in Slots(a)
        PROVE  s \in Slots(a)' /\ ChunkAt(s)' = ChunkAt(s) /\ Ahead(s, e) /\ ~Ahead(e, s)
    <3>1. /\ s = <<s[1], s[2]>> /\ s[1] \in Places /\ s[2] \in Nat
          /\ s[2] \in DOMAIN Way(s[1]) /\ Way(s[1])[s[2]].asset = a
      BY SlotIs
    <3>2. CASE s[1] = Q
      <4>1. s[2] \in 1 .. l /\ s[2] \in 1 .. l + 1 /\ s[2] < l + 1
        BY <1>7, <3>1, <3>2
      <4>2. s \in Slots(a)'
        BY <1>7, <3>1, <3>2, <4>1 DEF Slots
      <4> QED  BY <1>6, <1>7, <3>1, <3>2, <4>1, <4>2 DEF ChunkAt, Ahead
    <3>3. CASE s[1] # Q
      <4>1. Way(s[1])' = Way(s[1]) /\ s[1] < Q
        BY <1>6, <3>1, <3>3
      <4>2. s \in Slots(a)'
        BY <3>1, <4>1 DEF Slots
      <4> QED  BY <1>6, <3>1, <3>3, <4>1, <4>2 DEF ChunkAt, Ahead
    <3> QED  BY <3>2, <3>3
  <2>4. ASSUME NEW s \in Slots(a)', s # e PROVE s \in Slots(a)
    <3>1. /\ s = <<s[1], s[2]>> /\ s[1] \in Places /\ s[2] \in Nat
          /\ s[2] \in DOMAIN Way(s[1])' /\ Way(s[1])'[s[2]].asset = a
      BY DEF Slots
    <3>2. CASE s[1] = Q
      <4>1. s[2] \in 1 .. l
        <5>1. s[2] # l + 1
          BY <2>4, <3>1, <3>2
        <5> QED  BY <1>7, <3>1, <3>2, <5>1
      <4> QED  BY <1>6, <1>7, <3>1, <3>2, <4>1, SlotOf
    <3>3. CASE s[1] # Q
      BY <1>6, <3>1, <3>3, SlotOf
    <3> QED  BY <3>2, <3>3
  <2> QED  BY <2>1, <2>2, <2>3, <2>4
<1> HIDE DEF e
<1>9. PICK new : new = [s \in Slots(a)' |-> IF s = e THEN next ELSE nr[s]]
  OBVIOUS
<1>10. PICK upto : upto = [view EXCEPT ![next + 1] = [shown |-> printed'[a], rest |-> rest]]
  OBVIOUS
<1>11. /\ new \in [Slots(a)' -> Nat] /\ new[e] = next /\ \A s \in Slots(a) : new[s] = nr[s]
  BY <1>1, <1>8, <1>9
<1>12. /\ upto \in [Nat -> View] /\ \A i \in 0 .. next : upto[i] = view[i]
       /\ upto[next + 1].shown = printed'[a] /\ upto[next + 1].rest = rest
  <2>1. printed[a] \o more \in Seq(Line)
    BY <1>2
  <2>2. [shown |-> printed'[a], rest |-> rest] \in View
    BY <1>2, <1>4, <2>1 DEF View
  <2> QED  BY <1>1, <1>10, <2>2
<1>13. Counted(a, new, first, next + 1)'
  <2>1. \A s \in Slots(a) : nr[s] \in first .. next - 1
    BY <1>1 DEF Counted
  <2>2. \A s \in Slots(a)' : new[s] \in first .. (next + 1) - 1
    BY <1>1, <1>8, <1>11, <2>1
  <2>3. \A s, t \in Slots(a)' : Ahead(s, t) => new[s] < new[t]
    BY <1>1, <1>8, <1>11, <2>1 DEF Counted
  <2>4. \A i \in first .. (next + 1) - 1 : \E s \in Slots(a)' : new[s] = i
    <3> SUFFICES ASSUME NEW i \in first .. (next + 1) - 1 PROVE \E s \in Slots(a)' : new[s] = i
      OBVIOUS
    <3>1. i = next \/ i \in first .. next - 1
      BY <1>1
    <3> QED  BY <1>1, <1>8, <1>11, <3>1 DEF Counted
  <2> QED  BY <2>2, <2>3, <2>4 DEF Counted
<1>14. Chained(a, new, upto)'
  <2>1. ASSUME NEW s \in Slots(a) PROVE Joined(upto[new[s]], ChunkAt(s)', upto[new[s] + 1])
    <3>1. nr[s] \in 0 .. next /\ nr[s] + 1 \in 0 .. next
      BY <1>1 DEF Counted
    <3> QED  BY <1>1, <1>8, <1>11, <1>12, <3>1 DEF Chained
  <2>2. Joined(upto[new[e]], ChunkAt(e)', upto[new[e] + 1])
    <3>1. next \in 0 .. next
      BY <1>1
    <3>2. upto[next].shown = printed[a] /\ upto[next].rest = tail[a]
      BY <1>1, <1>12, <3>1 DEF Spanned
    <3>3. upto[next + 1].shown = printed[a] \o more /\ upto[next + 1].rest = rest
      BY <1>4, <1>12
    <3>4. Joined(upto[next], chunk, upto[next + 1])
      BY <3>2, <3>3 DEF Joined, more, rest
    <3> QED  BY <1>8, <1>11, <3>4
  <2> QED  BY <1>8, <2>1, <2>2 DEF Chained
<1>15. Spanned(a, upto, first, next + 1)'
  <2>1. first \in 0 .. next
    BY <1>1
  <2>2. \A i \in first .. next + 1 : \E m \in Seq(Line) : printed'[a] = upto[i].shown \o m
    <3> SUFFICES ASSUME NEW i \in first .. next + 1
                 PROVE  \E m \in Seq(Line) : printed'[a] = upto[i].shown \o m
      OBVIOUS
    <3>1. CASE i = next + 1
      <4>1. printed'[a] = printed'[a] \o <<>> /\ <<>> \in Seq(Line)
        <5>1. printed[a] \o more \in Seq(Line)
          BY <1>2
        <5> QED  BY <1>4, <5>1
      <4> QED  BY <1>12, <3>1, <4>1
    <3>2. CASE i \in first .. next
      <4>1. PICK x \in Seq(Line) : x = view[i].shown /\ i \in 0 .. next
        BY <1>1, <3>2 DEF View
      <4>2. PICK m \in Seq(Line) : printed[a] = x \o m
        BY <1>1, <3>2, <4>1 DEF Spanned
      <4>3. (x \o m) \o more = x \o (m \o more)
        <5>1. more \in Seq(Line)
          BY <1>2
        <5> QED  BY <5>1, ConcatAssociative
      <4>4. m \o more \in Seq(Line)
        BY <1>2
      <4> QED  BY <1>4, <1>12, <4>1, <4>2, <4>3, <4>4
    <3>3. first \in Nat /\ next \in Nat /\ first <= next
      BY <1>1
    <3>4. i = next + 1 \/ i \in first .. next
      BY <3>3
    <3> QED  BY <3>1, <3>2, <3>4
  <2> QED  BY <1>1, <1>4, <1>12, <2>1, <2>2 DEF Spanned
<1>16. first <= next + 1 /\ next + 1 \in Nat
  BY <1>1
<1> QED  BY <1>1, <1>11, <1>12, <1>13, <1>14, <1>15, <1>16 DEF Ordered

\* What a connection delivers is gone from it, and from nowhere else.
LEMMA ReceiveTakes ==
  ASSUME OnTheWay, NEW n \in 1 .. MaxConns, Receive(n)
  PROVE  /\ n \in Places /\ Way(n) = wire[n] /\ Way(n) # <<>> /\ Way(n)' = Tail(Way(n))
         /\ \A m \in Places \ {n} : Way(m)' = Way(m)
<1>1. /\ wire[n] # <<>> /\ wire' = [wire EXCEPT ![n] = Tail(@)] /\ UNCHANGED <<queue, hand>>
      /\ wire \in [1 .. MaxConns -> Seq(Message)]
  BY DEF Receive, OnTheWay
<1>2. wire'[n] = Tail(wire[n]) /\ \A m \in 1 .. MaxConns \ {n} : wire'[m] = wire[m]
  BY <1>1
<1> QED  BY <1>1, <1>2, GraderFeedAssumption DEF Places, Way

\* A chunk of another asset leaves a's buffer alone.
LEMMA OtherReceived ==
  ASSUME FeedInv, NEW a \in Assets, NEW n \in 1 .. MaxConns, Receive(n),
         Head(wire[n]).asset # a, Ordered(a)
  PROVE  Ordered(a)'
<1>1. Head(wire[n]) \in Message /\ Head(wire[n]) = wire[n][1]
  BY DEF Receive, FeedInv, OnTheWay
<1>2. PICK b \in Assets : b = Head(wire[n]).asset
  BY <1>1 DEF Message
<1>3. EndsStay(a)
  <2>1. \E rest, kept : /\ partial' = [partial EXCEPT ![b] = rest]
                        /\ lines' = [lines EXCEPT ![b] = kept]
    BY <1>2 DEF Receive, Ingest
  <2>2. printed' = printed /\ tail' = tail
    BY DEF Receive, printVars
  <2> QED  BY <1>2, <2>1, <2>2 DEF EndsStay, FeedInv, TypeOK
<1>4. \E p : Moved(a, p, Slots(a) \ {<<n, 1>>})
  BY ReceiveTakes, HeadTaken DEF FeedInv
<1>5. <<n, 1>> \notin Slots(a)
  BY <1>1, ReceiveTakes DEF Slots, FeedInv
<1>6. Slots(a) \ {<<n, 1>>} = Slots(a)
  BY <1>5
<1> QED  BY <1>3, <1>4, <1>6, MovedOrder

\* A chunk that overtook none of its asset is the one that comes first.
LEMMA FirstReceived ==
  ASSUME FeedInv, NEW a \in Assets, NEW n \in 1 .. MaxConns, Receive(n),
         Head(wire[n]).asset = a, Ordered(a), a \notin gapped'
  PROVE  Ordered(a)'
<1> DEFINE e == <<n, 1>>
           m == Head(wire[n])
<1>1. PICK nr \in [Slots(a) -> Nat], view \in [Nat -> View], first \in Nat, next \in Nat :
        /\ first <= next /\ Counted(a, nr, first, next) /\ Chained(a, nr, view)
        /\ Spanned(a, view, first, next)
  BY DEF Ordered
<1>2. PICK p : Moved(a, p, Slots(a) \ {e})
  BY ReceiveTakes, HeadTaken DEF FeedInv
<1>3. /\ m \in Message /\ m = Way(n)[1] /\ m.asset = a /\ m.chunk \in Chunks
      /\ 1 \in DOMAIN Way(n) /\ n \in Places /\ n \in Nat
  <2>1. wire[n] \in Seq(Message) /\ wire[n] # <<>>
    BY DEF FeedInv, OnTheWay, Receive
  <2>2. m \in Message /\ m = wire[n][1] /\ 1 \in DOMAIN wire[n]
    BY <2>1
  <2> QED  BY <2>2, ReceiveTakes DEF FeedInv, Message
<1>4. e \in Slots(a) /\ ChunkAt(e) = m.chunk
  BY <1>3, SlotOf DEF ChunkAt
<1>5. ASSUME NEW s \in Slots(a), s # e PROVE Ahead(e, s)
  <2>1. /\ s = <<s[1], s[2]>> /\ s[1] \in Places /\ s[2] \in Nat
        /\ s[2] \in DOMAIN Way(s[1]) /\ Way(s[1])[s[2]].asset = a
    BY SlotIs
  <2>2. s[1] \in Nat /\ s[2] >= 1
    <3>1. Way(s[1]) \in Seq(Message)
      BY <2>1, WayType DEF FeedInv
    <3> QED  BY <2>1, <3>1 DEF Places
  <2>3. ~(s[1] < n)
    <3> SUFFICES ASSUME s[1] < n PROVE FALSE
      OBVIOUS
    <3>1. s[1] \in 1 .. n - 1 /\ s[1] \in 1 .. MaxConns
      BY <2>1, GraderFeedAssumption DEF Places
    <3>2. a \in Sources(wire[s[1]])
      BY <2>1, <3>1 DEF Sources, Way
    <3> QED  BY <1>3, <3>1, <3>2 DEF Receive
  <2>4. s[1] = n => s[2] # 1
    BY <1>5, <2>1
  <2> QED  BY <1>3, <2>1, <2>2, <2>3, <2>4 DEF Ahead
<1>6. nr[e] = first /\ first < next
  <2>1. nr[e] \in first .. next - 1
    BY <1>1, <1>4 DEF Counted
  <2>2. PICK s \in Slots(a) : nr[s] = first
    BY <1>1, <2>1 DEF Counted
  <2>3. s # e => nr[e] < nr[s]
    BY <1>1, <1>4, <1>5, <2>2 DEF Counted
  <2> QED  BY <1>1, <2>1, <2>2, <2>3
<1>7. \A s \in Slots(a) \ {e} : nr[s] \in first + 1 .. next - 1
  BY <1>1, <1>4, <1>5, <1>6 DEF Counted
<1>8. PICK new : new = [s \in Slots(a)' |-> nr[p[s]]]
  OBVIOUS
<1>9. /\ new \in [Slots(a)' -> Nat] /\ \A s \in Slots(a)' : new[s] = nr[p[s]]
      /\ \A s \in Slots(a)' : p[s] \in Slots(a) \ {e}
  BY <1>1, <1>2, <1>8 DEF Moved
<1> HIDE DEF e, m
<1>10. Counted(a, new, first + 1, next)'
  <2>1. \A s \in Slots(a)' : new[s] \in first + 1 .. next - 1
    BY <1>7, <1>9
  <2>2. \A s, t \in Slots(a)' : Ahead(s, t) => new[s] < new[t]
    BY <1>1, <1>2, <1>9 DEF Counted, Moved
  <2>3. \A i \in first + 1 .. next - 1 : \E s \in Slots(a)' : new[s] = i
    <3> SUFFICES ASSUME NEW i \in first + 1 .. next - 1 PROVE \E s \in Slots(a)' : new[s] = i
      OBVIOUS
    <3>1. i \in first .. next - 1 /\ i # first
      BY <1>1
    <3>2. PICK s \in Slots(a) : nr[s] = i
      BY <1>1, <3>1 DEF Counted
    <3>3. s \in Slots(a) \ {e}
      BY <1>6, <3>1, <3>2
    <3> QED  BY <1>2, <1>9, <3>2, <3>3 DEF Moved
  <2> QED  BY <2>1, <2>2, <2>3 DEF Counted
<1>11. Chained(a, new, view)'
  BY <1>1, <1>2, <1>9 DEF Chained, Moved
<1>12. Joined(view[first], m.chunk, view[first + 1])
  BY <1>1, <1>4, <1>6 DEF Chained
<1>13. PICK x \in Seq(Line), y \in Line : x = view[first].shown /\ y = view[first].rest
  BY <1>1 DEF View
<1>14. PICK more \in Seq(Line), rest \in Line :
         more = Front(Segments(y, m.chunk)) /\ rest = Last(Segments(y, m.chunk))
  BY <1>3, GraderAssumption, SegmentsType
<1>15. view[first + 1].shown = x \o more /\ view[first + 1].rest = rest
  BY <1>12, <1>13, <1>14 DEF Joined
<1>16. EndOf(lines[a], x) /\ partial[a] = y /\ lines[a] \in Seq(Line)
  BY <1>1, <1>13 DEF Spanned, FeedInv, TypeOK
<1>17. /\ partial' = [partial EXCEPT ![a] = rest] /\ lines' = [lines EXCEPT ![a] = Keep(lines[a] \o more)]
       /\ UNCHANGED <<printed, tail>>
  BY <1>3, <1>14, <1>16 DEF m, Receive, Ingest, Split, Segments, printVars
<1>18. partial'[a] = rest /\ lines'[a] = Keep(lines[a] \o more)
  BY <1>16, <1>17 DEF FeedInv, TypeOK
<1>19. EndOf(lines'[a], view[first + 1].shown)
  BY <1>15, <1>16, <1>18, EndGrows
<1>20. Spanned(a, view, first + 1, next)'
  <2>1. \A i \in first + 1 .. next : i \in first .. next
    BY <1>1
  <2> QED  BY <1>1, <1>15, <1>17, <1>18, <1>19, <2>1 DEF Spanned
<1>21. first + 1 <= next /\ first + 1 \in Nat
  BY <1>1, <1>6
<1> QED  BY <1>1, <1>9, <1>10, <1>11, <1>20, <1>21 DEF Ordered

\* At first nothing is on its way, and nothing printed.
LEMMA InitOrder == FeedInit => OrderInv /\ EarnedUnlessGap
<1> SUFFICES ASSUME FeedInit PROVE OrderInv /\ EarnedUnlessGap
  OBVIOUS
<1>1. Dialed
  BY GraderFeedAssumption DEF FeedInit, Dialed
<1>2. EarnedUnlessGap
  BY DEF FeedInit, Init, EarnedUnlessGap
<1>3. ASSUME NEW a \in Assets PROVE Ordered(a)
  <2>1. \A n \in Places : Way(n) = <<>>
    BY DEF FeedInit, Way
  <2>2. Slots(a) = {}
    BY <2>1 DEF Slots
  <2>3. PICK nr : nr = [s \in Slots(a) |-> 0]
    OBVIOUS
  <2>4. <<>> \in Seq(Line) /\ {} \in Line
    BY DEF Line
  <2>5. [shown |-> <<>>, rest |-> {}] \in View
    BY <2>4 DEF View
  <2>6. PICK view : view = [i \in Nat |-> [shown |-> <<>>, rest |-> {}]]
    OBVIOUS
  <2>7. view \in [Nat -> View] /\ view[0].shown = <<>> /\ view[0].rest = {}
    BY <2>5, <2>6
  <2>8. Counted(a, nr, 0, 0) /\ Chained(a, nr, view) /\ nr \in [Slots(a) -> Nat]
    BY <2>2, <2>3 DEF Counted, Chained
  <2>9. /\ lines[a] = <<>> /\ partial[a] = {}
        /\ printed[a] = <<>> /\ tail[a] = {}
    BY DEF FeedInit, Init
  <2>10. EndOf(<<>>, <<>>)
    BY DEF EndOf
  <2>11. <<>> = <<>> \o <<>>
    OBVIOUS
  <2>12. Spanned(a, view, 0, 0)
    <3>1. \A i \in 0 .. 0 : i = 0
      OBVIOUS
    <3> QED  BY <2>4, <2>7, <2>9, <2>10, <2>11, <3>1 DEF Spanned
  <2> QED  BY <2>7, <2>8, <2>12 DEF Ordered
<1> QED  BY <1>1, <1>2, <1>3 DEF OrderInv

\* A connection carries something only once it is dialed.
LEMMA DialedStep == OnTheWay /\ Dialed /\ [FeedNext]_allVars => Dialed'
<1> SUFFICES ASSUME OnTheWay, Dialed, [FeedNext]_allVars PROVE Dialed'
  OBVIOUS
<1> USE DEF Dialed
<1>1. CASE UNCHANGED <<fwd, conn, wire>>
  BY <1>1
<1>2. CASE Dial
  <2>1. fwd' = "draining" /\ conn' = conn + 1 /\ conn < MaxConns /\ wire' = wire
    BY <1>2 DEF Dial
  <2> QED  BY <2>1, GraderFeedAssumption
<1>3. CASE GiveUp \/ Leave
  BY <1>3 DEF GiveUp, Leave
<1>4. CASE Write
  <2>1. conn' = conn /\ fwd = "draining"
        /\ (wire' = [wire EXCEPT ![conn] = @ \o hand] \/ wire' = wire)
    BY <1>4 DEF Write
  <2> QED  BY <2>1, GraderFeedAssumption DEF OnTheWay
<1>5. ASSUME NEW n \in 1 .. MaxConns, Receive(n) PROVE Dialed'
  <2>1. wire[n] # <<>> /\ wire' = [wire EXCEPT ![n] = Tail(@)] /\ UNCHANGED <<fwd, conn>>
    BY <1>5 DEF Receive
  <2> QED  BY <2>1, GraderFeedAssumption DEF OnTheWay
<1>6. ASSUME NEW n \in 1 .. MaxConns, Break(n) PROVE Dialed'
  <2>1. n \in 1 .. conn /\ UNCHANGED <<fwd, conn>> /\ \E w : wire' = [wire EXCEPT ![n] = w]
    BY <1>6 DEF Break
  <2> QED  BY <2>1, GraderFeedAssumption DEF OnTheWay
<1>7. CASE GraderRestarts
  BY <1>7 DEF GraderRestarts
<1> QED
  BY <1>1, <1>2, <1>3, <1>4, <1>5, <1>6, <1>7
  DEF FeedNext, Forward, Forwarder, Take, Close, Alone, allVars, feedVars

\* Every step keeps the chunks of an asset in order, or gaps it: the queue is
\* full, a write or a connection fails, a later connection is read first, or
\* the grader restarts.
LEMMA OrderStep ==
  ASSUME FeedInv, Dialed, [FeedNext]_allVars,
         NEW a \in Assets, Ordered(a), a \notin gapped'
  PROVE  Ordered(a)'
<1>1. CASE UNCHANGED <<queue, hand, wire, lines, partial, printVars>>
  BY <1>1, OthersOrder DEF Way, EndsStay, printVars
<1>2. ASSUME NEW b \in Assets, NEW chunk \in Chunks, Forward(b, chunk) PROVE Ordered(a)'
  <2>1. CASE b = a
    BY <1>2, <2>1, ForwardOrder
  <2>2. CASE b # a
    <3>1. EndsStay(a)
      BY <1>2, <2>2 DEF Forward, Output, EndsStay, FeedInv, TypeOK, gradeVars
    <3>2. UNCHANGED <<hand, wire>>
      BY <1>2 DEF Forward
    <3>3. \A i \in Nat :
            /\ i \in DOMAIN queue' /\ queue'[i].asset = a <=> i \in DOMAIN queue /\ queue[i].asset = a
            /\ i \in DOMAIN queue /\ queue[i].asset = a => queue'[i] = queue[i]
      <4>1. PICK m \in Message : m.asset = b /\ queue' \in {queue, Append(queue, m)}
        <5>1. [asset |-> b, chunk |-> chunk] \in Message
          BY DEF Message
        <5> QED  BY <1>2, <5>1 DEF Forward, Send
      <4>2. queue \in Seq(Message)
        BY DEF FeedInv, OnTheWay
      <4> QED  BY <2>2, <4>1, <4>2
    <3> QED  BY <3>1, <3>2, <3>3, OthersOrder DEF Way
  <2> QED  BY <2>1, <2>2
<1>3. CASE Take
  <2>1. EndsStay(a)
    BY <1>3 DEF Take, EndsStay, vars, gradeVars, printVars
  <2> QED  BY <1>3, <2>1, TakeMoves, MovedOrder DEF FeedInv
<1>4. CASE Write
  <2>1. EndsStay(a)
    BY <1>4 DEF Write, EndsStay, vars, gradeVars, printVars
  <2>2. CASE conn \notin cut
    BY <1>4, <2>1, <2>2, WriteMoves, MovedOrder DEF FeedInv
  <2>3. CASE conn \in cut
    <3>1. a \notin Sources(hand) /\ hand' = <<>> /\ UNCHANGED <<queue, wire>>
      BY <1>4, <2>3 DEF Write
    <3> QED  BY <2>1, <3>1, OthersOrder DEF Way, Sources
  <2> QED  BY <2>2, <2>3
<1>5. ASSUME NEW n \in 1 .. MaxConns, Receive(n) PROVE Ordered(a)'
  BY <1>5, OtherReceived, FirstReceived
<1>6. ASSUME NEW n \in 1 .. MaxConns, Break(n) PROVE Ordered(a)'
  <2>1. EndsStay(a) /\ UNCHANGED <<queue, hand>>
    BY <1>6 DEF Break, EndsStay, vars, gradeVars, printVars
  <2>2. PICK c \in 0 .. Len(wire[n]) :
          /\ wire' = [wire EXCEPT ![n] = SubSeq(@, 1, c)]
          /\ a \notin Sources(SubSeq(wire[n], c + 1, Len(wire[n])))
    BY <1>6 DEF Break
  <2>3. wire \in [1 .. MaxConns -> Seq(Message)] /\ wire[n] \in Seq(Message)
    BY DEF FeedInv, OnTheWay
  <2>4. PICK w \in Seq(Message) : w = wire[n]
    BY <2>3
  <2>5. wire'[n] = SubSeq(w, 1, c) /\ \A m \in 1 .. MaxConns \ {n} : wire'[m] = wire[m]
    BY <2>2, <2>3, <2>4
  <2>6. /\ Len(w) \in Nat /\ DOMAIN w = 1 .. Len(w) /\ DOMAIN SubSeq(w, 1, c) = 1 .. c
        /\ \A i \in 1 .. c : SubSeq(w, 1, c)[i] = w[i]
    BY <2>4
  <2>7. \A i \in c + 1 .. Len(w) : w[i].asset # a
    <3> SUFFICES ASSUME NEW i \in c + 1 .. Len(w), w[i].asset = a PROVE FALSE
      OBVIOUS
    <3> DEFINE lost == SubSeq(w, c + 1, Len(w))
    <3>1. i - c \in DOMAIN lost /\ lost[i - c] = w[i]
      BY <2>4, <2>6
    <3>2. a \in Sources(lost)
      BY <3>1 DEF Sources
    <3> QED  BY <2>2, <2>4, <3>2
  <2>8. \A i \in Nat :
          /\ i \in DOMAIN wire'[n] /\ wire'[n][i].asset = a <=> i \in DOMAIN w /\ w[i].asset = a
          /\ i \in DOMAIN w /\ w[i].asset = a => wire'[n][i] = w[i]
    BY <2>2, <2>4, <2>5, <2>6, <2>7
  <2> QED  BY <2>1, <2>4, <2>5, <2>8, OthersOrder DEF Way
<1>7. CASE GraderRestarts
  BY <1>7 DEF GraderRestarts
<1> QED
  BY <1>1, <1>2, <1>3, <1>4, <1>5, <1>6, <1>7
  DEF FeedNext, Forwarder, Dial, GiveUp, Leave, Close, Alone, WriteGrades, Connect, Serve, Register,
      Greet, ReadFails, Deregister, LinkChanges, Written, allVars, feedVars, vars, gradeVars, printVars

\* A grade once earned, or to be blamed on the feed, stays so: output only
\* grows, and so do the gaps. A new one matches a buffer, which ends what its
\* asset had shown when the last chunk the grader took in was printed.
LEMMA EarnedStep ==
  ASSUME FeedInv, FeedInv', OrderInv', EarnedUnlessGap, [FeedNext]_allVars
  PROVE  EarnedUnlessGap'
<1> DEFINE Blamed(t) == \E a \in Assets :
             Scope[t] \in {a, LabWide} /\ (Matches(t, printed[a]) \/ a \in gapped)
<1>1. grades \subseteq Tasks /\ grades' \subseteq Tasks
  BY GraderAssumption DEF FeedInv, TypeOK
<1>2. CASE GraderRestarts
  BY <1>2 DEF GraderRestarts, EarnedUnlessGap
<1>3. ASSUME NEW b \in Assets, NEW chunk \in Chunks, Forward(b, chunk) PROVE EarnedUnlessGap'
  <2>1. grades' = grades /\ gapped \subseteq gapped'
    BY <1>3 DEF Forward, Send, gradeVars
  <2>2. \A a \in Assets : \E more \in Seq(Line) : printed'[a] = printed[a] \o more
    <3> SUFFICES ASSUME NEW a \in Assets
                 PROVE  \E more \in Seq(Line) : printed'[a] = printed[a] \o more
      OBVIOUS
    <3>1. /\ chunk \in Seq(Line) /\ chunk # <<>> /\ tail[b] \in Line
          /\ printed[a] \in Seq(Line) /\ printed \in [Assets -> Seq(Line)]
      BY GraderAssumption DEF FeedInv, TypeOK
    <3>2. PICK more \in Seq(Line) : more = Front(Segments(tail[b], chunk))
      BY <3>1, SegmentsType
    <3>3. printed' = [printed EXCEPT ![b] = @ \o more]
      BY <1>3, <3>2 DEF Forward, Output, Segments
    <3>4. printed[a] = printed[a] \o <<>> /\ <<>> \in Seq(Line)
      BY <3>1
    <3> QED  BY <3>1, <3>3, <3>4
  <2>3. ASSUME NEW t \in grades PROVE Blamed(t)'
    <3>1. PICK a \in Assets :
            Scope[t] \in {a, LabWide} /\ (Matches(t, printed[a]) \/ a \in gapped)
      BY DEF EarnedUnlessGap
    <3>2. Matches(t, printed[a]) => Matches(t, printed'[a])
      BY <1>1, <2>2, MoreMatches DEF FeedInv, TypeOK
    <3> QED  BY <2>1, <3>1, <3>2
  <2> QED  BY <2>1, <2>3 DEF EarnedUnlessGap
<1>4. ASSUME NEW n \in 1 .. MaxConns, Receive(n) PROVE EarnedUnlessGap'
  <2>1. printed' = printed /\ gapped \subseteq gapped'
    BY <1>4 DEF Receive, printVars
  <2>2. ASSUME NEW t \in grades PROVE Blamed(t)'
    BY <2>1 DEF EarnedUnlessGap
  <2>3. ASSUME NEW t \in grades' \ grades PROVE Blamed(t)'
    <3>1. PICK c \in Assets : t \in NewlyPassed(c, lines')
      <4>1. Head(wire[n]).asset \in Assets
        <5>1. wire[n] \in Seq(Message) /\ wire[n] # <<>>
          BY <1>4 DEF Receive, FeedInv, OnTheWay
        <5>2. Head(wire[n]) \in Message
          BY <5>1
        <5> QED  BY <5>2 DEF Message
      <4>2. t \in NewlyPassed(Head(wire[n]).asset, lines')
        BY <1>4, <2>3 DEF Receive, Ingest
      <4> QED  BY <4>1, <4>2
    <3>2. PICK a \in Assets : Scope[t] \in {a, LabWide} /\ Matches(t, lines'[a])
      BY <3>1 DEF NewlyPassed
    <3>4. CASE a \in gapped'
      BY <3>2, <3>4
    <3>5. CASE Ordered(a)'
      <4>1. PICK view \in [Nat -> View], first \in Nat, next \in Nat :
              first <= next /\ Spanned(a, view, first, next)'
        BY <3>5 DEF Ordered
      <4>2. PICK x \in Seq(Line) : x = view[first].shown
        BY DEF View
      <4>3. EndOf(lines'[a], x) /\ \E more \in Seq(Line) : printed'[a] = x \o more
        <5>1. first \in first .. next
          BY <4>1
        <5> QED  BY <4>1, <4>2, <5>1 DEF Spanned
      <4>4. lines'[a] \in Seq(Line)
        BY DEF FeedInv, TypeOK
      <4>5. Matches(t, x)
        BY <1>1, <3>2, <4>3, <4>4, EndMatches
      <4>6. Matches(t, printed'[a])
        BY <1>1, <4>3, <4>5, MoreMatches
      <4> QED  BY <3>2, <4>6
    <3> QED  BY <3>4, <3>5 DEF OrderInv
  <2> QED  BY <2>2, <2>3 DEF EarnedUnlessGap
<1>5. CASE grades' = grades /\ printed' = printed /\ gapped \subseteq gapped'
  BY <1>5 DEF EarnedUnlessGap
<1> QED
  BY <1>2, <1>3, <1>4, <1>5
  DEF FeedNext, Forwarder, Dial, GiveUp, Take, Leave, Write, Close, Break, Alone, WriteGrades, Connect,
      Serve, Register, Greet, ReadFails, Deregister, LinkChanges, Written, allVars, feedVars, vars,
      gradeVars, printVars

\* The whole of it is inductive.
LEMMA FeedOrderStep ==
  FeedInv /\ OrderInv /\ EarnedUnlessGap /\ [FeedNext]_allVars
    => FeedInv' /\ OrderInv' /\ EarnedUnlessGap'
<1> SUFFICES ASSUME FeedInv, OrderInv, EarnedUnlessGap, [FeedNext]_allVars
             PROVE  FeedInv' /\ OrderInv' /\ EarnedUnlessGap'
  OBVIOUS
<1>1. FeedInv'
  BY FeedStep
<1>2. Dialed'
  BY DialedStep DEF FeedInv, OrderInv
<1>3. gapped \subseteq gapped' \/ GraderRestarts
  BY DEF FeedNext, Forward, Send, Forwarder, Dial, GiveUp, Take, Leave, Write, Close, Receive, Break,
         Alone, allVars, feedVars
<1>4. ASSUME NEW a \in Assets, a \notin gapped' PROVE Ordered(a)'
  <2>1. a \notin gapped
    BY <1>3, <1>4 DEF GraderRestarts
  <2> QED  BY <1>4, <2>1, OrderStep DEF OrderInv
<1>5. OrderInv'
  BY <1>2, <1>4 DEF OrderInv
<1> QED  BY <1>1, <1>5, EarnedStep

\* A pass nobody earned is one the feed is to blame for (forwarder.go:57-66,
\* 108-131; listener.go:39).
THEOREM EarnedUnlessGapHolds == FeedSpec => []EarnedUnlessGap
BY InitFeed, InitOrder, FeedOrderStep, PTL DEF FeedSpec
=============================================================================
