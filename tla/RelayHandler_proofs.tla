------------------------- MODULE RelayHandler_proofs -------------------------
(***************************************************************************)
(* For any number of connections and any limit: the limiter's counters are *)
(* exact, and the handlers with their limiter implement SlotPool.          *)
(***************************************************************************)
EXTENDS RelayHandler, FiniteSetTheorems, TLAPS

\* The labels at which a handler holds a slot.
In == {"held", "serving", "served"}

Served == {c \in Conns : pc[c] = "serving"}

\* The WaitGroup counts the sessions being served.
WgExact == wg = Cardinality(Served)

\* No counter exceeds the limit, and a handler about to swap loaded less.
Bounded ==
  /\ \A u \in Users : counts[u] <= MaxConns
  /\ \A c \in Conns : pc[c] = "loaded" => cur[c] < MaxConns

IInv == TypeOK /\ CountsExact /\ WgExact /\ Bounded

-----------------------------------------------------------------------------
\* What a step of one handler does to the sets that are counted.

\* The sets whose cardinalities are counters are finite.
LEMMA Finiteness ==
  /\ \A u : IsFiniteSet(Holding(u)) /\ Cardinality(Holding(u)) \in Nat
  /\ IsFiniteSet(Served) /\ Cardinality(Served) \in Nat
<1>1. IsFiniteSet(Conns)
  BY LimiterAssumption
<1>2. \A S \in SUBSET Conns : IsFiniteSet(S) /\ Cardinality(S) \in Nat
  BY <1>1, FS_Subset, FS_CardinalityType
<1> QED  BY <1>2 DEF Holding, Served

\* A handler that neither takes nor gives back a slot leaves the holders alone.
LEMMA HoldingSame ==
  ASSUME NEW c \in Conns, NEW label, pc \in [Conns -> Labels], Goto(c, label),
         pc[c] \in In <=> label \in In,
         pc[c] \in In => user'[c] = user[c],
         \A d \in Conns \ {c} : user'[d] = user[d]
  PROVE  \A u \in Users : Holding(u)' = Holding(u)
BY DEF Holding, Goto, In

\* One that takes a slot is added to the holders of its user, and counted.
LEMMA HoldingMore ==
  ASSUME NEW c \in Conns, TypeOK, Goto(c, "held"), pc[c] \notin In, UNCHANGED user
  PROVE  \A u \in Users :
           Cardinality(Holding(u)') =
             IF u = user[c] THEN Cardinality(Holding(u)) + 1 ELSE Cardinality(Holding(u))
<1> SUFFICES ASSUME NEW u \in Users
             PROVE  Cardinality(Holding(u)') =
                      IF u = user[c] THEN Cardinality(Holding(u)) + 1
                                     ELSE Cardinality(Holding(u))
  OBVIOUS
<1>1. CASE u = user[c]
  <2>1. Holding(u)' = Holding(u) \cup {c} /\ c \notin Holding(u)
    BY <1>1 DEF Holding, Goto, TypeOK, In
  <2> QED  BY <1>1, <2>1, Finiteness, FS_AddElement
<1>2. CASE u # user[c]
  <2>1. Holding(u)' = Holding(u)
    BY <1>2 DEF Holding, Goto, TypeOK, In
  <2> QED  BY <1>2, <2>1
<1> QED  BY <1>1, <1>2

\* One that gives its slot back was counted, and is no longer.
LEMMA HoldingLess ==
  ASSUME NEW c \in Conns, TypeOK, Goto(c, "idle"), pc[c] \in In, UNCHANGED user
  PROVE  /\ Cardinality(Holding(user[c])) > 0
         /\ \A u \in Users :
              Cardinality(Holding(u)') =
                IF u = user[c] THEN Cardinality(Holding(u)) - 1
                               ELSE Cardinality(Holding(u))
<1>1. Holding(user[c])' = Holding(user[c]) \ {c} /\ c \in Holding(user[c])
  BY DEF Holding, Goto, TypeOK, In
<1>2. Cardinality(Holding(user[c])') = Cardinality(Holding(user[c])) - 1
  BY <1>1, Finiteness, FS_RemoveElement
<1>3. Holding(user[c]) # {}
  BY <1>1
<1>4. Cardinality(Holding(user[c])) > 0
  BY <1>3, Finiteness, FS_EmptySet
<1>5. \A u \in Users \ {user[c]} : Holding(u)' = Holding(u)
  BY DEF Holding, Goto, TypeOK, In
<1> QED  BY <1>2, <1>4, <1>5

\* Only Join and ServeReturns change who is served.
LEMMA ServedSame ==
  ASSUME NEW c \in Conns, NEW label, pc \in [Conns -> Labels], Goto(c, label),
         pc[c] # "serving", label # "serving"
  PROVE  Served' = Served
BY DEF Served, Goto

-----------------------------------------------------------------------------
\* A relay that has just started has no connection and zero counters.
LEMMA InitIInv == Init => IInv
<1> SUFFICES ASSUME Init PROVE IInv
  OBVIOUS
<1> USE DEF Init, LimiterInit
<1>1. TypeOK
  BY DEF TypeOK, Labels
<1>2. \A u : Holding(u) = {} /\ Served = {}
  BY DEF Holding, Served
<1>3. CountsExact /\ WgExact
  BY <1>2, FS_EmptySet DEF CountsExact, WgExact
<1>4. Bounded
  BY LimiterAssumption DEF Bounded
<1> QED  BY <1>1, <1>3, <1>4 DEF IInv

\* A step of one handler that takes it from label to label without touching a
\* counter or the WaitGroup.
LEMMA QuietStep ==
  ASSUME IInv, NEW c \in Conns, NEW label \in Labels, Goto(c, label),
         pc[c] \in In <=> label \in In, pc[c] # "serving", label # "serving",
         user' \in [Conns -> Users],
         pc[c] \in In => user'[c] = user[c],
         \A d \in Conns \ {c} : user'[d] = user[d],
         cur' \in [Conns -> Nat],
         label = "loaded" => cur'[c] < MaxConns,
         \A d \in Conns \ {c} : cur'[d] = cur[d],
         UNCHANGED <<counts, mainVars>>
  PROVE  IInv'
<1>1. TypeOK'
  BY DEF IInv, TypeOK, Goto, mainVars
<1>2. CountsExact'
  BY HoldingSame DEF IInv, TypeOK, CountsExact
<1>3. WgExact'
  BY ServedSame DEF IInv, TypeOK, WgExact, mainVars
<1>4. Bounded'
  BY DEF IInv, TypeOK, Bounded, Goto
<1> QED  BY <1>1, <1>2, <1>3, <1>4 DEF IInv

\* A swap that succeeds counts the handler that made it, and only it
\* (limiter.go:39).
LEMMA SwapStep ==
  ASSUME IInv, NEW c \in Conns, Swap(c), UNCHANGED mainVars
  PROVE  IInv'
<1>1. CASE counts[user[c]] # cur[c]
  BY <1>1, QuietStep DEF Swap, IInv, TypeOK, Labels, In, Goto
<1>2. CASE counts[user[c]] = cur[c]
  <2>1. /\ Goto(c, "held") /\ pc[c] = "loaded" /\ UNCHANGED <<user, cur>>
        /\ counts' = [counts EXCEPT ![user[c]] = cur[c] + 1]
    BY <1>2 DEF Swap
  <2>2. TypeOK'
    BY <2>1 DEF IInv, TypeOK, Goto, Labels, mainVars
  <2>3. CountsExact'
    BY <1>2, <2>1, HoldingMore DEF IInv, TypeOK, CountsExact, In
  <2>4. WgExact'
    BY <2>1, ServedSame DEF IInv, TypeOK, WgExact, mainVars
  <2>5. Bounded'
    BY <2>1, LimiterAssumption DEF IInv, TypeOK, Bounded, Goto
  <2> QED  BY <2>2, <2>3, <2>4, <2>5 DEF IInv
<1> QED  BY <1>1, <1>2

\* A release takes away the slot of the handler that made it (limiter.go:45).
LEMMA DepartStep ==
  ASSUME IInv, NEW c \in Conns, Depart(c)
  PROVE  IInv'
<1>1. /\ Goto(c, "idle") /\ pc[c] = "served" /\ UNCHANGED <<user, cur, mainVars>>
      /\ counts' = [counts EXCEPT ![user[c]] = @ - 1]
  BY DEF Depart, Release
<1>2. /\ Cardinality(Holding(user[c])) > 0
      /\ \A u \in Users :
           Cardinality(Holding(u)') =
             IF u = user[c] THEN Cardinality(Holding(u)) - 1
                            ELSE Cardinality(Holding(u))
  BY <1>1, HoldingLess DEF IInv, In
<1>3. counts[user[c]] \in Nat /\ counts[user[c]] > 0
  BY <1>2 DEF IInv, TypeOK, CountsExact
<1>4. TypeOK'
  BY <1>1, <1>3 DEF IInv, TypeOK, Goto, Labels, mainVars
<1>5. CountsExact'
  BY <1>1, <1>2 DEF IInv, TypeOK, CountsExact
<1>6. WgExact'
  BY <1>1, ServedSame DEF IInv, TypeOK, WgExact, mainVars
<1>7. Bounded'
  BY <1>1, <1>3, LimiterAssumption DEF IInv, TypeOK, Bounded, Goto
<1> QED  BY <1>4, <1>5, <1>6, <1>7 DEF IInv

\* WG.Add counts the session that begins (handler.go:105).
LEMMA JoinStep ==
  ASSUME IInv, NEW c \in Conns, Join(c)
  PROVE  IInv'
<1>1. Served' = Served \cup {c} /\ c \notin Served
  BY DEF Join, Goto, Served, IInv, TypeOK
<1>2. WgExact'
  BY <1>1, Finiteness, FS_AddElement DEF Join, WgExact, IInv
<1>3. TypeOK'
  BY DEF IInv, TypeOK, Join, Goto, Labels
<1>4. CountsExact'
  BY HoldingSame DEF IInv, TypeOK, CountsExact, Join, In
<1>5. Bounded'
  BY DEF IInv, TypeOK, Bounded, Join, Goto
<1> QED  BY <1>2, <1>3, <1>4, <1>5 DEF IInv

\* WG.Done counts off the one that ends (handler.go:106).
LEMMA ServeReturnsStep ==
  ASSUME IInv, NEW c \in Conns, ServeReturns(c)
  PROVE  IInv'
<1>1. Served' = Served \ {c} /\ c \in Served
  BY DEF ServeReturns, Goto, Served, IInv, TypeOK
<1>2. Served # {}
  BY <1>1
<1>3. Cardinality(Served) > 0
  BY <1>2, Finiteness, FS_EmptySet
<1>4. WgExact'
  BY <1>1, Finiteness, FS_RemoveElement DEF ServeReturns, WgExact, IInv
<1>5. TypeOK'
  BY <1>3 DEF IInv, TypeOK, WgExact, ServeReturns, Goto, Labels
<1>6. CountsExact'
  BY HoldingSame DEF IInv, TypeOK, CountsExact, ServeReturns, In
<1>7. Bounded'
  BY DEF IInv, TypeOK, Bounded, ServeReturns, Goto
<1> QED  BY <1>4, <1>5, <1>6, <1>7 DEF IInv

\* A first message takes no slot yet.
LEMMA FirstMessageStep ==
  ASSUME IInv, NEW c \in Conns, FirstMessage(c)
  PROVE  IInv'
<1>1. /\ pc[c] = "auth" /\ UNCHANGED <<counts, cur, mainVars>>
      /\ \E label \in {"asking", "idle"} : Goto(c, label)
      /\ user' \in [Conns -> Users] /\ \A d \in Conns \ {c} : user'[d] = user[d]
  BY HandlerAssumption DEF FirstMessage, Identify, IInv, TypeOK
<1> QED  BY <1>1, QuietStep DEF IInv, TypeOK, Labels, In

\* main's own steps change no handler.
LEMMA MainStep ==
  ASSUME IInv, Main \/ UNCHANGED vars
  PROVE  IInv'
<1>1. UNCHANGED limiterVars /\ wg' = wg
  BY DEF Main, Signal, Expire, ShutdownReturns, WaitReturns, Exit, vars, mainVars
<1>2. TypeOK'
  BY <1>1 DEF IInv, TypeOK, Main, Signal, Expire, ShutdownReturns, WaitReturns, Exit,
              vars, mainVars, limiterVars
<1>3. CountsExact' /\ WgExact' /\ Bounded'
  BY <1>1 DEF IInv, CountsExact, Holding, WgExact, Served, Bounded, limiterVars
<1> QED  BY <1>2, <1>3 DEF IInv

\* Nor does a load, which only lets a handler swap below the limit.
LEMMA LoadStep ==
  ASSUME IInv, NEW c \in Conns, Load(c), UNCHANGED mainVars
  PROVE  IInv'
<1> DEFINE label == IF counts[user[c]] >= MaxConns THEN "refused" ELSE "loaded"
<1>1. /\ pc[c] = "asking" /\ Goto(c, label) /\ UNCHANGED <<user, counts>>
      /\ cur' = [cur EXCEPT ![c] = counts[user[c]]]
  BY DEF Load
<1>2. label \in {"refused", "loaded"} /\ (label = "loaded" => counts[user[c]] < MaxConns)
  BY LimiterAssumption DEF IInv, TypeOK
<1> HIDE DEF label
<1> QED  BY <1>1, <1>2, QuietStep DEF IInv, TypeOK, Labels, In

\* Every step of handlers and main keeps counters, slots and WaitGroup in step.
LEMMA NextIInv == IInv /\ [Next]_vars => IInv'
<1> SUFFICES ASSUME IInv, [Next]_vars PROVE IInv'
  OBVIOUS
<1>1. ASSUME NEW c \in Conns, Request(c) PROVE IInv'
  BY <1>1, QuietStep DEF Request, IInv, TypeOK, Labels, In
<1>2. ASSUME NEW c \in Conns, Upgrade(c) PROVE IInv'
  BY <1>2, QuietStep DEF Upgrade, IInv, TypeOK, Labels, In
<1>3. ASSUME NEW c \in Conns, NoFirstMessage(c) PROVE IInv'
  BY <1>3, QuietStep DEF NoFirstMessage, IInv, TypeOK, Labels, In
<1>4. ASSUME NEW c \in Conns, TooMany(c) PROVE IInv'
  BY <1>4, QuietStep DEF TooMany, IInv, TypeOK, Labels, In
<1>5. ASSUME NEW c \in Conns, Acquire(c) PROVE IInv'
  BY <1>5, LoadStep, SwapStep DEF Acquire
<1>6. CASE Main \/ UNCHANGED vars
  BY <1>6, MainStep
<1> QED
  BY <1>1, <1>2, <1>3, <1>4, <1>5, <1>6, FirstMessageStep, JoinStep, ServeReturnsStep,
     DepartStep DEF Next, Handle, Over

\* Type correctness: in particular no counter and no WaitGroup goes negative.
THEOREM TypeCorrect == Spec => []TypeOK
<1>1. IInv => TypeOK
  BY DEF IInv
<1> QED  BY InitIInv, NextIInv, <1>1, PTL DEF Spec

\* The counters are exact (limiter.go:24-53).
THEOREM CountsExactHolds == Spec => []CountsExact
<1>1. IInv => CountsExact
  BY DEF IInv
<1> QED  BY InitIInv, NextIInv, <1>1, PTL DEF Spec
-----------------------------------------------------------------------------
\* The refinement. Where a connection stands in the abstract pool.

\* Where SlotPool sees a connection, from where its handler is.
LEMMA PlaceOf ==
  ASSUME NEW c \in Conns
  PROVE  /\ Place[c] = "in" <=> pc[c] \in In
         /\ Place[c] = "asking" <=> pc[c] \in {"asking", "loaded"}
         /\ Place[c] = "refused" <=> pc[c] = "refused"
         /\ Place[c] = "out" <=> pc[c] \notin In \cup {"asking", "loaded", "refused"}
BY DEF Place, In

\* SlotPool counts with the same cardinality.
LEMMA SameCardinality == \A S : Pool!Cardinality(S) = Cardinality(S)
BY DEF Pool!Cardinality, Cardinality

\* The connections inside are the handlers that hold a slot.
LEMMA InsideIsHolding ==
  \A u \in Users : Pool!Cardinality(Pool!Inside(u)) = Cardinality(Holding(u))
<1>1. \A u \in Users : Pool!Inside(u) = Holding(u)
  BY PlaceOf DEF Pool!Inside, Holding, In
<1> QED  BY <1>1, SameCardinality

\* One handler moves: its place, and no other, becomes what the new label says.
LEMMA PlaceMoves ==
  ASSUME NEW c \in Conns, NEW label, pc \in [Conns -> Labels], Goto(c, label),
         NEW place, label \in {"asking", "loaded"} => place = "asking",
         label \in In => place = "in", label = "refused" => place = "refused",
         label \notin In \cup {"asking", "loaded", "refused"} => place = "out"
  PROVE  Place' = [Place EXCEPT ![c] = place]
<1>1. pc'[c] = label /\ \A d \in Conns \ {c} : pc'[d] = pc[d]
  BY DEF Goto
<1>2. Place'[c] = place
  BY <1>1 DEF Place, In
<1>3. \A d \in Conns \ {c} : Place'[d] = Place[d]
  BY <1>1 DEF Place
<1> QED  BY <1>2, <1>3 DEF Place

\* A step that keeps every place is a stutter of SlotPool.
LEMMA PlaceStays ==
  ASSUME NEW c \in Conns, NEW label, pc \in [Conns -> Labels], Goto(c, label),
         \/ {pc[c], label} \subseteq {"asking", "loaded"}
         \/ {pc[c], label} \subseteq In
         \/ {pc[c], label} \cap (In \cup {"asking", "loaded", "refused"}) = {}
  PROVE  Place' = Place
<1>1. pc'[c] = label /\ \A d \in Conns \ {c} : pc'[d] = pc[d]
  BY DEF Goto
<1>2. Place'[c] = Place[c]
  BY <1>1 DEF Place, In
<1>3. \A d \in Conns \ {c} : Place'[d] = Place[d]
  BY <1>1 DEF Place
<1> QED  BY <1>2, <1>3 DEF Place

\* The initial states map to initial states of SlotPool.
LEMMA InitRefines == Init => Pool!PoolInit
BY DEF Init, LimiterInit, Pool!PoolInit, Place

\* A successful swap is an admission, a failed one a stutter.
LEMMA SwapRefines ==
  ASSUME IInv, NEW c \in Conns, Swap(c)
  PROVE  Pool!Grant(c) \/ UNCHANGED Pool!poolVars
<1>1. CASE counts[user[c]] = cur[c]
  <2>1. Place[c] = "asking" /\ UNCHANGED user
    BY PlaceOf DEF Swap
  <2>2. Place' = [Place EXCEPT ![c] = "in"]
    BY <1>1, PlaceMoves DEF Swap, IInv, TypeOK, In
  <2>3. Pool!Cardinality(Pool!Inside(user[c])) < MaxConns
    BY <1>1, InsideIsHolding DEF Swap, IInv, TypeOK, CountsExact, Bounded
  <2> QED  BY <2>1, <2>2, <2>3 DEF Pool!Grant
<1>2. CASE counts[user[c]] # cur[c]
  BY <1>2, PlaceStays DEF Swap, IInv, TypeOK, Pool!poolVars
<1> QED  BY <1>1, <1>2

\* A load at the limit is a refusal at a moment when all slots are taken.
LEMMA LoadRefines ==
  ASSUME IInv, NEW c \in Conns, Load(c)
  PROVE  Pool!Refuse(c) \/ UNCHANGED Pool!poolVars
<1>1. CASE counts[user[c]] >= MaxConns
  <2>1. Place[c] = "asking" /\ UNCHANGED user
    BY PlaceOf DEF Load
  <2>2. Goto(c, "refused")
    BY <1>1 DEF Load
  <2>3. Place' = [Place EXCEPT ![c] = "refused"]
    BY <2>2, PlaceMoves DEF IInv, TypeOK, In
  <2>4. Pool!Cardinality(Pool!Inside(user[c])) = MaxConns
    BY <1>1, InsideIsHolding, LimiterAssumption DEF IInv, TypeOK, CountsExact, Bounded
  <2> QED  BY <2>1, <2>3, <2>4 DEF Pool!Refuse
<1>2. CASE ~(counts[user[c]] >= MaxConns)
  <2>1. Goto(c, "loaded") /\ pc[c] = "asking" /\ UNCHANGED user
    BY <1>2 DEF Load
  <2> QED  BY <2>1, PlaceStays DEF IInv, TypeOK, Pool!poolVars
<1> QED  BY <1>1, <1>2

\* A first message is a request for a slot, or the end of a connection.
LEMMA FirstMessageRefines ==
  ASSUME IInv, NEW c \in Conns, FirstMessage(c)
  PROVE  (\E u \in Users : Pool!Ask(c, u)) \/ UNCHANGED Pool!poolVars
<1>1. CASE Goto(c, "idle") /\ UNCHANGED user
  BY <1>1, PlaceStays DEF FirstMessage, Identify, IInv, TypeOK, In, Pool!poolVars
<1>2. ASSUME NEW u \in Users, Goto(c, "asking"), user' = [user EXCEPT ![c] = u]
      PROVE  Pool!Ask(c, u)
  <2>1. Place[c] = "out"
    BY PlaceOf DEF FirstMessage, Identify, In
  <2>2. Place' = [Place EXCEPT ![c] = "asking"]
    BY <1>2, PlaceMoves DEF IInv, TypeOK, In
  <2> QED  BY <1>2, <2>1, <2>2 DEF Pool!Ask
<1>3. \/ Goto(c, "idle") /\ UNCHANGED user
      \/ \E u \in Users : Goto(c, "asking") /\ user' = [user EXCEPT ![c] = u]
  BY HandlerAssumption DEF FirstMessage, Identify
<1> QED  BY <1>1, <1>2, <1>3

\* Both ways out of the pool.
LEMMA LeaveRefines ==
  ASSUME IInv, NEW c \in Conns, Depart(c) \/ TooMany(c)
  PROVE  Pool!Leave(c)
<1>1. Goto(c, "idle") /\ pc[c] \in {"served", "refused"} /\ UNCHANGED user
  BY DEF Depart, Release, TooMany
<1>2. Place[c] \in {"in", "refused"}
  BY <1>1, PlaceOf DEF In
<1>3. Place' = [Place EXCEPT ![c] = "out"]
  BY <1>1, PlaceMoves DEF IInv, TypeOK, In
<1> QED  BY <1>1, <1>2, <1>3 DEF Pool!Leave

\* Every step is a step of SlotPool or a stutter.
LEMMA NextRefines == IInv /\ [Next]_vars => [Pool!PoolNext]_(Pool!poolVars)
<1> SUFFICES ASSUME IInv, [Next]_vars
             PROVE  Pool!PoolNext \/ UNCHANGED Pool!poolVars
  OBVIOUS
<1>1. ASSUME NEW c \in Conns,
             Request(c) \/ Upgrade(c) \/ NoFirstMessage(c) \/ Join(c) \/ ServeReturns(c)
      PROVE  UNCHANGED Pool!poolVars
  <2>1. UNCHANGED user
    BY <1>1 DEF Request, Upgrade, NoFirstMessage, Join, ServeReturns
  <2>2. Place' = Place
    BY <1>1, PlaceStays
       DEF Request, Upgrade, NoFirstMessage, Join, ServeReturns, IInv, TypeOK, In
  <2> QED  BY <2>1, <2>2 DEF Pool!poolVars
<1>2. ASSUME NEW c \in Conns, Acquire(c)
      PROVE  Pool!Grant(c) \/ Pool!Refuse(c) \/ UNCHANGED Pool!poolVars
  BY <1>2, SwapRefines, LoadRefines DEF Acquire
<1>3. CASE Main \/ UNCHANGED vars
  <2>1. UNCHANGED limiterVars
    BY <1>3 DEF Main, Signal, Expire, ShutdownReturns, WaitReturns, Exit, vars
  <2> QED  BY <2>1 DEF limiterVars, Place, Pool!poolVars
<1>4. ASSUME NEW c \in Conns, Request(c) \/ FirstMessage(c) \/ Handle(c) \/ ServeReturns(c)
      PROVE  Pool!PoolNext \/ UNCHANGED Pool!poolVars
  BY <1>1, <1>2, <1>4, FirstMessageRefines, LeaveRefines DEF Handle, Pool!PoolNext
<1> QED  BY <1>3, <1>4 DEF Next, Over

\* The handlers and their limiter implement SlotPool: no user ever has more than
\* MaxConns slots, and none is refused while one of its slots is free
\* (handler.go:94-99, limiter.go:24-53).
THEOREM SlotPoolImplemented == Spec => ImplementsSlotPool
<1> QED
  BY InitIInv, NextIInv, InitRefines, NextRefines, PTL
     DEF Spec, ImplementsSlotPool, Pool!PoolSpec

\* The wait for the sessions ends when the WaitGroup is at zero, and then no
\* session that joined it is still served (relay-exec main.go:160-171).
THEOREM DrainedSessionsDoneHolds == Spec => DrainedSessionsDone
<1>1. IInv /\ [Next]_vars => [done' # done => \A c \in Conns : pc[c] # "serving"]_vars
  <2> SUFFICES ASSUME IInv, Next, done' # done, NEW c \in Conns PROVE pc[c] # "serving"
    OBVIOUS
  <2>1. WaitReturns
    BY DEF Next, Main, Request, FirstMessage, Identify, Handle, Upgrade, NoFirstMessage,
           Acquire, TooMany, Join, Depart, ServeReturns, Signal, Expire, ShutdownReturns,
           Exit, Over, vars, mainVars
  <2>2. Cardinality(Served) = 0
    BY <2>1 DEF WaitReturns, IInv, WgExact
  <2>3. Served = {}
    BY <2>2, Finiteness, FS_EmptySet
  <2> QED  BY <2>3 DEF Served
<1> QED  BY <1>1, InitIInv, NextIInv, PTL DEF Spec, DrainedSessionsDone
=============================================================================
