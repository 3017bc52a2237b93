---------------------------- MODULE Grader_proofs ----------------------------
(***************************************************************************)
(* For any tasks, assets, chunks and clients: type correctness, that no    *)
(* grade is withheld from a client, that no dead connection stays          *)
(* registered, that grades are earned, and that none is missed but for     *)
(* lines trimmed before they were matched.                                 *)
(***************************************************************************)
EXTENDS Grader, SequenceTheorems, TLAPS

-----------------------------------------------------------------------------
(* What the operators on lines return.                                     *)

\* Two pieces of a line make a line.
LEMMA LineUnion == \A x, y \in Line : x \cup y \in Line
BY DEF Line

\* The pieces of a chunk, the first joined to the line under way.
Segments(start, chunk) == <<start \cup Head(chunk)>> \o Tail(chunk)

\* The segments of a chunk are lines, as many as it has pieces.
LEMMA SegmentsType ==
  ASSUME NEW start \in Line, NEW chunk \in Seq(Line), chunk # <<>>
  PROVE  /\ Segments(start, chunk) \in Seq(Line)
         /\ Len(Segments(start, chunk)) = Len(chunk)
         /\ Front(Segments(start, chunk)) \in Seq(Line)
         /\ Last(Segments(start, chunk)) \in Line
<1> DEFINE s == Segments(start, chunk)
<1>1. Head(chunk) \in Line /\ Tail(chunk) \in Seq(Line) /\ Len(Tail(chunk)) = Len(chunk) - 1
      /\ Len(chunk) \in Nat \ {0}
  OBVIOUS
<1>2. <<start \cup Head(chunk)>> \in Seq(Line)
  BY <1>1, LineUnion
<1>3. s \in Seq(Line) /\ Len(s) = Len(chunk)
  BY <1>1, <1>2 DEF Segments
<1> HIDE DEF s
<1>4. Front(s) \in Seq(Line) /\ Last(s) \in Line
  BY <1>1, <1>3 DEF Front, Last
<1> QED  BY <1>3, <1>4 DEF s

\* Keep returns the end of a sequence, and no more of it than the ring holds.
LEMMA KeepIsSuffix ==
  ASSUME NEW S, NEW seq \in Seq(S)
  PROVE  /\ Keep(seq) \in Seq(S) /\ Len(Keep(seq)) <= Ring
         /\ \E n \in Nat : /\ Len(seq) = n + Len(Keep(seq))
                           /\ \A i \in 1 .. Len(Keep(seq)) : Keep(seq)[i] = seq[n + i]
<1>0. Ring \in Nat /\ Ring > 0
  BY GraderAssumption
<1>1. CASE Len(seq) <= Ring
  <2>1. Keep(seq) = seq
    BY <1>0, <1>1 DEF Keep
  <2> QED  BY <1>1, <2>1
<1>2. CASE Len(seq) > Ring
  <2> DEFINE n == Len(seq) - Ring
  <2>1. Keep(seq) = SubSeq(seq, n + 1, Len(seq)) /\ n \in Nat
    BY <1>0, <1>2 DEF Keep, Latest
  <2>2. Keep(seq) \in Seq(S) /\ Len(Keep(seq)) = Ring
    BY <1>0, <1>2, <2>1
  <2>3. \A i \in 1 .. Ring : Keep(seq)[i] = seq[n + i]
    BY <1>0, <1>2, <2>1
  <2>4. n \in Nat /\ Len(seq) = n + Len(Keep(seq))
    BY <1>0, <1>2, <2>2
  <2>5. \A i \in 1 .. Len(Keep(seq)) : Keep(seq)[i] = seq[n + i]
    BY <2>2, <2>3
  <2> HIDE DEF n
  <2>6. Len(Keep(seq)) <= Ring
    BY <1>0, <2>2
  <2> QED  BY <2>2, <2>4, <2>5, <2>6
<1> QED  BY <1>0, <1>1, <1>2

-----------------------------------------------------------------------------
(* Type correctness.                                                       *)

\* A grader that has just started is well typed.
LEMMA InitType == Init => TypeOK
<1> SUFFICES ASSUME Init PROVE TypeOK
  OBVIOUS
<1>1. <<>> \in Seq(Line) /\ Len(<<>>) = 0 /\ {} \in Line /\ Ring \in Nat
  BY GraderAssumption DEF Line
<1>2. lines \in [Assets -> Seq(Line)] /\ \A a \in Assets : Len(lines[a]) <= Ring
  BY <1>1, GraderAssumption DEF Init
<1>3. printed \in [Assets -> Seq(Line)] /\ pushedOut \in [Assets -> SUBSET Tasks]
  BY <1>1 DEF Init
<1>4. partial \in [Assets -> Line] /\ tail \in [Assets -> Line]
  BY <1>1 DEF Init
<1>5. /\ snap \in [Clients -> SUBSET grades] /\ told \in [Clients -> SUBSET grades]
      /\ screen \in [Clients -> SUBSET Valid]
  BY DEF Init
<1> QED  BY <1>2, <1>3, <1>4, <1>5 DEF Init, TypeOK

\* Taking in a chunk keeps the types of buffers and grades, wherever the chunk
\* comes from.
LEMMA IngestType ==
  ASSUME TypeOK, NEW a \in Assets, NEW chunk \in Chunks,
         Ingest(a, chunk), UNCHANGED clientVars,
         printed' \in [Assets -> Seq(Line)], tail' \in [Assets -> Line]
  PROVE  TypeOK'
<1> DEFINE s    == Segments(partial[a], chunk)
           kept == [lines EXCEPT ![a] = Keep(lines[a] \o Front(s))]
           passed == IF Front(s) = <<>> THEN {} ELSE NewlyPassed(a, kept)
<1>1. chunk \in Seq(Line) /\ chunk # <<>>
  BY GraderAssumption
<1>2. partial[a] \in Line /\ lines[a] \in Seq(Line)
  BY DEF TypeOK
<1>3. Front(s) \in Seq(Line) /\ Last(s) \in Line
  BY <1>1, <1>2, SegmentsType
<1>4. /\ partial' = [partial EXCEPT ![a] = Last(s)] /\ lines' = kept
      /\ grades' = grades \cup passed /\ Broadcast(passed)
  BY DEF Ingest, Split, Segments
<1>5. lines[a] \o Front(s) \in Seq(Line)
  BY <1>2, <1>3
<1>6. Keep(lines[a] \o Front(s)) \in Seq(Line) /\ Len(Keep(lines[a] \o Front(s))) <= Ring
  BY <1>5, KeepIsSuffix
<1>7. passed \subseteq Valid
  BY DEF NewlyPassed
<1>12. pushedOut' \in [Assets -> SUBSET Tasks]
  <2>1. PICK all : pushedOut' =
          [pushedOut EXCEPT ![a] = @ \cup {t \in Tasks : TooFarBack(t, all)}]
    BY DEF Ingest
  <2>2. pushedOut[a] \cup {t \in Tasks : TooFarBack(t, all)} \in SUBSET Tasks
    BY DEF TypeOK
  <2> QED  BY <2>1, <2>2 DEF TypeOK
<1> HIDE DEF s, passed
<1>8. partial' \in [Assets -> Line]
  BY <1>3, <1>4 DEF TypeOK
<1>9. lines' \in [Assets -> Seq(Line)] /\ \A b \in Assets : Len(lines'[b]) <= Ring
  BY <1>4, <1>6 DEF TypeOK
<1>10. /\ grades' \subseteq Valid /\ grades \subseteq grades' /\ sending' \in BOOLEAN
       /\ payload' \subseteq grades' /\ todo' \subseteq Clients
  BY <1>4, <1>7 DEF TypeOK, Broadcast
<1>11. /\ clients' \subseteq Clients
       /\ pc' \in [Clients -> {"closed", "accepted", "greeting", "reading", "leaving"}]
       /\ link' \in [Clients -> {"up", "stalled", "gone"}]
       /\ snap' \in [Clients -> SUBSET grades'] /\ told' \in [Clients -> SUBSET grades']
       /\ screen' \in [Clients -> SUBSET Valid]
  BY <1>10 DEF TypeOK, clientVars
<1> QED  BY <1>8, <1>9, <1>10, <1>11, <1>12 DEF TypeOK

\* Printing a chunk keeps the types of what was printed.
LEMMA OutputType ==
  ASSUME TypeOK, NEW a \in Assets, NEW chunk \in Chunks, Output(a, chunk)
  PROVE  printed' \in [Assets -> Seq(Line)] /\ tail' \in [Assets -> Line]
<1>1. chunk \in Seq(Line) /\ chunk # <<>> /\ tail[a] \in Line /\ printed[a] \in Seq(Line)
  BY GraderAssumption DEF TypeOK
<1>2. /\ Front(Segments(tail[a], chunk)) \in Seq(Line)
      /\ Last(Segments(tail[a], chunk)) \in Line
  BY <1>1, SegmentsType
<1>3. /\ printed' = [printed EXCEPT ![a] = @ \o Front(Segments(tail[a], chunk))]
      /\ tail' = [tail EXCEPT ![a] = Last(Segments(tail[a], chunk))]
  BY DEF Output, Segments
<1>4. printed[a] \o Front(Segments(tail[a], chunk)) \in Seq(Line)
  BY <1>1, <1>2
<1> QED  BY <1>2, <1>3, <1>4 DEF TypeOK

\* So does one that arrives as it is printed.
LEMMA PrintedType ==
  ASSUME TypeOK, NEW a \in Assets, NEW chunk \in Chunks, Printed(a, chunk)
  PROVE  TypeOK'
<1>1. Output(a, chunk) /\ Ingest(a, chunk) /\ UNCHANGED clientVars
  BY DEF Printed
<1> QED  BY <1>1, OutputType, IngestType

\* A message that carries grades leaves what a frontend shows, and was told, grades.
LEMMA ShowType ==
  ASSUME TypeOK, NEW c \in Clients, NEW map \in SUBSET grades, Show(c, map)
  PROVE  screen' \in [Clients -> SUBSET Valid] /\ told' \in [Clients -> SUBSET grades]
<1>1. told[c] \cup map \in SUBSET grades /\ map \in SUBSET Valid
  BY DEF TypeOK
<1> QED  BY <1>1 DEF Show, TypeOK

\* Every step of terminals, grader and clients keeps the types.
LEMMA TypeStep == TypeOK /\ [Next]_vars => TypeOK'
<1> SUFFICES ASSUME TypeOK, [Next]_vars PROVE TypeOK'
  OBVIOUS
<1> USE DEF gradeVars, castVars, clientVars, printVars
<1>1. ASSUME NEW c \in Clients, WriteGrades(c) PROVE TypeOK'
  <2>1. screen' \in [Clients -> SUBSET Valid] /\ told' \in [Clients -> SUBSET grades]
    BY <1>1, ShowType DEF WriteGrades, TypeOK
  <2>2. todo' \subseteq Clients /\ clients' \subseteq Clients
    BY <1>1 DEF WriteGrades, TypeOK
  <2>3. UNCHANGED <<gradeVars, sending, payload, pc, snap, link, printVars>>
    BY <1>1 DEF WriteGrades
  <2> QED  BY <2>1, <2>2, <2>3 DEF TypeOK
<1>2. ASSUME NEW c \in Clients, Greet(c) PROVE TypeOK'
  <2>1. snap[c] \in SUBSET grades
    BY DEF TypeOK
  <2>2. screen' \in [Clients -> SUBSET Valid] /\ told' \in [Clients -> SUBSET grades]
    BY <1>2, <2>1, ShowType DEF Greet, TypeOK
  <2>3. pc' \in [Clients -> {"closed", "accepted", "greeting", "reading", "leaving"}]
    BY <1>2 DEF Greet, TypeOK
  <2>4. UNCHANGED <<gradeVars, castVars, clients, snap, link, printVars>>
    BY <1>2 DEF Greet
  <2> QED  BY <2>2, <2>3, <2>4 DEF TypeOK
<1> USE DEF TypeOK
<1>3. ASSUME NEW c \in Clients, Connect(c) PROVE TypeOK'
  BY <1>3 DEF Connect
<1>4. ASSUME NEW c \in Clients, Register(c) PROVE TypeOK'
  BY <1>4 DEF Register
<1>5. ASSUME NEW c \in Clients, ReadFails(c) \/ Deregister(c) PROVE TypeOK'
  BY <1>5 DEF ReadFails, Deregister
<1>6. ASSUME NEW c \in Clients, LinkChanges(c) PROVE TypeOK'
  BY <1>6 DEF LinkChanges
<1>7. CASE Written
  BY <1>7 DEF Written
<1>8. CASE UNCHANGED vars
  BY <1>8 DEF vars
<1> QED
  BY <1>1, <1>2, <1>3, <1>4, <1>5, <1>6, <1>7, <1>8, PrintedType DEF Next, Serve

\* Type correctness: the ring stays within its capacity, only valid tasks pass,
\* and no message carries a grade that is not one.
THEOREM TypeCorrect == Spec => []TypeOK
BY InitType, TypeStep, PTL DEF Spec
-----------------------------------------------------------------------------
(* Delivery.                                                               *)

\* What broadcast and greeting still owe client c.
Owed(c) == (IF c \in todo THEN payload ELSE {}) \cup (IF pc[c] = "greeting" THEN snap[c] ELSE {})

\* Connected clients are registered, and every grade was told or is owed.
CastInv ==
  /\ sending => payload = grades
  /\ ~sending => todo = {}
  /\ \A c \in Clients : pc[c] \in {"greeting", "reading"} /\ link[c] # "gone" =>
       c \in clients /\ grades \subseteq told[c] \cup Owed(c)
  /\ NoGhostClient

\* Nothing is owed to clients before the first grade.
LEMMA InitCast == Init => CastInv
BY DEF Init, CastInv, NoGhostClient

\* A chunk taken in makes the grades it earns owed to every registered client.
LEMMA IngestCast ==
  ASSUME TypeOK, CastInv, NEW a, NEW chunk, Ingest(a, chunk), UNCHANGED clientVars
  PROVE  CastInv'
<1> USE DEF CastInv, NoGhostClient, Owed
<1>1. PICK passed : grades' = grades \cup passed /\ Broadcast(passed)
  BY DEF Ingest
<1>2. ~sending /\ UNCHANGED <<clients, pc, snap, link, screen, told>>
  BY DEF Ingest, clientVars
<1>3. CASE passed = {}
  BY <1>1, <1>2, <1>3 DEF Broadcast
<1>4. CASE passed # {}
  BY <1>1, <1>2, <1>4 DEF Broadcast
<1> QED  BY <1>3, <1>4

\* Whatever a client has not been told it is owed: by the broadcast under way,
\* or by its greeting (broadcastLocked and Serve, between which the mutex is
\* free).
LEMMA CastStep == TypeOK /\ CastInv /\ [Next]_vars => CastInv'
<1> SUFFICES ASSUME TypeOK, CastInv, [Next]_vars PROVE CastInv'
  OBVIOUS
<1> USE DEF CastInv, NoGhostClient, Owed
<1>1. ASSUME NEW a \in Assets, NEW chunk \in Chunks, Printed(a, chunk)
      PROVE  CastInv'
  BY <1>1, IngestCast DEF Printed
<1>2. ASSUME NEW c \in Clients, WriteGrades(c) PROVE CastInv'
  <2>1. /\ sending /\ c \in todo /\ todo' = todo \ {c}
        /\ UNCHANGED <<grades, sending, payload, pc, snap, link>>
    BY <1>2 DEF WriteGrades, gradeVars
  <2>2. CASE link[c] = "gone"
    <3>1. clients' \in {clients, clients \ {c}} /\ UNCHANGED told
      BY <1>2, <2>2 DEF WriteGrades
    <3> QED  BY <2>1, <2>2, <3>1
  <2>3. CASE link[c] # "gone"
    <3>1. UNCHANGED clients /\ told' = [told EXCEPT ![c] = @ \cup payload]
      BY <1>2, <2>3 DEF WriteGrades, Show
    <3>2. \A d \in Clients : told[d] \subseteq told'[d]
      BY <3>1 DEF TypeOK
    <3>3. payload \subseteq told'[c]
      BY <3>1 DEF TypeOK
    <3> QED  BY <2>1, <3>1, <3>2, <3>3
  <2> QED  BY <2>2, <2>3
<1>3. ASSUME NEW c \in Clients, Connect(c) PROVE CastInv'
  BY <1>3 DEF Connect, TypeOK, gradeVars, castVars
<1>4. ASSUME NEW c \in Clients, Register(c) PROVE CastInv'
  BY <1>4 DEF Register, TypeOK, gradeVars, castVars
<1>5. ASSUME NEW c \in Clients, Greet(c) PROVE CastInv'
  <2>1. /\ pc[c] = "greeting"
        /\ UNCHANGED <<grades, sending, payload, todo, clients, snap, link>>
    BY <1>5 DEF Greet, gradeVars, castVars
  <2>2. CASE link[c] = "gone"
    <3>1. UNCHANGED told /\ \E label \in {"reading", "leaving"} : pc' = [pc EXCEPT ![c] = label]
      BY <1>5, <2>2 DEF Greet
    <3> QED  BY <2>1, <2>2, <3>1 DEF TypeOK
  <2>3. CASE link[c] # "gone"
    <3>1. /\ told' = [told EXCEPT ![c] = @ \cup snap[c]]
          /\ pc' = [pc EXCEPT ![c] = "reading"]
      BY <1>5, <2>3 DEF Greet, Show
    <3>2. /\ told'[c] = told[c] \cup snap[c] /\ pc'[c] = "reading"
          /\ \A d \in Clients \ {c} : told'[d] = told[d] /\ pc'[d] = pc[d]
      BY <3>1 DEF TypeOK
    <3>3. \A d \in Clients : told'[d] \cup Owed(d)' = told[d] \cup Owed(d)
      BY <2>1, <3>2
    <3>4. NoGhostClient'
      BY <2>1, <3>2 DEF TypeOK
    <3> HIDE DEF Owed
    <3> QED  BY <2>1, <3>2, <3>3, <3>4
  <2> QED  BY <2>2, <2>3
<1>6. ASSUME NEW c \in Clients, ReadFails(c) \/ Deregister(c) PROVE CastInv'
  <2>1. /\ UNCHANGED <<grades, sending, payload, todo, snap, link, told>>
        /\ pc'[c] \in {"leaving", "closed"} /\ clients' \in {clients, clients \ {c}}
        /\ pc'[c] = "closed" => c \notin clients'
        /\ \A d \in Clients \ {c} : pc'[d] = pc[d]
    BY <1>6 DEF ReadFails, Deregister, TypeOK, gradeVars, castVars
  <2>2. NoGhostClient'
    BY <2>1 DEF TypeOK
  <2> QED  BY <2>1, <2>2
<1>7. ASSUME NEW c \in Clients, LinkChanges(c) PROVE CastInv'
  <2>1. /\ link[c] # "gone" /\ \A d \in Clients \ {c} : link'[d] = link[d]
        /\ UNCHANGED <<grades, sending, payload, todo, clients, pc, snap, told>>
    BY <1>7 DEF LinkChanges, TypeOK, gradeVars, castVars
  <2> QED  BY <2>1
<1>8. CASE Written
  BY <1>8 DEF Written, gradeVars, clientVars
<1>9. CASE UNCHANGED vars
  BY <1>9 DEF vars, gradeVars, castVars, clientVars
<1> QED
  BY <1>1, <1>2, <1>3, <1>4, <1>5, <1>6, <1>7, <1>8, <1>9 DEF Next, Serve

\* So this holds in every reachable state.
LEMMA CastInvHolds == Spec => []CastInv
BY InitType, TypeStep, InitCast, CastStep, PTL DEF Spec

\* Every grade reaches every greeted client, though the order is not promised
\* (backend.go:126-170).
THEOREM NothingWithheldHolds == Spec => []NothingWithheld
<1>1. CastInv => NothingWithheld
  BY DEF CastInv, NothingWithheld, Owed
<1> QED  BY <1>1, CastInvHolds, PTL

\* No dead connection stays registered (backend.go:164-176).
THEOREM NoGhostClientHolds == Spec => []NoGhostClient
<1>1. CastInv => NoGhostClient
  BY DEF CastInv
<1> QED  BY <1>1, CastInvHolds, PTL
-----------------------------------------------------------------------------
(* Earned grades.                                                          *)

\* The sequence `end` is the end of the sequence `whole`.
EndOf(end, whole) ==
  \E n \in Nat : /\ Len(whole) = n + Len(end)
                 /\ \A i \in 1 .. Len(end) : end[i] = whole[n + i]

\* What matches the end of the output matches the output.
LEMMA EndMatches ==
  ASSUME NEW t \in Tasks, NEW end \in Seq(Line), NEW whole \in Seq(Line),
         EndOf(end, whole), Matches(t, end)
  PROVE  Matches(t, whole)
<1>1. PICK n \in Nat : /\ Len(whole) = n + Len(end)
                       /\ \A i \in 1 .. Len(end) : end[i] = whole[n + i]
  BY DEF EndOf
<1>2. PICK i \in 0 .. Len(end) - Len(Template[t]) :
        \A j \in 1 .. Len(Template[t]) : Template[t][j] \subseteq end[i + j]
  BY DEF Matches
<1>3. Len(Template[t]) \in Nat /\ Len(end) \in Nat
  BY GraderAssumption
<1> DEFINE e == Len(end)
           l == Len(Template[t])
<1>4. n + i \in 0 .. Len(whole) - Len(Template[t])
  <2>1. e \in Nat /\ l \in Nat /\ i \in 0 .. e - l /\ Len(whole) = n + e
    BY <1>1, <1>3
  <2> HIDE DEF e, l
  <2>2. n + i \in 0 .. (n + e) - l
    BY <2>1
  <2> QED  BY <2>1, <2>2 DEF l
<1>5. \A j \in 1 .. Len(Template[t]) : Template[t][j] \subseteq whole[(n + i) + j]
  <2> SUFFICES ASSUME NEW j \in 1 .. Len(Template[t])
               PROVE  Template[t][j] \subseteq whole[(n + i) + j]
    OBVIOUS
  <2>1. i + j \in 1 .. Len(end) /\ n + (i + j) = (n + i) + j
    BY <1>3
  <2>2. end[i + j] = whole[(n + i) + j]
    BY <1>1, <2>1
  <2> QED  BY <1>2, <2>2
<1> QED  BY <1>4, <1>5 DEF Matches

\* What matches still matches when more is printed.
LEMMA MoreMatches ==
  ASSUME NEW t \in Tasks, NEW seq \in Seq(Line), NEW more \in Seq(Line), Matches(t, seq)
  PROVE  Matches(t, seq \o more)
<1>1. PICK i \in 0 .. Len(seq) - Len(Template[t]) :
        \A j \in 1 .. Len(Template[t]) : Template[t][j] \subseteq seq[i + j]
  BY DEF Matches
<1>2. Len(Template[t]) \in Nat /\ Len(seq) \in Nat /\ Len(more) \in Nat
      /\ Len(seq \o more) = Len(seq) + Len(more)
  BY GraderAssumption
<1>3. i \in 0 .. Len(seq \o more) - Len(Template[t])
  BY <1>2
<1>4. \A j \in 1 .. Len(Template[t]) : (seq \o more)[i + j] = seq[i + j]
  BY <1>2
<1> QED  BY <1>1, <1>3, <1>4 DEF Matches

\* Adding the same lines to both, and keeping the end of one of them.
LEMMA EndGrows ==
  ASSUME NEW end \in Seq(Line), NEW whole \in Seq(Line), NEW more \in Seq(Line),
         EndOf(end, whole)
  PROVE  EndOf(Keep(end \o more), whole \o more)
<1>1. PICK n \in Nat : /\ Len(whole) = n + Len(end)
                       /\ \A i \in 1 .. Len(end) : end[i] = whole[n + i]
  BY DEF EndOf
<1>2. end \o more \in Seq(Line) /\ Len(end \o more) = Len(end) + Len(more)
      /\ Len(whole \o more) = Len(whole) + Len(more)
      /\ Len(end) \in Nat /\ Len(more) \in Nat
  OBVIOUS
<1>3. \A i \in 1 .. Len(end \o more) : (end \o more)[i] = (whole \o more)[n + i]
  BY <1>1, <1>2
<1>4. /\ Keep(end \o more) \in Seq(Line)
      /\ \E m \in Nat :
           /\ Len(end \o more) = m + Len(Keep(end \o more))
           /\ \A i \in 1 .. Len(Keep(end \o more)) : Keep(end \o more)[i] = (end \o more)[m + i]
  BY <1>2, KeepIsSuffix
<1> DEFINE kept == Keep(end \o more)
<1>5. PICK m \in Nat : /\ Len(end \o more) = m + Len(kept)
                       /\ \A i \in 1 .. Len(kept) : kept[i] = (end \o more)[m + i]
  BY <1>4
<1>6. Len(kept) \in Nat
  BY <1>4
<1> HIDE DEF kept
<1>7. n + m \in Nat /\ Len(whole \o more) = (n + m) + Len(kept)
  BY <1>1, <1>2, <1>5, <1>6
<1>8. \A i \in 1 .. Len(kept) : kept[i] = (whole \o more)[(n + m) + i]
  <2> SUFFICES ASSUME NEW i \in 1 .. Len(kept)
               PROVE  kept[i] = (whole \o more)[(n + m) + i]
    OBVIOUS
  <2>1. m + i \in 1 .. Len(end \o more) /\ n + (m + i) = (n + m) + i
    BY <1>2, <1>5, <1>6
  <2> QED  BY <1>3, <1>5, <2>1
<1> QED  BY <1>7, <1>8 DEF EndOf, kept

\* Each asset's buffer holds the end of what its terminals printed.
Buffered == \A a \in Assets : partial[a] = tail[a] /\ EndOf(lines[a], printed[a])

EarnInv == Buffered /\ GradeEarned

\* Empty buffers hold nothing that was not printed.
LEMMA InitEarn == Init => EarnInv
<1> SUFFICES ASSUME Init, NEW a \in Assets
             PROVE  partial[a] = tail[a] /\ EndOf(lines[a], printed[a])
  BY DEF EarnInv, Buffered, GradeEarned, Init
<1>1. EndOf(<<>>, <<>>)
  BY DEF EndOf
<1> QED  BY <1>1 DEF Init

\* After a chunk the buffers still end what the terminals printed, and what
\* newly passes matches it (Ingest).
LEMMA PrintedEarn ==
  ASSUME TypeOK, EarnInv, NEW a \in Assets, NEW chunk \in Chunks, Printed(a, chunk)
  PROVE  EarnInv'
<1> DEFINE more == Front(Segments(tail[a], chunk))
           kept == [lines EXCEPT ![a] = Keep(lines[a] \o more)]
           passed == IF more = <<>> THEN {} ELSE NewlyPassed(a, kept)
<1>1. chunk \in Seq(Line) /\ chunk # <<>>
  BY GraderAssumption
<1>2. partial[a] = tail[a] /\ tail[a] \in Line
  BY DEF EarnInv, Buffered, TypeOK
<1>3. /\ partial' = [partial EXCEPT ![a] = Last(Segments(tail[a], chunk))]
      /\ tail' = [tail EXCEPT ![a] = Last(Segments(tail[a], chunk))]
      /\ lines' = kept /\ grades' = grades \cup passed
      /\ printed' = [printed EXCEPT ![a] = @ \o more]
  BY <1>2 DEF Printed, Output, Ingest, Split, Segments
<1>4. more \in Seq(Line)
  BY <1>1, <1>2, SegmentsType
<1> HIDE DEF more
<1>5. \A b \in Assets : lines[b] \in Seq(Line) /\ printed[b] \in Seq(Line)
  BY DEF TypeOK
<1>6. \A b \in Assets \ {a} : UNCHANGED <<partial[b], tail[b], lines[b], printed[b]>>
  BY <1>3 DEF TypeOK
<1>7. lines'[a] = Keep(lines[a] \o more) /\ printed'[a] = printed[a] \o more
      /\ partial'[a] = tail'[a]
  BY <1>3 DEF TypeOK
<1>8. EndOf(lines'[a], printed'[a])
  BY <1>4, <1>5, <1>7, EndGrows DEF EarnInv, Buffered
<1>9. Buffered'
  BY <1>6, <1>7, <1>8 DEF EarnInv, Buffered
<1>10. \A b \in Assets : lines'[b] \in Seq(Line) /\ printed'[b] \in Seq(Line)
  BY PrintedType DEF TypeOK
<1>11. ASSUME NEW t \in grades'
       PROVE  \E b \in Assets : Scope[t] \in {b, LabWide} /\ Matches(t, printed'[b])
  <2>1. CASE t \in grades
    <3>1. t \in Tasks
      BY <2>1, GraderAssumption DEF TypeOK
    <3>2. PICK b \in Assets : Scope[t] \in {b, LabWide} /\ Matches(t, printed[b])
      BY <2>1 DEF EarnInv, GradeEarned
    <3>3. CASE b = a
      BY <1>4, <1>5, <1>7, <3>1, <3>2, <3>3, MoreMatches
    <3>4. CASE b # a
      BY <1>6, <3>2, <3>4
    <3> QED  BY <3>3, <3>4
  <2>2. CASE t \notin grades
    <3>1. t \in NewlyPassed(a, lines')
      BY <1>3, <2>2
    <3>2. t \in Tasks
      BY <3>1, GraderAssumption DEF NewlyPassed
    <3>3. PICK b \in Assets : Scope[t] \in {b, LabWide} /\ Matches(t, lines'[b])
      BY <3>1 DEF NewlyPassed
    <3>4. EndOf(lines'[b], printed'[b])
      BY <1>9 DEF Buffered
    <3>5. Matches(t, printed'[b])
      BY <1>10, <3>2, <3>3, <3>4, EndMatches
    <3> QED  BY <3>3, <3>5
  <2> QED  BY <2>1, <2>2
<1> QED  BY <1>9, <1>11 DEF EarnInv, GradeEarned

\* Only a chunk changes buffers, output or grades.
LEMMA OnlyPrinting ==
  [Next]_vars => \/ UNCHANGED <<gradeVars, printVars>>
                 \/ \E a \in Assets, chunk \in Chunks : Printed(a, chunk)
BY DEF Next, Serve, WriteGrades, Connect, Register, Greet, ReadFails, Deregister,
       LinkChanges, Written, vars

\* Every step keeps the buffers true to the terminals.
LEMMA EarnStep == TypeOK /\ EarnInv /\ [Next]_vars => EarnInv'
<1> SUFFICES ASSUME TypeOK, EarnInv, [Next]_vars PROVE EarnInv'
  OBVIOUS
<1>1. CASE UNCHANGED <<gradeVars, printVars>>
  BY <1>1 DEF EarnInv, Buffered, GradeEarned, gradeVars, printVars
<1>2. CASE \E a \in Assets, chunk \in Chunks : Printed(a, chunk)
  BY <1>2, PrintedEarn
<1> QED  BY <1>1, <1>2, OnlyPrinting

\* No task passes whose template the output of its asset did not show
\* (backend.go:73-114).
THEOREM GradeEarnedHolds == Spec => []GradeEarned
<1>1. EarnInv => GradeEarned
  BY DEF EarnInv
<1> QED  BY InitType, TypeStep, InitEarn, EarnStep, <1>1, PTL DEF Spec

-----------------------------------------------------------------------------
(* No grade is missed but for lines trimmed too early. An asset's buffer   *)
(* is all its terminals printed, or a full ring; so a template that fits   *)
(* the ring and that new lines complete is in the buffer and those lines,  *)
(* and Ingest matches it unless it has trimmed part of it.                 *)

Full == \A a \in Assets : Len(lines[a]) = Len(printed[a]) \/ Len(lines[a]) = Ring

\* Keep drops lines only to leave a full ring.
LEMMA KeepFills ==
  ASSUME NEW end \in Seq(Line), NEW whole \in Seq(Line), NEW more \in Seq(Line),
         Len(end) <= Ring, Len(end) = Len(whole) \/ Len(end) = Ring
  PROVE  Len(Keep(end \o more)) = Len(whole \o more) \/ Len(Keep(end \o more)) = Ring
<1> DEFINE seq == end \o more
<1>0. Ring \in Nat /\ Ring > 0
  BY GraderAssumption
<1>1. /\ seq \in Seq(Line) /\ Len(seq) = Len(end) + Len(more)
      /\ Len(whole \o more) = Len(whole) + Len(more)
      /\ Len(end) \in Nat /\ Len(more) \in Nat /\ Len(whole) \in Nat
  OBVIOUS
<1> HIDE DEF seq
<1>2. CASE Len(seq) <= Ring
  <2>1. Keep(seq) = seq
    BY <1>0, <1>1, <1>2 DEF Keep
  <2>2. Len(seq) = Len(whole \o more) \/ Len(seq) = Ring
    BY <1>0, <1>1, <1>2
  <2> QED  BY <2>1, <2>2 DEF seq
<1>3. CASE Len(seq) > Ring
  <2>1. Keep(seq) = SubSeq(seq, Len(seq) - Ring + 1, Len(seq))
    BY <1>3 DEF Keep, Latest
  <2>2. Len(Keep(seq)) = Ring
    BY <1>0, <1>1, <1>3, <2>1
  <2> QED  BY <2>2 DEF seq
<1> QED  BY <1>0, <1>1, <1>2, <1>3

\* A match in the output that was not there before the last lines is in its end
\* and those lines.
LEMMA NewMatchInEnd ==
  ASSUME NEW t \in Tasks, NEW end \in Seq(Line), NEW seq \in Seq(Line), NEW more \in Seq(Line),
         EndOf(end, seq), Len(end) = Len(seq) \/ Len(end) = Ring, Len(Template[t]) <= Ring,
         Matches(t, seq \o more), ~Matches(t, seq)
  PROVE  Matches(t, end \o more)
<1> DEFINE l == Len(Template[t])
           p == Len(seq)
           m == Len(more)
           e == Len(end)
<1>0. l \in Nat \ {0} /\ p \in Nat /\ m \in Nat /\ e \in Nat /\ Ring \in Nat
      /\ Len(seq \o more) = p + m /\ Len(end \o more) = e + m
  BY GraderAssumption
<1>1. PICK i \in 0 .. Len(seq \o more) - l :
        \A j \in 1 .. l : Template[t][j] \subseteq (seq \o more)[i + j]
  BY DEF Matches
<1>2. PICK n \in Nat : p = n + e /\ \A j \in 1 .. e : end[j] = seq[n + j]
  BY DEF EndOf
<1>3. i + l > p
  <2> SUFFICES ASSUME i + l <= p PROVE FALSE
    BY <1>0, <1>1
  <2>1. i \in 0 .. p - l
    BY <1>0, <1>1
  <2>2. \A j \in 1 .. l : (seq \o more)[i + j] = seq[i + j]
    BY <1>0, <2>1
  <2> QED  BY <1>1, <2>1, <2>2 DEF Matches
<1>7. \A j \in 1 .. e + m : (end \o more)[j] = (seq \o more)[n + j]
  <2> SUFFICES ASSUME NEW j \in 1 .. e + m PROVE (end \o more)[j] = (seq \o more)[n + j]
    OBVIOUS
  <2>1. CASE j <= e
    <3>1. (end \o more)[j] = end[j] /\ (seq \o more)[n + j] = seq[n + j]
      BY <1>0, <1>2, <2>1
    <3> QED  BY <1>2, <2>1, <3>1
  <2>2. CASE j > e
    <3>1. (end \o more)[j] = more[j - e]
      BY <1>0, <2>2
    <3>2. n + j \in p + 1 .. p + m /\ (n + j) - p = j - e
      <4> HIDE DEF p, m, e
      <4> QED  BY <1>0, <1>2, <2>2
    <3>3. \A x \in p + 1 .. p + m : (seq \o more)[x] = more[x - p]
      BY <1>0
    <3> QED  BY <3>1, <3>2, <3>3
  <2> HIDE DEF p, m, e
  <2>3. j <= e \/ j > e
    BY <1>0
  <2> QED  BY <2>1, <2>2, <2>3
<1> HIDE DEF l, p, m, e
<1>4. n <= i
  <2>1. e = p \/ e = Ring
    BY DEF e, p
  <2>2. l <= Ring
    BY DEF l
  <2> QED  BY <1>0, <1>1, <1>2, <1>3, <2>1, <2>2
<1>5. i - n \in 0 .. (e + m) - l
  BY <1>0, <1>1, <1>2, <1>4
<1>6. \A j \in 1 .. l : Template[t][j] \subseteq (end \o more)[(i - n) + j]
  <2> SUFFICES ASSUME NEW j \in 1 .. l PROVE Template[t][j] \subseteq (end \o more)[(i - n) + j]
    OBVIOUS
  <2>1. (i - n) + j \in 1 .. e + m /\ n + ((i - n) + j) = i + j
    BY <1>0, <1>5
  <2>2. (end \o more)[(i - n) + j] = (seq \o more)[i + j]
    BY <1>7, <2>1
  <2> QED  BY <1>1, <2>2
<1> QED  BY <1>0, <1>5, <1>6 DEF Matches, l

\* What these lines show, their last Ring show too, or it is too far back.
LEMMA KeptOrTooFarBack ==
  ASSUME NEW t \in Tasks, NEW seq \in Seq(Line), Matches(t, seq)
  PROVE  Matches(t, Keep(seq)) \/ TooFarBack(t, seq)
BY GraderAssumption DEF Keep, TooFarBack

MissInv == Full /\ ScrollbackMatched

\* Nothing printed, nothing missed.
LEMMA InitMiss == Init => MissInv
<1> SUFFICES ASSUME Init PROVE MissInv
  OBVIOUS
<1>1. Full
  BY DEF Init, Full
<1>2. ASSUME NEW t \in Valid, NEW a \in Assets, Matches(t, printed[a]) PROVE FALSE
  <2>1. Len(Template[t]) \in Nat \ {0}
    BY GraderAssumption
  <2>2. Len(printed[a]) = 0
    BY DEF Init
  <2> QED  BY <1>2, <2>1, <2>2 DEF Matches
<1> QED  BY <1>1, <1>2 DEF MissInv, ScrollbackMatched

\* What a chunk completes is matched against, or trimmed and noted.
LEMMA PrintedMiss ==
  ASSUME TypeOK, EarnInv, MissInv, NEW a \in Assets, NEW chunk \in Chunks, Printed(a, chunk)
  PROVE  MissInv'
<1> DEFINE more == Front(Segments(tail[a], chunk))
           all  == lines[a] \o more
           kept == [lines EXCEPT ![a] = Keep(all)]
           passed == IF more = <<>> THEN {} ELSE NewlyPassed(a, kept)
           far  == {t \in Tasks : TooFarBack(t, all)}
<1>1. chunk \in Seq(Line) /\ chunk # <<>>
  BY GraderAssumption
<1>2. partial[a] = tail[a] /\ tail[a] \in Line
  BY DEF EarnInv, Buffered, TypeOK
<1>3. /\ lines' = kept /\ grades' = grades \cup passed
      /\ pushedOut' = [pushedOut EXCEPT ![a] = @ \cup far]
      /\ printed' = [printed EXCEPT ![a] = @ \o more]
  BY <1>2 DEF Printed, Output, Ingest, Split, Segments
<1>4. more \in Seq(Line)
  BY <1>1, <1>2, SegmentsType
<1> HIDE DEF more
<1>5. \A b \in Assets : /\ lines[b] \in Seq(Line) /\ printed[b] \in Seq(Line)
                        /\ Len(lines[b]) <= Ring
  BY DEF TypeOK
<1>6. \A b \in Assets \ {a} : UNCHANGED <<lines[b], printed[b], pushedOut[b]>>
  BY <1>3 DEF TypeOK
<1>7. /\ lines'[a] = Keep(all) /\ printed'[a] = printed[a] \o more
      /\ pushedOut'[a] = pushedOut[a] \cup far
  BY <1>3 DEF TypeOK
<1>8. Len(lines'[a]) = Len(printed'[a]) \/ Len(lines'[a]) = Ring
  BY <1>4, <1>5, <1>7, KeepFills DEF MissInv, Full
<1>9. Full'
  BY <1>6, <1>8 DEF MissInv, Full
<1>10. ASSUME NEW t \in Valid, NEW b \in Assets, Scope[t] \in {b, LabWide},
              Len(Template[t]) <= Ring, Matches(t, printed'[b])
       PROVE  t \in grades' \/ t \in pushedOut'[b]
  <2>1. CASE b # a \/ Matches(t, printed[b])
    BY <1>3, <1>6, <1>7, <1>10, <2>1 DEF MissInv, ScrollbackMatched
  <2>2. CASE b = a /\ ~Matches(t, printed[b])
    <3>1. t \in Tasks
      BY GraderAssumption
    <3>2. EndOf(lines[a], printed[a]) /\ (Len(lines[a]) = Len(printed[a]) \/ Len(lines[a]) = Ring)
      BY DEF EarnInv, Buffered, MissInv, Full
    <3>3. Matches(t, all)
      BY <1>4, <1>5, <1>7, <1>10, <2>2, <3>1, <3>2, NewMatchInEnd
    <3>4. Matches(t, Keep(all)) \/ TooFarBack(t, all)
      <4>1. all \in Seq(Line)
        BY <1>4, <1>5
      <4> HIDE DEF all
      <4> QED  BY <3>1, <3>3, <4>1, KeptOrTooFarBack
    <3>5. more # <<>>
      <4>1. ASSUME more = <<>> PROVE printed[a] \o more = printed[a]
        BY <1>5, <4>1
      <4> QED  BY <1>7, <1>10, <2>2, <4>1
    <3>6. CASE Matches(t, Keep(all))
      <4>1. Matches(t, lines'[a])
        BY <1>7, <3>6
      <4>2. t \in grades \/ t \in NewlyPassed(a, lines')
        BY <1>10, <2>2, <4>1 DEF NewlyPassed
      <4> QED  BY <1>3, <3>5, <4>2
    <3>7. CASE TooFarBack(t, all)
      BY <1>7, <2>2, <3>1, <3>7
    <3> QED  BY <3>4, <3>6, <3>7
  <2> QED  BY <2>1, <2>2
<1> QED  BY <1>9, <1>10 DEF MissInv, ScrollbackMatched

\* Every other step leaves lines, output and grades alone.
LEMMA MissStep == TypeOK /\ EarnInv /\ MissInv /\ [Next]_vars => MissInv'
<1> SUFFICES ASSUME TypeOK, EarnInv, MissInv, [Next]_vars PROVE MissInv'
  OBVIOUS
<1>1. CASE UNCHANGED <<gradeVars, printVars>>
  BY <1>1 DEF MissInv, Full, ScrollbackMatched, gradeVars, printVars
<1>2. CASE \E a \in Assets, chunk \in Chunks : Printed(a, chunk)
  BY <1>2, PrintedMiss
<1> QED  BY <1>1, <1>2, OnlyPrinting

\* A task has passed whose template, if the ring has room for it, was shown
\* anywhere, unless it was trimmed before it was matched (docs/lab-grade.md:49,
\* lines.go:48).
THEOREM ScrollbackMatchedHolds == Spec => []ScrollbackMatched
<1>1. MissInv => ScrollbackMatched
  BY DEF MissInv
<1> QED  BY InitType, TypeStep, InitEarn, EarnStep, InitMiss, MissStep, <1>1, PTL DEF Spec
=============================================================================
