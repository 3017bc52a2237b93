------------------------------- MODULE Grader -------------------------------
(***************************************************************************)
(* relay-grader: terminal output arrives in chunks, is put together into   *)
(* lines and matched against the tasks, and every change of the grades is  *)
(* written to the connected frontends, one after the other, with the       *)
(* backend's mutex held throughout.                                        *)
(*                                                                         *)
(* A line is the set of marks it shows; a chunk is a sequence of pieces    *)
(* with a newline between one piece and the next, so that its first piece  *)
(* continues the line under way and its last one begins another; a task's  *)
(* template asks, line after line, for the marks that must be there.       *)
(***************************************************************************)
EXTENDS Naturals, Sequences, SequencesExt

CONSTANTS
  Assets,      \* the servers of the lab; each has any number of terminal tabs
  Tasks,
  Valid,       \* the tasks whose template is a regular expression
  Scope,       \* Scope[t]: the asset of task t, or LabWide
  LabWide,
  Marks,       \* what templates ask for
  Template,    \* Template[t]: a sequence of sets of marks
  Chunks,      \* the chunks a terminal may print, up to 32 KiB in the code
  Ring,        \* ringCapacity, 10 in the code
  Clients,     \* frontends; each has one WebSocket at a time
  MaxLines     \* bound: lines an asset's terminals print in all

\* What a line may show.
Line == SUBSET Marks

ASSUME GraderAssumption ==
  /\ Valid \subseteq Tasks /\ Scope \in [Tasks -> Assets \cup {LabWide}]
  /\ \A t \in Tasks : Template[t] \in Seq(Line) /\ Template[t] # <<>>
  /\ \A chunk \in Chunks : chunk \in Seq(Line) /\ chunk # <<>>
  /\ Ring \in Nat \ {0} /\ MaxLines \in Nat

VARIABLES
  partial,   \* partial[a]: the line asset a is in the middle of
  lines,     \* lines[a]: its latest complete lines, at most Ring
  grades,    \* the tasks passed
  sending,   \* Ingest holds the mutex and is broadcasting
  payload,   \* the grades it broadcasts
  todo,      \* the clients it has yet to write to
  clients,   \* the connections registered for broadcasts
  pc,        \* pc[c]: closed, accepted, greeting, reading or leaving
  snap,      \* snap[c]: the grades Serve read when it registered c
  link,      \* link[c]: up, stalled (the peer does not read), gone
  screen,    \* screen[c]: the grades frontend c shows
  told,      \* history: every grade written to c's current connection
  printed,   \* history: printed[a], the complete lines of asset a's output: that of
             \* all its terminals, in the order in which they handed it on
  tail,      \* history: tail[a], the line that output is in the middle of
  pushedOut  \* history: pushedOut[a], tasks that lines of a showed which Ingest
             \* trimmed from the ring before it matched

gradeVars  == <<partial, lines, grades, pushedOut>>
castVars   == <<sending, payload, todo>>
clientVars == <<clients, pc, snap, link, screen, told>>
printVars  == <<printed, tail>>
vars == <<gradeVars, castVars, clientVars, printVars>>

TypeOK ==
  /\ partial \in [Assets -> Line] /\ tail \in [Assets -> Line]
  /\ lines \in [Assets -> Seq(Line)] /\ \A a \in Assets : Len(lines[a]) <= Ring
  /\ printed \in [Assets -> Seq(Line)] /\ pushedOut \in [Assets -> SUBSET Tasks]
  /\ grades \subseteq Valid
  /\ sending \in BOOLEAN /\ payload \subseteq grades
  /\ todo \subseteq Clients /\ clients \subseteq Clients
  /\ pc \in [Clients -> {"closed", "accepted", "greeting", "reading", "leaving"}]
  /\ link \in [Clients -> {"up", "stalled", "gone"}]
  /\ snap \in [Clients -> SUBSET grades] /\ told \in [Clients -> SUBSET grades]
  /\ screen \in [Clients -> SUBSET Valid]

Init ==
  /\ partial = [a \in Assets |-> {}] /\ lines = [a \in Assets |-> <<>>]
  /\ grades = {} /\ sending = FALSE /\ payload = {} /\ todo = {}
  /\ clients = {} /\ pc = [c \in Clients |-> "closed"]
  /\ snap = [c \in Clients |-> {}] /\ link = [c \in Clients |-> "gone"]
  /\ screen = [c \in Clients |-> {}] /\ told = [c \in Clients |-> {}]
  /\ printed = [a \in Assets |-> <<>>] /\ tail = [a \in Assets |-> {}]
  /\ pushedOut = [a \in Assets |-> {}]

-----------------------------------------------------------------------------
(* Grading.                                                                *)

\* What a chunk makes of the line under way: complete lines, and a new tail.
Split(start, chunk) ==
  LET segments == <<start \cup Head(chunk)>> \o Tail(chunk)
  IN [complete |-> Front(segments), rest |-> Last(segments)]

Latest(seq, n) == SubSeq(seq, Len(seq) - n + 1, Len(seq))

\* Mutant: the first lines are kept.
KeepOldest(seq) == IF Len(seq) > Ring THEN SubSeq(seq, 1, Ring) ELSE seq

\* Mutant: one line too many.
KeepOneMore(seq) == IF Len(seq) > Ring + 1 THEN Latest(seq, Ring + 1) ELSE seq

Keep(seq) == IF Len(seq) > Ring THEN Latest(seq, Ring) ELSE seq

\* Somewhere in these lines, consecutive ones show what the template asks for.
Matches(t, seq) ==
  \E i \in 0 .. Len(seq) - Len(Template[t]) :
    \A j \in 1 .. Len(Template[t]) : Template[t][j] \subseteq seq[i + j]

\* These lines show the template, but their last Ring do not.
TooFarBack(t, seq) ==
  Matches(t, seq) /\ Len(seq) > Ring /\ ~Matches(t, Latest(seq, Ring))

\* Mutant: a lab-wide task is matched against any asset, and so is every other.
NewlyPassedAnywhere(a, buffers) ==
  {t \in Valid \ grades : \E b \in Assets : Matches(t, buffers[b])}

\* Ingest's loop: the tasks not passed yet that now match, when asset a has
\* new lines.
NewlyPassed(a, buffers) ==
  {t \in Valid \ grades :
     \/ Scope[t] = a /\ Matches(t, buffers[a])
     \/ Scope[t] = LabWide /\ \E b \in Assets : Matches(t, buffers[b])}

\* Mutant: the broadcast leaves out the clients not greeted yet.
BroadcastToGreeted(passed) ==
  /\ sending' = (passed # {})
  /\ payload' = IF passed # {} THEN grades' ELSE payload
  /\ todo' = IF passed # {} THEN {c \in clients : pc[c] = "reading"} ELSE {}

\* If a grade changed, keep the mutex and begin to write the grades to all
\* registered clients.
Broadcast(passed) ==
  /\ sending' = (passed # {})
  /\ payload' = IF passed # {} THEN grades' ELSE payload
  /\ todo' = IF passed # {} THEN clients ELSE {}

\* Ingest, once it has the mutex.
Ingest(a, chunk) ==
  LET new    == Split(partial[a], chunk)
      all    == lines[a] \o new.complete
      kept   == [lines EXCEPT ![a] = Keep(all)]
      passed == IF new.complete = <<>> THEN {} ELSE NewlyPassed(a, kept)
  IN /\ ~sending
     /\ partial' = [partial EXCEPT ![a] = new.rest]
     /\ lines' = kept
     /\ pushedOut' = [pushedOut EXCEPT ![a] = @ \cup {t \in Tasks : TooFarBack(t, all)}]
     /\ grades' = grades \cup passed
     /\ Broadcast(passed)

\* A terminal on asset a prints a chunk. That of a tab beside it may come next: the
\* two continue each other's lines.
Output(a, chunk) ==
  LET segments == <<tail[a] \cup Head(chunk)>> \o Tail(chunk)
  IN /\ Len(printed[a]) + Len(chunk) - 1 <= MaxLines
     /\ printed' = [printed EXCEPT ![a] = @ \o Front(segments)]
     /\ tail' = [tail EXCEPT ![a] = Last(segments)]

\* The copy relay-exec forwards arrives at once (GraderFeed has the way it takes).
Printed(a, chunk) ==
  /\ Output(a, chunk)
  /\ Ingest(a, chunk)
  /\ UNCHANGED clientVars

-----------------------------------------------------------------------------
(* Broadcasting.                                                           *)

Show(c, map) ==
  /\ screen' = [screen EXCEPT ![c] = map]
  /\ told' = [told EXCEPT ![c] = @ \cup map]

\* One write of the broadcast, in any order of the clients. A write to a peer
\* that does not read blocks; one to a peer that is gone fails, or succeeds
\* unseen, and a frontend that sees it shows the map it carries and nothing else.
WriteGrades(c) ==
  /\ sending /\ c \in todo
  /\ \/ link[c] = "up" /\ Show(c, payload) /\ UNCHANGED clients
     \/ link[c] = "gone" /\ clients' \in {clients, clients \ {c}} /\ UNCHANGED <<screen, told>>
  /\ todo' = todo \ {c}
  /\ UNCHANGED <<gradeVars, sending, payload, pc, snap, link, printVars>>

\* All written: Ingest returns and frees the mutex.
Written ==
  /\ sending /\ todo = {}
  /\ sending' = FALSE
  /\ UNCHANGED <<gradeVars, payload, todo, clientVars, printVars>>

-----------------------------------------------------------------------------
(* Connections.                                                            *)

\* A frontend connects, for the first time or again, and is let through.
Connect(c) ==
  /\ pc[c] = "closed"
  /\ pc' = [pc EXCEPT ![c] = "accepted"]
  /\ link' = [link EXCEPT ![c] = "up"]
  /\ told' = [told EXCEPT ![c] = {}]
  /\ UNCHANGED <<gradeVars, castVars, clients, snap, screen, printVars>>

\* Serve, under the mutex: register, and read the grades to greet with.
Register(c) ==
  /\ pc[c] = "accepted" /\ ~sending
  /\ clients' = clients \cup {c}
  /\ snap' = [snap EXCEPT ![c] = grades]
  /\ pc' = [pc EXCEPT ![c] = "greeting"]
  /\ UNCHANGED <<gradeVars, castVars, link, screen, told, printVars>>

\* Mutant: a greeting that fails ends the handler at once.
GreetOrReturn(c) ==
  /\ pc[c] = "greeting"
  /\ \/ /\ link[c] = "up" /\ Show(c, snap[c])
        /\ pc' = [pc EXCEPT ![c] = "reading"]
     \/ /\ link[c] = "gone" /\ UNCHANGED <<screen, told>>
        /\ \E label \in {"reading", "closed"} : pc' = [pc EXCEPT ![c] = label]
  /\ UNCHANGED <<gradeVars, castVars, clients, snap, link, printVars>>

\* Serve, without it: write them.
Greet(c) ==
  /\ pc[c] = "greeting"
  /\ \/ /\ link[c] = "up" /\ Show(c, snap[c])
        /\ pc' = [pc EXCEPT ![c] = "reading"]
     \/ /\ link[c] = "gone" /\ UNCHANGED <<screen, told>>
        /\ \E label \in {"reading", "leaving"} : pc' = [pc EXCEPT ![c] = label]
  /\ UNCHANGED <<gradeVars, castVars, clients, snap, link, printVars>>

\* Serve's read loop ends when the connection does.
ReadFails(c) ==
  /\ pc[c] = "reading" /\ link[c] = "gone"
  /\ pc' = [pc EXCEPT ![c] = "leaving"]
  /\ UNCHANGED <<gradeVars, castVars, clients, snap, link, screen, told, printVars>>

\* Serve, under the mutex: deregister and return.
Deregister(c) ==
  /\ pc[c] = "leaving" /\ ~sending
  /\ clients' = clients \ {c}
  /\ pc' = [pc EXCEPT ![c] = "closed"]
  /\ UNCHANGED <<gradeVars, castVars, snap, link, screen, told, printVars>>

\* The peer closes the connection or is lost; it stalls; it reads again.
LinkChanges(c) ==
  /\ pc[c] # "closed"
  /\ \E l \in {"up", "stalled", "gone"} :
       /\ link[c] # l /\ link[c] # "gone"
       /\ link' = [link EXCEPT ![c] = l]
  /\ UNCHANGED <<gradeVars, castVars, clients, pc, snap, screen, told, printVars>>

-----------------------------------------------------------------------------
Serve(c) == Register(c) \/ Greet(c) \/ ReadFails(c) \/ Deregister(c)

Next ==
  \/ \E a \in Assets, chunk \in Chunks : Printed(a, chunk)
  \/ \E c \in Clients : WriteGrades(c) \/ Connect(c) \/ Serve(c) \/ LinkChanges(c)
  \/ Written

Spec == Init /\ [][Next]_vars

-----------------------------------------------------------------------------
\* A pass is earned: the output of an asset the task looks at showed its template,
\* line after line, at some time (backend.go:73-114).
GradeEarned ==
  \A t \in grades : \E a \in Assets :
    /\ Scope[t] \in {a, LabWide}
    /\ Matches(t, printed[a])

\* "satisfied once the pattern appears anywhere in that asset's recent
\* scrollback", docs/lab-grade.md:49: what was shown in complete lines, however
\* cut, has passed, unless Ingest trimmed it from the ring before it matched
\* (lines.go:48, backend.go:78-87), as it does to more lines at once than the ring
\* has room for.
ScrollbackMatched ==
  \A t \in Valid, a \in Assets :
    Scope[t] \in {a, LabWide} /\ Len(Template[t]) <= Ring /\ Matches(t, printed[a])
      => t \in grades \/ t \in pushedOut[a]

\* Every grade reaches every greeted client: when no broadcast is under way,
\* each was part of some message on the client's connection, also if it changed
\* between the client's registration and its greeting (backend.go:126-170).
NothingWithheld ==
  ~sending => \A c \in Clients :
    pc[c] = "reading" /\ link[c] # "gone" => grades \subseteq told[c]

\* A connection is registered only while its Serve runs, so that broadcasts are
\* not written to connections nobody will remove (backend.go:164-176).
NoGhostClient == \A c \in clients : pc[c] \notin {"closed", "accepted"}

\* "it can never un-pass", docs/lab-grade.md:87, as the student sees it: a badge
\* that has turned green stays green.
BadgesStayGreen ==
  [][\A c \in Clients : screen[c] \subseteq screen'[c]]_vars
=============================================================================
