---------------------------- MODULE ConnLimiter ----------------------------
(***************************************************************************)
(* ConnLimiter of pkg/relaybase: one atomic counter per user, taken by a   *)
(* load and a compare-and-swap that handlers of other connections may come *)
(* between.  A counter, once made, is never removed, so looking it up      *)
(* under the mutex is part of the load.                                    *)
(***************************************************************************)
EXTENDS Naturals, FiniteSets

CONSTANTS
  Conns,      \* bound: connections a relay handles at a time
  Users,      \* user ids of the connections let through
  MaxConns    \* NewConnLimiter's max (16 in both relays)

ASSUME LimiterAssumption == IsFiniteSet(Conns) /\ MaxConns \in Nat

VARIABLES
  pc,       \* pc[c]: where the handler of connection c is
  user,     \* user[c]: userID of that handler
  counts,   \* counts[u]: the counter of user u
  cur       \* cur[c]: the value the handler of c loaded

limiterVars == <<pc, user, counts, cur>>

LimiterInit ==
  /\ user \in [Conns -> Users]
  /\ counts = [u \in Users |-> 0]
  /\ cur = [c \in Conns |-> 0]

Goto(c, label) == pc' = [pc EXCEPT ![c] = label]

-----------------------------------------------------------------------------
\* Mutant: the limit is exceeded by one.
LoadOffByOne(c) ==
  /\ pc[c] = "asking"
  /\ cur' = [cur EXCEPT ![c] = counts[user[c]]]
  /\ Goto(c, IF counts[user[c]] > MaxConns THEN "refused" ELSE "loaded")
  /\ UNCHANGED <<user, counts>>

\* Acquire: load the counter; give up if it shows the limit.
Load(c) ==
  /\ pc[c] = "asking"
  /\ cur' = [cur EXCEPT ![c] = counts[user[c]]]
  /\ Goto(c, IF counts[user[c]] >= MaxConns THEN "refused" ELSE "loaded")
  /\ UNCHANGED <<user, counts>>

\* Mutant: the counter is stored without comparing it.
SwapBlindly(c) ==
  /\ pc[c] = "loaded"
  /\ counts' = [counts EXCEPT ![user[c]] = cur[c] + 1]
  /\ Goto(c, "held")
  /\ UNCHANGED <<user, cur>>

\* Acquire: count one more, if nobody else changed the counter since; otherwise
\* load again.
Swap(c) ==
  /\ pc[c] = "loaded"
  /\ IF counts[user[c]] = cur[c]
       THEN /\ counts' = [counts EXCEPT ![user[c]] = cur[c] + 1]
            /\ Goto(c, "held")
       ELSE /\ Goto(c, "asking")
            /\ UNCHANGED counts
  /\ UNCHANGED <<user, cur>>

\* Release, the last thing a handler that acquired does.
Release(c) ==
  /\ pc[c] = "served"
  /\ counts' = [counts EXCEPT ![user[c]] = @ - 1]
  /\ Goto(c, "idle")
  /\ UNCHANGED <<user, cur>>

-----------------------------------------------------------------------------
\* The connections whose handler holds a slot of user u.
Holding(u) == {c \in Conns : pc[c] \in {"held", "serving", "served"} /\ user[c] = u}
=============================================================================
