----------------------------- MODULE SlotPool ------------------------------
(***************************************************************************)
(* What the connection limiter of a relay promises: each user has `Max`    *)
(* slots; a connection that asks is given one or, only while all the slots *)
(* of its user are taken, refused; a slot is free again when its           *)
(* connection ends.                                                        *)
(***************************************************************************)
EXTENDS Naturals, FiniteSets

CONSTANTS Conns, Users, Max

VARIABLES
  place,   \* place[c]: "out", "asking", "in" or "refused"
  owner    \* owner[c]: the user c asks for, or asked for last

poolVars == <<place, owner>>

\* The connections that hold a slot of user u.
Inside(u) == {c \in Conns : place[c] = "in" /\ owner[c] = u}

PoolInit ==
  /\ place = [c \in Conns |-> "out"]
  /\ owner \in [Conns -> Users]

Ask(c, u) ==
  /\ place[c] = "out"
  /\ place' = [place EXCEPT ![c] = "asking"]
  /\ owner' = [owner EXCEPT ![c] = u]

Grant(c) ==
  /\ place[c] = "asking"
  /\ Cardinality(Inside(owner[c])) < Max
  /\ place' = [place EXCEPT ![c] = "in"]
  /\ UNCHANGED owner

Refuse(c) ==
  /\ place[c] = "asking"
  /\ Cardinality(Inside(owner[c])) = Max
  /\ place' = [place EXCEPT ![c] = "refused"]
  /\ UNCHANGED owner

Leave(c) ==
  /\ place[c] \in {"in", "refused"}
  /\ place' = [place EXCEPT ![c] = "out"]
  /\ UNCHANGED owner

PoolNext ==
  \E c \in Conns :
    \/ \E u \in Users : Ask(c, u)
    \/ Grant(c) \/ Refuse(c) \/ Leave(c)

PoolSpec == PoolInit /\ [][PoolNext]_poolVars
=============================================================================
