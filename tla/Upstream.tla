------------------------------ MODULE Upstream ------------------------------
(***************************************************************************)
(* attempt-controller, Kubernetes -> PocketBase: one informer goroutine    *)
(* handles the watch in order and writes each object's status back. Its    *)
(* two maps live in memory only.                                           *)
(***************************************************************************)
EXTENDS PocketBase, LabCluster

VARIABLES
  expiresAtWritten,  \* attempts whose expires_at has been written
  hidden             \* history: those of which a re-list, since the informer last
                     \* heard of a deletion, showed another object than it knew

upVars == <<expiresAtWritten, hidden>>

UpTypeOK == expiresAtWritten \subseteq Attempts /\ hidden \subseteq Attempts

UpInit == expiresAtWritten = {} /\ hidden = {}

\* Mutant: a state PocketBase does not know.
phaseToStateUnknown(phase) ==
  CASE phase = "Ready"       -> "provisioned"
    [] phase = "Terminating" -> "terminating"
    [] OTHER                 -> "provisioning"

phaseToState(phase) ==
  CASE phase = "Ready"       -> "provisioned"
    [] phase = "Terminating" -> "decommissioned"
    [] OTHER                 -> "provisioning"

\* The record of a after the PATCH for object o.
Synced(a, o) ==
  [rec[a] EXCEPT !.cur = phaseToState(o.phase),
                 !.exp = IF a \notin expiresAtWritten /\ o.exp # None
                           THEN o.exp ELSE rec[a].exp]

\* Mutant: the version is recorded whether or not the PATCH went through.
ReconcileLabEnvRecordsFirst(a, o) ==
  \/ /\ lastRV[a] = o.rv \/ o.phase = "none"
     /\ NoFault
     /\ UNCHANGED <<pbVars, lastRV, expiresAtWritten>>
  \/ /\ lastRV[a] # o.rv /\ o.phase # "none"
     /\ lastRV' = [lastRV EXCEPT ![a] = o.rv]
     /\ \/ /\ PatchOK(a, Synced(a, o))
           /\ expiresAtWritten' =
                IF o.exp # None THEN expiresAtWritten \cup {a} ELSE expiresAtWritten
        \/ PatchFails(a) /\ UNCHANGED expiresAtWritten

\* ReconcileLabEnv: skip what was already written and what has no status yet;
\* a failed PATCH is not recorded, so that a later delivery writes it again.
ReconcileLabEnv(a, o) ==
  \/ /\ lastRV[a] = o.rv \/ o.phase = "none"
     /\ NoFault
     /\ UNCHANGED <<pbVars, lastRV, expiresAtWritten>>
  \/ /\ lastRV[a] # o.rv /\ o.phase # "none"
     /\ \/ /\ PatchOK(a, Synced(a, o))
           /\ lastRV' = [lastRV EXCEPT ![a] = o.rv]
           /\ expiresAtWritten' =
                IF o.exp # None THEN expiresAtWritten \cup {a} ELSE expiresAtWritten
        \/ PatchFails(a) /\ UNCHANGED <<lastRV, expiresAtWritten>>

\* Mutant: a deleted attempt's expires_at still counts as written.
ReconcileDeleteKeepsExpiry(a) ==
  /\ lastRV' = [lastRV EXCEPT ![a] = None]
  /\ UNCHANGED expiresAtWritten
  /\ \/ PatchOK(a, [rec[a] EXCEPT !.cur = "decommissioned", !.des = "decommissioned"])
     \/ PatchFails(a)

\* ReconcileDelete: forget the attempt, then write both states. Nothing comes
\* back to a failed PATCH.
ReconcileDelete(a) ==
  /\ lastRV' = [lastRV EXCEPT ![a] = None]
  /\ expiresAtWritten' = expiresAtWritten \ {a}
  /\ \/ PatchOK(a, [rec[a] EXCEPT !.cur = "decommissioned", !.des = "decommissioned"])
     \/ PatchFails(a)

\* The informer takes the next watch event, updates its cache and calls the
\* handler for it.
Deliver ==
  /\ watch # <<>>
  /\ watch' = Tail(watch)
  /\ LET ev == Head(watch) IN
       /\ seen' = [seen EXCEPT ![ev.id] = ev.obj]
       /\ IF ev.kind = "set"
            THEN ReconcileLabEnv(ev.id, ev.obj) /\ UNCHANGED hidden
            ELSE ReconcileDelete(ev.id) /\ hidden' = hidden \ {ev.id}
  /\ UNCHANGED env

\* The informer's periodic resync delivers its cached copy of a again.
Redeliver(a) ==
  /\ seen[a].life # "absent"
  /\ ReconcileLabEnv(a, seen[a])
  /\ UNCHANGED <<env, watch, seen, hidden>>

\* What a list reports against a cache c: every object there is, and a
\* tombstone for every cached one that is gone.
Relist(c) ==
  LET gone == {a \in Attempts : ~Exists(a) /\ c[a].life # "absent"}
      all  == gone \cup {a \in Attempts : Exists(a)}
      event(a) == [id |-> a, kind |-> IF a \in gone THEN "del" ELSE "set", obj |-> env[a]]
  IN  {[i \in DOMAIN s |-> event(s[i])] : s \in Orderings(all)}

\* Attempts whose object the informer knows and the server has are of two lives:
\* the deletion between them would show as an update.
Replaced == {a \in Attempts : seen[a].life # "absent" /\ Exists(a)
                               /\ env[a].born # seen[a].born}

\* The watch breaks too far back to resume: the informer lists again.
WatchBreak ==
  /\ Fail("watch")
  /\ watch' \in Relist(seen)
  /\ hidden' = hidden \cup Replaced
  /\ UNCHANGED <<pbVars, env, seen, lastRV, expiresAtWritten>>

UpNext ==
  \/ Deliver
  \/ \E a \in Attempts : Redeliver(a)
  \/ WatchBreak
=============================================================================
