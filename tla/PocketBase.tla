----------------------------- MODULE PocketBase -----------------------------
(***************************************************************************)
(* The `attempts` collection of the backend, the hooks that guard it, and  *)
(* the realtime stream through which attempt-controller learns of changes. *)
(***************************************************************************)
EXTENDS AttemptBase

CONSTANTS
  MayErase,      \* whether a superuser deletes records
  UserDesired,   \* the values owners write into desired_state
  MaxRequests,   \* bound: create requests a user has in flight
  MaxFeed        \* bound: undelivered realtime events; beyond it the stream breaks

ASSUME PocketBaseAssumption ==
  /\ MayErase \in BOOLEAN /\ UserDesired \subseteq DesiredStates
  /\ MaxRequests \in Nat /\ MaxFeed \in Nat

VARIABLES
  rec,       \* rec[a]: the record of attempt a
  checked,   \* checked[u]: create requests of u past the hook's query, not yet saved
  conn,      \* the controller's SSE connection: down, subscribed (listing), up
  feed       \* realtime events sent on that connection and not yet read

pbVars == <<rec, checked, conn, feed>>

Records == [life : {"unused", "live", "erased"},
            user : Users \cup {None},
            cur  : CurrentStates,
            des  : DesiredStates,
            exp  : Versions \cup {None}]

Events == [id : Attempts, cur : CurrentStates, des : DesiredStates]

Live(a) == rec[a].life = "live"

PBTypeOK ==
  /\ rec \in [Attempts -> Records]
  /\ checked \in [Users -> 0..MaxRequests]
  /\ conn \in {"down", "subscribed", "up"}
  /\ feed \in Seq(Events)

PBInit ==
  /\ rec = [a \in Attempts |-> [life |-> "unused", user |-> None, cur |-> "new",
                                des |-> "provisioned", exp |-> None]]
  /\ checked = [u \in Users |-> 0]
  /\ conn = "down"
  /\ feed = <<>>

-----------------------------------------------------------------------------
\* Every successful save is announced to the subscribed controller. A stream
\* with MaxFeed events unread is taken to break, and loses them.
Publish(a, r) ==
  IF conn = "down"
    THEN UNCHANGED <<conn, feed>>
    ELSE IF Len(feed) < MaxFeed
           THEN /\ feed' = Append(feed, [id |-> a, cur |-> r.cur, des |-> r.des])
                /\ UNCHANGED conn
           ELSE conn' = "down" /\ feed' = <<>>

Save(a, r) == rec' = [rec EXCEPT ![a] = r] /\ Publish(a, r)

\* The attempts that keep the create hook from accepting another one.
ActiveOf(u) == {a \in Attempts : Live(a) /\ rec[a].user = u /\ rec[a].cur # "decommissioned"}

\* POST /attempts, first half: the hook queries for an active attempt.
CheckCreate(u) ==
  /\ checked[u] < MaxRequests
  /\ ActiveOf(u) = {}
  /\ checked' = [checked EXCEPT ![u] = @ + 1]
  /\ NoFault
  /\ UNCHANGED <<rec, conn, feed>>

\* POST /attempts, second half: e.next() saves the record. Nothing ties it to
\* the query before it.
SaveCreate(u, a) ==
  /\ checked[u] > 0
  /\ rec[a].life = "unused"
  /\ Save(a, [life |-> "live", user |-> u, cur |-> "new",
              des |-> "provisioned", exp |-> None])
  /\ checked' = [checked EXCEPT ![u] = @ - 1]
  /\ NoFault

\* PATCH by the owner: the hook lets only desired_state through.
OwnerUpdate(a, d) ==
  /\ Live(a)
  /\ Save(a, [rec[a] EXCEPT !.des = d])
  /\ NoFault
  /\ UNCHANGED checked

\* DELETE, open to superusers only. The event carries the record's last values.
Erase(a) ==
  /\ MayErase
  /\ Live(a)
  /\ Save(a, [rec[a] EXCEPT !.life = "erased"])
  /\ NoFault
  /\ UNCHANGED checked

\* PATCH by attempt-controller: r replaces a's record. It fails when the record
\* is gone, or when the request does.
PatchOK(a, r) == Live(a) /\ Save(a, r) /\ NoFault /\ UNCHANGED checked

PatchFails(a) ==
  /\ IF Live(a) THEN Fail("patch") ELSE NoFault
  /\ UNCHANGED pbVars

\* GET by attempt-controller fails, or its new token is refused too.
GetFails == Fail("get")

\* What the controller reads next on its stream.
NextEvent == Head(feed)

\* The SSE stream breaks: undelivered events are lost.
StreamBreak ==
  /\ conn # "down"
  /\ Fail("stream")
  /\ conn' = "down"
  /\ feed' = <<>>
  /\ UNCHANGED <<rec, checked>>

\* What the owner and the superuser do.
PBNext ==
  \/ \E u \in Users : CheckCreate(u) \/ \E a \in Attempts : SaveCreate(u, a)
  \/ \E a \in Attempts : Erase(a) \/ \E d \in UserDesired : OwnerUpdate(a, d)
  \/ StreamBreak
=============================================================================
