------------------------------ MODULE Incidents ------------------------------
(***************************************************************************)
(* The operational checks a health request ends with: each condition is       *)
(* counted, the ones that hold open their incident and alert at most once per  *)
(* window, the others resolve it.  Health requests overlap (load balancer,     *)
(* job, several processes), and a process may die between two statements.      *)
(***************************************************************************)
EXTENDS Integers, Sequences

CONSTANTS
  MaxRequests, MaxTime, \* bounds: health requests in a behaviour, the clock
  MaxChanges,           \* bound: changes of what the tables say
  Keys,   \* the candidates, numbered in the order of the code
  Limit,  \* a function: the count a candidate must exceed
  Window, \* the ten minutes between two alerts
  None

Requests == 1..MaxRequests
Time == 0..MaxTime

VARIABLES
  counts,    \* what each candidate's query would count now
  incidents, \* monitor_incidents
  alerts,    \* the stamps of the alerts posted, per candidate
  request, changes, now
vars == <<counts, incidents, alerts, request, changes, now>>

Incident == [status : {"open", "resolved"}, notified : Time \cup {None}, last : Time]

Idle == [at |-> "idle"]
Done == [at |-> "done"]

Init ==
  /\ counts = [k \in Keys |-> 0] /\ incidents = [k \in Keys |-> None]
  /\ alerts = [k \in Keys |-> <<>>]
  /\ request = [c \in Requests |-> Idle] /\ changes = 0 /\ now = 0

-----------------------------------------------------------------------------
Least(S) == CHOOSE k \in S : \A j \in S : k <= j
Then(c, what) == request' = [request EXCEPT ![c] = what]

(* Behind the last candidate that holds come the resolutions of the others.   *)
Onward(r, left) ==
  IF left # {} THEN [r EXCEPT !.at = "insert", !.left = left]
  ELSE [r EXCEPT !.at = IF r.active = Keys THEN "done" ELSE "resolve", !.left = Keys \ r.active]

(* The sweeps come first, one after the other: the first that throws ends the  *)
(* request, and with it the checks.                                            *)
Health(c) ==
  /\ request[c] = Idle /\ \A d \in 1..(c - 1) : request[d] # Idle
  /\ \/ Then(c, [at |-> "count", time |-> now, active |-> {}, left |-> Keys])
     \/ Then(c, Done)
  /\ UNCHANGED <<counts, incidents, alerts, changes, now>>

(* The queries run side by side, each on its own connection. *)
Over(k) == counts[k] > Limit[k]
Count(c) ==
  /\ request[c].at = "count"
  /\ \E k \in request[c].left :
       LET r == [request[c] EXCEPT !.active = IF Over(k) THEN @ \cup {k} ELSE @, !.left = @ \ {k}] IN
       Then(c, IF r.left = {} THEN Onward(r, r.active) ELSE r)
  /\ UNCHANGED <<counts, incidents, alerts, changes, now>>

(* upsertIncident: INSERT ... ON CONFLICT, then the claim of the alert. *)
Open(c) ==
  LET r == request[c] k == Least(r.left) old == incidents[k] IN
  /\ r.at = "insert" /\ Then(c, [r EXCEPT !.at = "claim"])
  /\ incidents' = [incidents EXCEPT ![k] =
       [status |-> "open", notified |-> IF old = None THEN None ELSE old.notified, last |-> r.time]]
  /\ UNCHANGED <<counts, alerts, changes, now>>

Claimable(row, time) == row.notified # None => row.notified < time - Window
Claim(c) ==
  LET r == request[c] k == Least(r.left) IN
  /\ r.at = "claim"
  /\ \/ /\ Claimable(incidents[k], r.time) /\ Then(c, [r EXCEPT !.at = "post"])
        /\ incidents' = [incidents EXCEPT ![k].notified = r.time]
     \/ /\ ~Claimable(incidents[k], r.time) /\ Then(c, Onward(r, r.left \ {k}))
        /\ UNCHANGED incidents
  /\ UNCHANGED <<counts, alerts, changes, now>>

(* postAlert swallows what goes wrong: the claim stands, nobody tries again. *)
Post(c) ==
  LET r == request[c] k == Least(r.left) IN
  /\ r.at = "post" /\ Then(c, Onward(r, r.left \ {k}))
  /\ alerts' = [alerts EXCEPT ![k] = Append(@, r.time)]
  /\ UNCHANGED <<counts, incidents, changes, now>>

Resolve(c) ==
  LET r == request[c] k == Least(r.left) IN
  /\ r.at = "resolve"
  /\ Then(c, IF r.left = {k} THEN Done ELSE [r EXCEPT !.left = @ \ {k}])
  /\ incidents' = IF incidents[k] # None /\ incidents[k].status = "open"
                    THEN [incidents EXCEPT ![k].status = "resolved"] ELSE incidents
  /\ UNCHANGED <<counts, alerts, changes, now>>

(* The process dies; the row of the incident it was at is left as it is.  *)
Die(c) ==
  /\ request[c].at \notin {"idle", "done", "dead"}
  /\ Then(c, [request[c] EXCEPT !.at = "dead"])
  /\ UNCHANGED <<counts, incidents, alerts, changes, now>>

(* What orders, payments, shifts and statements do to the counts.  *)
Change ==
  /\ changes < MaxChanges /\ changes' = changes + 1
  /\ \E k \in Keys, n \in {0, 1, 2} : n # counts[k] /\ counts' = [counts EXCEPT ![k] = n]
  /\ UNCHANGED <<incidents, alerts, request, now>>
Tick == now < MaxTime /\ now' = now + 1 /\ UNCHANGED <<counts, incidents, alerts, request, changes>>

Next ==
  \/ \E c \in Requests :
       Health(c) \/ Count(c) \/ Open(c) \/ Claim(c) \/ Post(c) \/ Resolve(c) \/ Die(c)
  \/ Change \/ Tick

Spec == Init /\ [][Next]_vars

-----------------------------------------------------------------------------
TypeOK ==
  /\ counts \in [Keys -> 0..2] /\ incidents \in [Keys -> Incident \cup {None}]
  /\ \A k \in Keys : alerts[k] \in Seq(Time)
  /\ changes \in 0..MaxChanges /\ now \in Time

(* Whichever checks overlap, two alerts of one incident are more than a       *)
(* window apart.                                                              *)
AlertsApart ==
  \A k \in Keys : \A i, j \in DOMAIN alerts[k] :
    i < j => alerts[k][j] - alerts[k][i] > Window \/ alerts[k][i] - alerts[k][j] > Window

AtAlert(k) == \E c \in Requests :
  /\ request[c].at \in {"claim", "post", "dead"} /\ request[c].left # {} /\ Least(request[c].left) = k

(* Whoever is not between the row and its alert: an open incident was alerted  *)
(* no longer than a window before it was last seen, the first time, after a    *)
(* resolution and while it lasts.                                              *)
OpenIsAlerted ==
  \A k \in Keys :
    incidents[k] # None /\ incidents[k].status = "open" /\ ~AtAlert(k) =>
      \E i \in DOMAIN alerts[k] : alerts[k][i] >= incidents[k].last - Window

=============================================================================
