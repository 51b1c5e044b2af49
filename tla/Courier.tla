------------------------------ MODULE Courier ------------------------------
(***************************************************************************)
(* The delivery of one order by Lalamove (lib/delivery-store.ts): booking,  *)
(* automatic dispatch, the provider's webhook, refresh and cancellation,    *)
(* next to the staff who move and assign the same order.  The order is paid *)
(* for and being prepared at the start.                                     *)
(*                                                                          *)
(* Each handler's calls of the database and of the provider are steps of    *)
(* their own; the commands of the staff, whose interleavings OrderCommands  *)
(* has, are single steps.  Quotes are not kept: whether a valid one is at   *)
(* hand when it is needed is left open.                                     *)
(***************************************************************************)
EXTENDS OrderLogic, TLC

CONSTANTS
  Handlers,  \* requests in flight
  Trips,     \* trips the provider can have for the order
  Shippers,  \* the site's own shippers
  Kinds,     \* kinds of requests that are made
  AutoBook,  \* LALAMOVE_AUTO_BOOK
  MaxTime,   \* bound: instants at which something is stamped
  None

RequestKinds == {"advance", "book", "webhook", "refresh", "cancel"}

ASSUME CourierAssumption ==
  /\ Kinds \subseteq RequestKinds
  /\ AutoBook \in BOOLEAN
  /\ MaxTime \in Nat
  /\ None \notin Trips \cup Shippers

VARIABLES
  order,     \* row of operation_orders: status, delivery, shipper
  shippers,  \* operation_staff.status of each shipper
  job,       \* row of delivery_jobs: status, trip, last (last_provider_updated_at)
  recorded,  \* delivery_events: the webhooks that were inserted
  processed, \* those of them with processed_at
  flagged,   \* an alert asks a person to look for the trip
  charged,   \* the fee of the trip is in expenses and ledger
  left,      \* how often the order was taken off active_orders
  req,       \* the request each handler serves
  trips,     \* the provider: the state of each trip
  news,      \* the provider: the webhooks it sends, again and in any order
  clock
table == <<order, shippers, job, recorded, processed, flagged, charged, left>>
provider == <<trips, news, clock>>
vars == <<order, shippers, job, recorded, processed, flagged, charged, left, req,
          trips, news, clock>>

Stopped == "cancelled"  \* CANCELED, REJECTED and EXPIRED
ReportedStatuses == {"booked", "assigning", "assigned", "picked_up", "completed", Stopped}
JobStatuses == ReportedStatuses \cup {"none", "booking", "uncertain", "failed"}

News == [trip : Trips, status : ReportedStatuses, at : Nat, next : Trips \cup {None},
         polled : BOOLEAN]

Idle == [at |-> "idle", trip |-> None, status |-> "booked", news |-> None,
         matched |-> FALSE, last |-> 0]

Init ==
  /\ order = [status |-> "preparing", delivery |-> "unassigned", shipper |-> None]
  /\ shippers \in [Shippers -> {"available", "busy"}]  \* busy with other orders
  /\ job = [status |-> "none", trip |-> None, last |-> 0]
  /\ recorded = {} /\ processed = {} /\ flagged = FALSE
  /\ charged = FALSE /\ left = 0
  /\ req = [h \in Handlers |-> Idle]
  /\ trips = [t \in Trips |-> "none"]
  /\ news = {} /\ clock = 0

-----------------------------------------------------------------------------
(* The provider.                                                           *)

TripStates == {"none", "assigning", "assigned", "picked_up", "completed", Stopped, "replaced"}

TripSteps ==
  {<<"assigning", "assigned">>, <<"assigned", "picked_up">>, <<"picked_up", "completed">>,
   <<"assigning", Stopped>>, <<"assigned", Stopped>>}

Tick == clock < MaxTime /\ clock' = clock + 1

\* The trip gets a state, and a webhook tells of it.
Report(t, state) ==
  /\ Tick
  /\ trips' = [trips EXCEPT ![t] = state]
  /\ news' = news \cup {[trip |-> t, status |-> state, at |-> clock + 1,
                      next |-> None, polled |-> FALSE]}

Travel(t) ==
  /\ \E state \in TripStates : <<trips[t], state>> \in TripSteps /\ Report(t, state)
  /\ UNCHANGED <<table, req>>

\* ORDER_REPLACED: another trip takes over; the webhook carries no status.
Replace(t, u) ==
  /\ trips[t] \in {"assigning", "assigned"} /\ trips[u] = "none"
  /\ Tick
  /\ trips' = [trips EXCEPT ![t] = "replaced", ![u] = "assigning"]
  /\ news' = news \cup {[trip |-> t, status |-> "booked", at |-> clock + 1,
                      next |-> u, polled |-> FALSE]}
  /\ UNCHANGED <<table, req>>

-----------------------------------------------------------------------------
(* Requests.                                                               *)

Begins(h, kind) == kind \in Kinds /\ req[h] = Idle
Goto(h, label) == req' = [req EXCEPT ![h].at = label]
End(h) == req' = [req EXCEPT ![h] = Idle]

(* Staff: order.advance, order.assign, delivery.route.confirm.             *)

LeavesShipper(to) == to \in {"delivered", "delivery_failed"}

Advance(h) ==
  /\ Begins(h, "advance")
  /\ order.status \notin ClosedStatuses
  /\ \E to \in OrderStatuses :
       /\ \E role \in AdvanceRoles :
            /\ order.status \in VisibleStatuses(role)
            /\ assertOrderTransition(role, order.status, to, "delivery", "paid")
       /\ order' = [order EXCEPT !.status = to,
                                 !.delivery = deliveryForOrder(to, @, "delivery")]
       /\ shippers' = [s \in Shippers |->
                         IF s = order.shipper /\ LeavesShipper(to) THEN "available"
                         ELSE shippers[s]]
       /\ left' = IF to = "delivered" THEN left + 1 ELSE left
       /\ req' = IF to = "ready" /\ AutoBook
                 THEN [req EXCEPT ![h].at = "auto"] ELSE req
  /\ UNCHANGED <<job, recorded, processed, flagged, charged, provider>>

GiveTo(s) ==
  /\ order.status = "ready"
  /\ order' = [status |-> "assigned", delivery |-> "assigned", shipper |-> s]
  /\ shippers' = [shippers EXCEPT ![s] = "busy"]
  /\ UNCHANGED <<job, recorded, processed, flagged, charged, left, req, provider>>

Assign(s) == shippers[s] = "available" /\ GiveTo(s)

\* Several orders for one shipper, who may be on the way already.
ConfirmRoute(s) == GiveTo(s)

(* autoDispatchLalamoveIfNeeded.                                           *)

NobodyAvailable == \A s \in Shippers : shippers[s] # "available"

AutoRead(h) ==
  /\ req[h].at = "auto"
  /\ IF job.status = "none" /\ order.status = "ready" /\ NobodyAvailable
     THEN Goto(h, "auto.quote") ELSE End(h)
  /\ UNCHANGED <<table, provider>>

\* The order stays with the staff if the fee or the distance is above the limits,
\* or if there is no quote.
AutoQuote(h) ==
  /\ req[h].at = "auto.quote"
  /\ Goto(h, "read") \/ End(h)
  /\ UNCHANGED <<table, provider>>

(* bookLalamoveDelivery.                                                   *)

\* A person asks, or the automatic dispatch goes on.  It is refused if there is a
\* job, if there is no valid quote, or if the order is not ready.
BookRead(h) ==
  /\ Begins(h, "book") \/ req[h].at = "read"
  /\ job.status = "none" /\ order.status = "ready"
  /\ Goto(h, "insert")
  /\ UNCHANGED <<table, provider>>

BookRefused(h) ==
  /\ req[h].at = "read"
  /\ End(h)
  /\ UNCHANGED <<table, provider>>

\* A bug: two requests insert a job each.
BookInsert_NoIndex(h) ==
  /\ req[h].at = "insert"
  /\ job' = [status |-> "booking", trip |-> None, last |-> 0] /\ Goto(h, "place")
  /\ UNCHANGED <<order, shippers, recorded, processed, flagged, charged, left, provider>>

\* The unique index on the order admits one row.
BookInsert(h) ==
  /\ req[h].at = "insert"
  /\ IF job.status = "none"
     THEN job' = [status |-> "booking", trip |-> None, last |-> 0] /\ Goto(h, "place")
     ELSE End(h) /\ UNCHANGED job
  /\ UNCHANGED <<order, shippers, recorded, processed, flagged, charged, left, provider>>

\* The provider makes the trip or not, and the answer arrives or not.
Place(h) ==
  /\ req[h].at = "place"
  /\ \/ \E t \in Trips :
          /\ trips[t] = "none"
          /\ Report(t, "assigning")
          /\ \/ req' = [req EXCEPT ![h].at = "commit", ![h].trip = t, ![h].status = "assigning"]
             \/ Goto(h, "uncertain")
     \/ Goto(h, "uncertain") /\ UNCHANGED provider
     \/ Goto(h, "failed") /\ UNCHANGED provider
  /\ UNCHANGED table

\* The batch; it may fail, and so may the SELECT after it.
BookCommit(h) ==
  LET r == req[h]
  IN  /\ r.at = "commit"
      /\ \/ /\ job' = IF job.status = "booking"
                      THEN [status |-> r.status, trip |-> r.trip, last |-> clock] ELSE job
            /\ order' = IF order.status = "ready"
                        THEN [status |-> "assigned", shipper |-> None, delivery |->
                                IF r.status = "assigning" THEN "assigning" ELSE "assigned"]
                        ELSE order
            /\ End(h) \/ Goto(h, "uncertain")
         \/ Goto(h, "uncertain") /\ UNCHANGED <<job, order>>
      /\ UNCHANGED <<shippers, recorded, processed, flagged, charged, left, provider>>

\* A bug: after an error the row is deleted, so that one can book again.
BookFail_Forgets(h) ==
  /\ req[h].at \in {"uncertain", "failed"}
  /\ job' = [status |-> "none", trip |-> None, last |-> 0]
  /\ End(h)
  /\ UNCHANGED <<order, shippers, recorded, processed, flagged, charged, left, provider>>

BookFail(h) ==
  /\ req[h].at \in {"uncertain", "failed"}
  /\ job' = [job EXCEPT !.status = req[h].at]
  /\ flagged' = TRUE
  /\ End(h)
  /\ UNCHANGED <<order, shippers, recorded, processed, charged, left, provider>>

(* processLalamoveWebhook.                                                 *)

\* The job of the trip, as it is when the webhook arrives.
Look(h, n) ==
  req' = [req EXCEPT ![h] = [Idle EXCEPT !.at = "record", !.news = n,
                               !.matched = (job.trip = n.trip), !.last = job.last]]

Receive(h) ==
  /\ Begins(h, "webhook")
  /\ \E n \in news : Look(h, n)
  /\ UNCHANGED <<table, provider>>

\* The events of refreshes come once; only those of webhooks are kept.
Kept(events, n) == IF n.polled THEN events ELSE events \cup {n}

\* The event's primary key tells repeated webhooks; unmatched and stale ones end here.
RecordNews(h) ==
  LET r == req[h]
  IN  /\ r.at = "record"
      /\ recorded' = Kept(recorded, r.news)
      /\ IF r.news \in recorded
         THEN End(h) /\ UNCHANGED <<processed, flagged>>
         ELSE IF ~ r.matched \/ r.news.at < r.last
         THEN /\ End(h)
              /\ processed' = Kept(processed, r.news)
              /\ flagged' = (flagged \/ ~ r.matched)
         ELSE /\ req' = [req EXCEPT ![h] = [Idle EXCEPT !.news = r.news,
                            !.at = IF r.news.next # None THEN "replace" ELSE "apply"]]
              /\ UNCHANGED <<processed, flagged>>
      /\ UNCHANGED <<order, shippers, job, charged, left, provider>>

ReplaceTrip(h) ==
  /\ req[h].at = "replace"
  /\ job' = [job EXCEPT !.trip = req[h].news.next, !.last = req[h].news.at]
  /\ Goto(h, "apply")
  /\ UNCHANGED <<order, shippers, recorded, processed, flagged, charged, left, provider>>

\* A bug: the provider's word is written into the delivery column.
Told_RawStatus(o, status) ==
  CASE status \in {"assigning", "assigned"} /\ o.status \in {"ready", "assigned"} ->
         [status |-> "assigned", delivery |-> status, shipper |-> None]
    [] status = "picked_up" /\ o.status \in {"ready", "assigned", "picked_up"} ->
         [o EXCEPT !.status = status, !.delivery = status]
    [] OTHER -> o

\* A bug: a trip that was called off takes the order back whatever became of it.
Told_AlwaysBack(o, status) ==
  IF status = Stopped THEN [o EXCEPT !.status = "ready", !.delivery = "unassigned"] ELSE o

\* The order after news of its trip.
Told(o, status) ==
  CASE status \in {"assigning", "assigned"} /\ o.status \in {"ready", "assigned"} ->
         [status |-> "assigned", delivery |-> status, shipper |-> None]
    [] status = "picked_up" /\ o.status \in {"ready", "assigned", "picked_up"} ->
         [o EXCEPT !.status = "picked_up", !.delivery = "picked-up"]
    [] status = "completed" /\ o.status # "delivered" ->
         [o EXCEPT !.status = "delivered", !.delivery = "delivered"]
    [] status = Stopped /\ o.status \in {"ready", "assigned"} ->
         [o EXCEPT !.status = "ready", !.delivery = "unassigned"]
    [] OTHER -> o

\* A bug: the counter goes down for every confirmation of the delivery.
CountsDown_Again(status) == status = "completed"

CountsDown(status) == status = "completed" /\ order.status # "delivered"

\* A bug: the fee is booked when the goods are picked up.
Charges_Early(status) == status \in {"picked_up", "completed"}

Charges(status) == status = "completed"

ApplyNews(h) ==
  LET n == req[h].news
  IN  /\ req[h].at = "apply"
      /\ job' = [job EXCEPT !.status = n.status, !.last = n.at]
      /\ processed' = Kept(processed, n)
      /\ order' = Told(order, n.status)
      /\ left' = IF CountsDown(n.status) THEN left + 1 ELSE left
      /\ charged' = (charged \/ Charges(n.status))
      /\ End(h)
      /\ UNCHANGED <<shippers, recorded, flagged, provider>>

(* refreshLalamoveDelivery: the state of the trip is asked for and then     *)
(* goes the way of a webhook of this moment.                                *)

\* The job's trip and the provider's answer; an error ends the request.
RefreshPoll(h) ==
  /\ Begins(h, "refresh") /\ job.trip # None
  /\ req' = [req EXCEPT ![h].at = "stamp", ![h].trip = job.trip, ![h].status =
               IF trips[job.trip] \in ReportedStatuses THEN trips[job.trip] ELSE "booked"]
  /\ UNCHANGED <<table, provider>>

RefreshStamp(h) ==
  /\ req[h].at = "stamp"
  /\ \E now \in {clock, clock + 1} :
       /\ now <= MaxTime /\ clock' = now
       /\ Look(h, [trip |-> req[h].trip, status |-> req[h].status, at |-> now,
                   next |-> None, polled |-> TRUE])
  /\ UNCHANGED <<table, trips, news>>

(* cancelLalamoveDelivery.                                                 *)

\* A bug: a refusal of the provider is ignored.
CancelCall_IgnoresRefusal(h) ==
  /\ Begins(h, "cancel") /\ job.trip # None
  /\ Goto(h, "cancelled")
  /\ UNCHANGED <<table, provider>>

\* The job's trip is called off while the provider allows it; the answer may be lost.
CancelCall(h) ==
  /\ Begins(h, "cancel") /\ job.trip # None
  /\ trips[job.trip] \in {"assigning", "assigned"}
  /\ Report(job.trip, Stopped)
  /\ Goto(h, "cancelled") \/ UNCHANGED req
  /\ UNCHANGED table

CancelCommit(h) ==
  /\ req[h].at = "cancelled"
  /\ job' = [job EXCEPT !.status = Stopped, !.last = clock]
  /\ order' = IF order.status = "assigned"
              THEN [order EXCEPT !.status = "ready", !.delivery = "unassigned"] ELSE order
  /\ End(h)
  /\ UNCHANGED <<shippers, recorded, processed, flagged, charged, left, provider>>

\* A restart, an error of the database, the victim of a deadlock.
Abort(h) == req[h] # Idle /\ End(h) /\ UNCHANGED <<table, provider>>

-----------------------------------------------------------------------------
Booking(h) == BookRead(h) \/ BookRefused(h) \/ BookInsert(h) \/ Place(h) \/ BookCommit(h) \/ BookFail(h)
Dispatching(h) == Advance(h) \/ AutoRead(h) \/ AutoQuote(h)
Listening(h) == Receive(h) \/ RecordNews(h) \/ ReplaceTrip(h) \/ ApplyNews(h)
Refreshing(h) == RefreshPoll(h) \/ RefreshStamp(h)
Cancelling(h) == CancelCall(h) \/ CancelCommit(h)

Next ==
  \/ \E h \in Handlers :
       Booking(h) \/ Dispatching(h) \/ Listening(h) \/ Refreshing(h) \/ Cancelling(h) \/ Abort(h)
  \/ \E s \in Shippers : Assign(s) \/ ConfirmRoute(s)
  \/ \E t \in Trips : Travel(t) \/ \E u \in Trips \ {t} : Replace(t, u)

Spec == Init /\ [][Next]_vars

-----------------------------------------------------------------------------
Labels ==
  {"idle", "auto", "auto.quote", "read", "insert", "place", "commit", "uncertain", "failed",
   "record", "replace", "apply", "stamp", "cancelled"}

AboutTrip == {"commit", "stamp"}
AboutNews == {"record", "replace", "apply"}

TypeOK ==
  /\ order \in [status : OrderStatuses, delivery : DeliveryStatuses \cup {"assigning"},
                shipper : Shippers \cup {None}]
  /\ shippers \in [Shippers -> {"available", "busy"}]
  /\ job \in [status : JobStatuses, trip : Trips \cup {None}, last : Nat]
  /\ recorded \subseteq News /\ processed \subseteq News
  /\ flagged \in BOOLEAN /\ charged \in BOOLEAN /\ left \in Nat
  /\ req \in [Handlers -> [at : Labels, trip : Trips \cup {None},
                           status : ReportedStatuses, news : News \cup {None},
                           matched : BOOLEAN, last : Nat]]
  /\ \A h \in Handlers :
       /\ req[h].at \in AboutTrip => req[h].trip \in Trips
       /\ req[h].at \in AboutNews => req[h].news \in News
  /\ trips \in [Trips -> TripStates]
  /\ news \subseteq News /\ clock \in Nat

\* docs/LALAMOVE_SETUP.md:20: one trip for an order.  However many requests ask for
\* a courier, whatever answers get lost, the provider makes one trip (a replaced
\* one counts with its successor).
Ordered == {t \in Trips : trips[t] \notin {"none", "replaced"}}
OneTrip == \A t, u \in Ordered : t = u

\* A trip that runs at the provider is never unknown to everybody: the job has it or
\* one that it replaced, or is marked as unfinished ("booking"), or an alert asks to
\* look for it.
RunningIsKnown ==
  \A t \in Trips : trips[t] \in {"assigning", "assigned", "picked_up"} =>
    \/ job.trip # None /\ (job.trip = t \/ trips[job.trip] = "replaced")
    \/ job.status = "booking" \/ flagged

\* The order is taken off the counter of orders in progress once, when it is
\* delivered, whether the staff or the courier or both report it.
DeliveredCountedOnce == left = IF order.status = "delivered" THEN 1 ELSE 0

\* The fee is booked for a trip that was completed, of an order that is delivered.
ChargedForDelivery ==
  charged => order.status = "delivered" /\ \E t \in Trips : trips[t] = "completed"

\* Late and repeated news do not turn the order back: the only way back is from
\* "assigned" to "ready", a failed delivery can only turn out to be delivered, and
\* a delivered order stays delivered.
Rank(status) ==
  CASE status = "preparing" -> 0 [] status = "ready" -> 1 [] status = "assigned" -> 2
    [] status = "picked_up" -> 3 [] status = "delivering" -> 4
    [] status = "delivery_failed" -> 5 [] status = "delivered" -> 6 [] OTHER -> 7
NoWayBack ==
  [][\/ Rank(order.status) <= Rank(order'.status)
     \/ order.status = "assigned" /\ order'.status = "ready"]_vars

\* The job does not run ahead of its trip: that it was picked up, completed or called
\* off is said only of a trip that was, whatever webhooks, refreshes and cancellations
\* overtake each other.
JobNotAheadOfTrip ==
  /\ job.status = "picked_up" => trips[job.trip] \in {"picked_up", "completed"}
  /\ job.status \in {"completed", Stopped} => trips[job.trip] = job.status

\* docs/LALAMOVE_SETUP.md:26: when the webhook confirms COMPLETED, the fee of the
\* trip is recorded among expenses and in the ledger.
CompletedIsCharged ==
  \A n \in processed : n.trip = job.trip /\ n.status = "completed" => charged

(* For TLC: handlers and trips are interchangeable. *)
Symmetry == Permutations(Handlers) \cup Permutations(Trips)
=============================================================================
