--------------------------- MODULE Courier_proof ----------------------------
(***************************************************************************)
(* What holds of the courier whatever the number of requests, trips and    *)
(* shippers: types, one trip for an order, the counter of the orders in    *)
(* progress, that late news do not turn the order back, that a trip that   *)
(* runs is known to somebody, that the fee is booked only for a completed  *)
(* one, and that the job does not run ahead of its trip.                   *)
(***************************************************************************)
EXTENDS Courier, TLAPS

Requests ==
  [at : Labels, trip : Trips \cup {None}, status : ReportedStatuses,
   news : News \cup {None}, matched : BOOLEAN, last : Nat]

OrderRow ==
  [status : OrderStatuses, delivery : DeliveryStatuses \cup {"assigning"},
   shipper : Shippers \cup {None}]

JobRow == [status : JobStatuses, trip : Trips \cup {None}, last : Nat]

\* What a request holds fits the place it is at.
Fits(r) == (r.at \in AboutTrip => r.trip \in Trips) /\ (r.at \in AboutNews => r.news \in News)

-----------------------------------------------------------------------------
(* Types.                                                                  *)

LEMMA IdleFits == Idle \in Requests /\ Fits(Idle) /\ Idle.at = "idle"
  BY SMT DEF Idle, Requests, Fits, Labels, ReportedStatuses, AboutTrip, AboutNews

\* A request goes on, or ends, with what it holds.
LEMMA GotoFits ==
  ASSUME TypeOK, NEW h \in Handlers, NEW label \in Labels, Goto(h, label),
         label \in AboutTrip => req[h].trip \in Trips,
         label \in AboutNews => req[h].news \in News
  PROVE  req' \in [Handlers -> Requests] /\ \A g \in Handlers : Fits(req'[g])
<1>1. req \in [Handlers -> Requests] /\ \A g \in Handlers : Fits(req[g])
  BY DEF TypeOK, Requests, Fits
<1>2. req[h] \in Requests
  BY <1>1
<1> DEFINE r == [req[h] EXCEPT !.at = label]
<1>3. r \in Requests /\ Fits(r)
  BY <1>2 DEF Requests, Fits
<1>4. req' = [req EXCEPT ![h] = r]
  BY <1>1 DEF Goto
<1> HIDE DEF r
<1> QED
  BY <1>1, <1>3, <1>4

LEMMA EndFits ==
  ASSUME TypeOK, NEW h \in Handlers, End(h)
  PROVE  req' \in [Handlers -> Requests] /\ \A g \in Handlers : Fits(req'[g])
<1>1. req \in [Handlers -> Requests] /\ \A g \in Handlers : Fits(req[g])
  BY DEF TypeOK, Requests, Fits
<1> QED
  BY <1>1, IdleFits DEF End

\* The request looks at the job with news in its hand.
LEMMA LookFits ==
  ASSUME TypeOK, NEW h \in Handlers, NEW n \in News, Look(h, n)
  PROVE  req' \in [Handlers -> Requests] /\ \A g \in Handlers : Fits(req'[g])
<1>1. req \in [Handlers -> Requests] /\ \A g \in Handlers : Fits(req[g])
  BY DEF TypeOK, Requests, Fits
<1> DEFINE r == [Idle EXCEPT !.at = "record", !.news = n,
                             !.matched = (job.trip = n.trip), !.last = job.last]
<1>2. job.last \in Nat
  BY DEF TypeOK
<1>3. (job.trip = n.trip) \in BOOLEAN
  OBVIOUS
<1>4. r \in Requests /\ Fits(r)
  BY <1>2, <1>3, IdleFits DEF Requests, Fits, Labels, AboutTrip, AboutNews
<1>5. req' = [req EXCEPT ![h] = r]
  BY DEF Look
<1> HIDE DEF r
<1> QED
  BY <1>1, <1>4, <1>5

TablesFit ==
  /\ order \in OrderRow /\ shippers \in [Shippers -> {"available", "busy"}] /\ job \in JobRow
  /\ recorded \subseteq News /\ processed \subseteq News
  /\ flagged \in BOOLEAN /\ charged \in BOOLEAN /\ left \in Nat

ProviderFits == trips \in [Trips -> TripStates] /\ news \subseteq News /\ clock \in Nat

RequestsFit == req \in [Handlers -> Requests] /\ \A h \in Handlers : Fits(req[h])

LEMMA TypeParts == TypeOK => TablesFit /\ ProviderFits /\ RequestsFit
  BY DEF TypeOK, TablesFit, ProviderFits, RequestsFit, OrderRow, JobRow, Requests, Fits

LEMMA TypeWhole == TablesFit' /\ ProviderFits' /\ RequestsFit' => TypeOK'
  BY DEF TypeOK, TablesFit, ProviderFits, RequestsFit, OrderRow, JobRow, Requests, Fits

LEMMA TablesStay ==
  ASSUME TypeOK, UNCHANGED table
  PROVE  TablesFit'
  BY TypeParts DEF table, TablesFit

LEMMA ProviderStays ==
  ASSUME TypeOK, UNCHANGED provider
  PROVE  ProviderFits'
  BY TypeParts DEF provider, ProviderFits

\* The provider reports a state that a webhook has a status for.
ToldStates == {"assigning", "assigned", "picked_up", "completed", Stopped}

LEMMA ReportFits ==
  ASSUME TypeOK, NEW t \in Trips, NEW state \in ToldStates, Report(t, state)
  PROVE  ProviderFits'
<1>1. state \in TripStates /\ state \in ReportedStatuses
  BY DEF ToldStates, TripStates, ReportedStatuses
<1>2. ProviderFits
  BY TypeParts
<1>3. clock' = clock + 1 /\ clock' \in Nat
  BY <1>2 DEF Report, Tick, ProviderFits
<1>4. [trip |-> t, status |-> state, at |-> clock + 1, next |-> None, polled |-> FALSE] \in News
  BY <1>1, <1>3 DEF News
<1> QED
  BY <1>1, <1>2, <1>3, <1>4 DEF Report, ProviderFits

LEMMA ReplaceFits ==
  ASSUME TypeOK, NEW t \in Trips, NEW u \in Trips, Replace(t, u)
  PROVE  ProviderFits'
<1>1. "replaced" \in TripStates /\ "assigning" \in TripStates /\ "booked" \in ReportedStatuses
  BY DEF TripStates, ReportedStatuses
<1>2. ProviderFits
  BY TypeParts
<1>3. clock' = clock + 1 /\ clock' \in Nat
  BY <1>2 DEF Replace, Tick, ProviderFits
<1>4. [trip |-> t, status |-> "booked", at |-> clock + 1, next |-> u, polled |-> FALSE] \in News
  BY <1>1, <1>3 DEF News
<1> QED
  BY <1>1, <1>2, <1>3, <1>4 DEF Replace, ProviderFits

LEMMA StaffTypes ==
  ASSUME TypeOK, \/ \E h \in Handlers : Advance(h)
                 \/ \E s \in Shippers : Assign(s) \/ ConfirmRoute(s)
  PROVE  TypeOK'
<1>1. TablesFit /\ ProviderFits /\ RequestsFit
  BY TypeParts
<1>2. ASSUME NEW h \in Handlers, Advance(h)
      PROVE  TypeOK'
  <2>1. PICK to \in OrderStatuses :
          /\ order' = [order EXCEPT !.status = to,
                                    !.delivery = deliveryForOrder(to, @, "delivery")]
          /\ shippers' = [s \in Shippers |->
                            IF s = order.shipper /\ LeavesShipper(to) THEN "available"
                            ELSE shippers[s]]
          /\ left' = IF to = "delivered" THEN left + 1 ELSE left
          /\ req' = IF to = "ready" /\ AutoBook
                    THEN [req EXCEPT ![h].at = "auto"] ELSE req
    BY <1>2 DEF Advance
  <2>2. order' \in OrderRow
    <3>1. deliveryForOrder(to, order.delivery, "delivery") \in DeliveryStatuses \cup {"assigning"}
      BY <1>1 DEF deliveryForOrder, DeliveryStatuses, CounterTypes, TablesFit, OrderRow
    <3> QED
      BY <1>1, <2>1, <3>1 DEF TablesFit, OrderRow
  <2>3. shippers' \in [Shippers -> {"available", "busy"}]
    BY <1>1, <2>1 DEF TablesFit
  <2>4. left' \in Nat
    BY <1>1, <2>1 DEF TablesFit
  <2>5. RequestsFit'
    <3>1. CASE to = "ready" /\ AutoBook
      <4>1. Goto(h, "auto")
        BY <2>1, <3>1 DEF Goto
      <4> QED
        BY <4>1, GotoFits DEF Labels, AboutTrip, AboutNews, RequestsFit
    <3>2. CASE ~ (to = "ready" /\ AutoBook)
      BY <1>1, <2>1, <3>2 DEF RequestsFit
    <3> QED
      BY <3>1, <3>2
  <2>6. TablesFit'
    BY <1>1, <1>2, <2>2, <2>3, <2>4 DEF Advance, TablesFit
  <2> QED
    BY <1>2, <2>5, <2>6, ProviderStays, TypeWhole DEF Advance
<1>3. ASSUME NEW s \in Shippers, GiveTo(s)
      PROVE  TypeOK'
  <2>1. order' \in OrderRow
    BY <1>3 DEF GiveTo, OrderRow, OrderStatuses, DeliveryStatuses
  <2>2. TablesFit'
    BY <1>1, <1>3, <2>1 DEF GiveTo, TablesFit
  <2>3. RequestsFit'
    BY <1>1, <1>3 DEF GiveTo, RequestsFit
  <2> QED
    BY <1>3, <2>2, <2>3, ProviderStays, TypeWhole DEF GiveTo
<1> QED
  BY <1>2, <1>3 DEF Assign, ConfirmRoute

\* Steps that leave tables and provider alone.
LEMMA QuietTypes ==
  ASSUME TypeOK, UNCHANGED <<table, provider>>, RequestsFit'
  PROVE  TypeOK'
<1>1. UNCHANGED table /\ UNCHANGED provider
  OBVIOUS
<1> QED
  BY <1>1, TablesStay, ProviderStays, TypeWhole

LEMMA DispatchTypes ==
  ASSUME TypeOK, NEW h \in Handlers,
         AutoRead(h) \/ AutoQuote(h) \/ BookRead(h) \/ BookRefused(h) \/ Abort(h)
  PROVE  TypeOK'
<1>1. UNCHANGED <<table, provider>>
  BY DEF AutoRead, AutoQuote, BookRead, BookRefused, Abort
<1>2. Goto(h, "auto.quote") \/ Goto(h, "read") \/ Goto(h, "insert") \/ End(h)
  BY DEF AutoRead, AutoQuote, BookRead, BookRefused, Abort
<1>3. RequestsFit'
  BY <1>2, GotoFits, EndFits DEF RequestsFit, Labels, AboutTrip, AboutNews
<1> QED
  BY <1>1, <1>3, QuietTypes

LEMMA BookTypes ==
  ASSUME TypeOK, NEW h \in Handlers, BookInsert(h) \/ Place(h) \/ BookCommit(h) \/ BookFail(h)
  PROVE  TypeOK'
<1> DEFINE r == req[h]
<1>1. TablesFit /\ ProviderFits /\ RequestsFit
  BY TypeParts
<1>2. r \in Requests /\ Fits(r)
  BY <1>1 DEF RequestsFit
<1>3. CASE BookInsert(h)
  <2>1. job' \in JobRow
    BY <1>1, <1>3 DEF BookInsert, TablesFit, JobRow, JobStatuses
  <2>2. Goto(h, "place") \/ End(h)
    BY <1>3 DEF BookInsert
  <2>3. RequestsFit'
    BY <2>2, GotoFits, EndFits DEF RequestsFit, Labels, AboutTrip, AboutNews
  <2>4. TablesFit'
    BY <1>1, <1>3, <2>1 DEF BookInsert, TablesFit
  <2> QED
    BY <1>3, <2>3, <2>4, ProviderStays, TypeWhole DEF BookInsert
<1>4. CASE Place(h)
  <2>1. TablesFit'
    BY <1>4, TablesStay DEF Place
  <2>2. CASE (Goto(h, "uncertain") \/ Goto(h, "failed")) /\ UNCHANGED provider
    <3>1. RequestsFit'
      BY <2>2, GotoFits DEF RequestsFit, Labels, AboutTrip, AboutNews
    <3> QED
      BY <2>1, <2>2, <3>1, ProviderStays, TypeWhole
  <2>3. ASSUME NEW t \in Trips, Report(t, "assigning"),
               \/ req' = [req EXCEPT ![h].at = "commit", ![h].trip = t, ![h].status = "assigning"]
               \/ Goto(h, "uncertain")
        PROVE  TypeOK'
    <3>1. ProviderFits'
      BY <2>3, ReportFits DEF ToldStates
    <3>2. CASE Goto(h, "uncertain")
      <4>1. RequestsFit'
        BY <3>2, GotoFits DEF RequestsFit, Labels, AboutTrip, AboutNews
      <4> QED
        BY <2>1, <3>1, <4>1, TypeWhole
    <3>3. CASE req' = [req EXCEPT ![h].at = "commit", ![h].trip = t, ![h].status = "assigning"]
      <4> DEFINE q == [r EXCEPT !.at = "commit", !.trip = t, !.status = "assigning"]
      <4>1. q \in Requests /\ Fits(q)
        BY <1>2 DEF Requests, Fits, Labels, ReportedStatuses, AboutTrip, AboutNews
      <4>2. req' = [req EXCEPT ![h] = q]
        BY <1>1, <3>3 DEF RequestsFit
      <4> HIDE DEF q
      <4>3. RequestsFit'
        BY <1>1, <4>1, <4>2 DEF RequestsFit
      <4> QED
        BY <2>1, <3>1, <4>3, TypeWhole
    <3> QED
      BY <2>3, <3>2, <3>3
  <2> QED
    BY <1>4, <2>2, <2>3 DEF Place
<1>5. CASE BookCommit(h)
  <2>1. r.at = "commit" /\ r.trip \in Trips /\ r.status \in JobStatuses
    BY <1>2, <1>5 DEF BookCommit, Fits, AboutTrip, Requests, JobStatuses
  <2>2. clock \in Nat
    BY <1>1 DEF ProviderFits
  <2>3. job' \in JobRow
    BY <1>1, <1>5, <2>1, <2>2 DEF BookCommit, TablesFit, JobRow
  <2>4. order' \in OrderRow
    <3>1. [status |-> "assigned", shipper |-> None, delivery |->
             IF r.status = "assigning" THEN "assigning" ELSE "assigned"] \in OrderRow
      BY DEF OrderRow, OrderStatuses, DeliveryStatuses
    <3> QED
      BY <1>1, <1>5, <3>1 DEF BookCommit, TablesFit
  <2>5. Goto(h, "uncertain") \/ End(h)
    BY <1>5 DEF BookCommit
  <2>6. RequestsFit'
    BY <2>5, GotoFits, EndFits DEF RequestsFit, Labels, AboutTrip, AboutNews
  <2>7. TablesFit'
    BY <1>1, <1>5, <2>3, <2>4 DEF BookCommit, TablesFit
  <2> QED
    BY <1>5, <2>6, <2>7, ProviderStays, TypeWhole DEF BookCommit
<1>6. CASE BookFail(h)
  <2>1. job' \in JobRow
    BY <1>1, <1>6 DEF BookFail, TablesFit, JobRow, JobStatuses
  <2>2. RequestsFit'
    BY <1>6, EndFits DEF BookFail, RequestsFit
  <2>3. TablesFit'
    BY <1>1, <1>6, <2>1 DEF BookFail, TablesFit
  <2> QED
    BY <1>6, <2>2, <2>3, ProviderStays, TypeWhole DEF BookFail
<1> QED
  BY <1>3, <1>4, <1>5, <1>6

LEMMA NewsTypes ==
  ASSUME TypeOK, NEW h \in Handlers,
         Receive(h) \/ RecordNews(h) \/ ReplaceTrip(h) \/ ApplyNews(h)
  PROVE  TypeOK'
<1> DEFINE r == req[h]
<1>1. TablesFit /\ ProviderFits /\ RequestsFit
  BY TypeParts
<1>2. r \in Requests /\ Fits(r)
  BY <1>1 DEF RequestsFit
<1>3. CASE Receive(h)
  <2>1. UNCHANGED <<table, provider>>
    BY <1>3 DEF Receive
  <2>2. RequestsFit'
    BY <1>1, <1>3, LookFits DEF Receive, ProviderFits, RequestsFit
  <2> QED
    BY <2>1, <2>2, QuietTypes
<1>4. CASE RecordNews(h)
  <2>1. r.at = "record" /\ r.news \in News
    BY <1>2, <1>4 DEF RecordNews, Fits, AboutNews
  <2>2. recorded' \subseteq News /\ processed' \subseteq News
    BY <1>1, <1>4, <2>1 DEF RecordNews, TablesFit, Kept
  <2>3. flagged' \in BOOLEAN
    BY <1>1, <1>4 DEF RecordNews, TablesFit
  <2>4. TablesFit'
    BY <1>1, <1>4, <2>2, <2>3 DEF RecordNews, TablesFit
  <2>5. RequestsFit'
    <3>1. CASE End(h)
      BY <3>1, EndFits DEF RequestsFit
    <3>2. CASE ~ End(h)
      <4> DEFINE q == [Idle EXCEPT !.news = r.news,
                         !.at = IF r.news.next # None THEN "replace" ELSE "apply"]
      <4>1. q \in Requests /\ Fits(q)
        BY <2>1, IdleFits DEF Requests, Fits, Labels, AboutTrip, AboutNews
      <4>2. req' = [req EXCEPT ![h] = q]
        BY <1>4, <3>2 DEF RecordNews
      <4> HIDE DEF q
      <4> QED
        BY <1>1, <4>1, <4>2 DEF RequestsFit
    <3> QED
      BY <3>1, <3>2
  <2> QED
    BY <1>4, <2>4, <2>5, ProviderStays, TypeWhole DEF RecordNews
<1>5. CASE ReplaceTrip(h)
  <2>1. r.at = "replace" /\ r.news \in News
    BY <1>2, <1>5 DEF ReplaceTrip, Fits, AboutNews
  <2>2. r.news.next \in Trips \cup {None} /\ r.news.at \in Nat
    BY <2>1 DEF News
  <2>3. job' \in JobRow
    BY <1>1, <1>5, <2>2 DEF ReplaceTrip, TablesFit, JobRow
  <2>4. TablesFit'
    BY <1>1, <1>5, <2>3 DEF ReplaceTrip, TablesFit
  <2>5. Goto(h, "apply")
    BY <1>5 DEF ReplaceTrip
  <2>6. RequestsFit'
    BY <2>1, <2>5, GotoFits DEF RequestsFit, Labels, AboutTrip, AboutNews
  <2> QED
    BY <1>5, <2>4, <2>6, ProviderStays, TypeWhole DEF ReplaceTrip
<1>6. CASE ApplyNews(h)
  <2>1. r.at = "apply" /\ r.news \in News
    BY <1>2, <1>6 DEF ApplyNews, Fits, AboutNews
  <2>2. r.news.status \in JobStatuses /\ r.news.at \in Nat
    BY <2>1 DEF News, JobStatuses
  <2>3. job' \in JobRow
    BY <1>1, <1>6, <2>2 DEF ApplyNews, TablesFit, JobRow
  <2>4. order' \in OrderRow
    <3>1. order \in OrderRow /\ order' = Told(order, r.news.status)
      BY <1>1, <1>6 DEF ApplyNews, TablesFit
    <3> QED
      BY <3>1 DEF Told, OrderRow, OrderStatuses, DeliveryStatuses
  <2>5. processed' \subseteq News
    BY <1>1, <1>6, <2>1 DEF ApplyNews, TablesFit, Kept
  <2>6. left' \in Nat
    BY <1>1, <1>6 DEF ApplyNews, TablesFit
  <2>7. charged' \in BOOLEAN
    BY <1>1, <1>6 DEF ApplyNews, TablesFit, Charges
  <2>8. TablesFit'
    BY <1>1, <1>6, <2>3, <2>4, <2>5, <2>6, <2>7 DEF ApplyNews, TablesFit
  <2>9. RequestsFit'
    BY <1>6, EndFits DEF ApplyNews, RequestsFit
  <2> QED
    BY <1>6, <2>8, <2>9, ProviderStays, TypeWhole DEF ApplyNews
<1> QED
  BY <1>3, <1>4, <1>5, <1>6

LEMMA PollTypes ==
  ASSUME TypeOK, NEW h \in Handlers,
         RefreshPoll(h) \/ RefreshStamp(h) \/ CancelCall(h) \/ CancelCommit(h)
  PROVE  TypeOK'
<1> DEFINE r == req[h]
<1>1. TablesFit /\ ProviderFits /\ RequestsFit
  BY TypeParts
<1>2. r \in Requests /\ Fits(r)
  BY <1>1 DEF RequestsFit
<1>3. job.trip \in Trips \cup {None}
  BY <1>1 DEF TablesFit, JobRow
<1>4. CASE RefreshPoll(h)
  <2>1. job.trip \in Trips
    BY <1>3, <1>4 DEF RefreshPoll
  <2>2. PICK status \in ReportedStatuses :
          req' = [req EXCEPT ![h].at = "stamp", ![h].trip = job.trip, ![h].status = status]
    BY <1>4 DEF RefreshPoll, ReportedStatuses
  <2> DEFINE q == [r EXCEPT !.at = "stamp", !.trip = job.trip, !.status = status]
  <2>3. q \in Requests /\ Fits(q)
    BY <1>2, <2>1, <2>2 DEF Requests, Fits, Labels, AboutTrip, AboutNews
  <2>4. req' = [req EXCEPT ![h] = q]
    BY <1>1, <2>2 DEF RequestsFit
  <2> HIDE DEF q
  <2>5. RequestsFit'
    BY <1>1, <2>3, <2>4 DEF RequestsFit
  <2>6. UNCHANGED <<table, provider>>
    BY <1>4 DEF RefreshPoll
  <2> QED
    BY <2>5, <2>6, QuietTypes
<1>5. CASE RefreshStamp(h)
  <2>1. r.at = "stamp" /\ r.trip \in Trips /\ r.status \in ReportedStatuses
    BY <1>2, <1>5 DEF RefreshStamp, Fits, AboutTrip, Requests
  <2>2. PICK now \in {clock, clock + 1} :
          /\ clock' = now
          /\ Look(h, [trip |-> r.trip, status |-> r.status, at |-> now,
                      next |-> None, polled |-> TRUE])
    BY <1>5 DEF RefreshStamp
  <2>3. now \in Nat
    BY <1>1, <2>2 DEF ProviderFits
  <2>4. [trip |-> r.trip, status |-> r.status, at |-> now, next |-> None, polled |-> TRUE] \in News
    BY <2>1, <2>3 DEF News
  <2>5. RequestsFit'
    BY <2>2, <2>4, LookFits DEF RequestsFit
  <2>6. TablesFit'
    BY <1>5, TablesStay DEF RefreshStamp
  <2>7. ProviderFits'
    BY <1>1, <1>5, <2>2, <2>3 DEF RefreshStamp, ProviderFits
  <2> QED
    BY <2>5, <2>6, <2>7, TypeWhole
<1>6. CASE CancelCall(h)
  <2>1. job.trip \in Trips
    BY <1>3, <1>6 DEF CancelCall
  <2>2. ProviderFits'
    BY <1>6, <2>1, ReportFits DEF CancelCall, ToldStates
  <2>3. RequestsFit'
    BY <1>1, <1>6, GotoFits DEF CancelCall, RequestsFit, Labels, AboutTrip, AboutNews
  <2> QED
    BY <1>6, <2>2, <2>3, TablesStay, TypeWhole DEF CancelCall
<1>7. CASE CancelCommit(h)
  <2>1. job' \in JobRow
    BY <1>1, <1>7 DEF CancelCommit, TablesFit, ProviderFits, JobRow, JobStatuses, ReportedStatuses
  <2>2. order' \in OrderRow
    BY <1>1, <1>7 DEF CancelCommit, TablesFit, OrderRow, OrderStatuses, DeliveryStatuses
  <2>3. TablesFit'
    BY <1>1, <1>7, <2>1, <2>2 DEF CancelCommit, TablesFit
  <2>4. RequestsFit'
    BY <1>7, EndFits DEF CancelCommit, RequestsFit
  <2> QED
    BY <1>7, <2>3, <2>4, ProviderStays, TypeWhole DEF CancelCommit
<1> QED
  BY <1>4, <1>5, <1>6, <1>7

LEMMA ProviderTypes ==
  ASSUME TypeOK, NEW t \in Trips, Travel(t) \/ \E u \in Trips : Replace(t, u)
  PROVE  TypeOK'
<1>1. UNCHANGED <<table, req>>
  BY DEF Travel, Replace
<1>2. ProviderFits'
  <2>1. CASE Travel(t)
    <3>1. PICK state \in TripStates : <<trips[t], state>> \in TripSteps /\ Report(t, state)
      BY <2>1 DEF Travel
    <3>2. state \in ToldStates
      BY <3>1 DEF TripSteps, ToldStates
    <3> QED
      BY <3>1, <3>2, ReportFits
  <2>2. CASE \E u \in Trips : Replace(t, u)
    BY <2>2, ReplaceFits
  <2> QED
    BY <2>1, <2>2
<1>3. RequestsFit'
  BY <1>1, TypeParts DEF RequestsFit
<1> QED
  BY <1>1, <1>2, <1>3, TablesStay, TypeWhole

LEMMA TypeInit == Init => TypeOK
<1> SUFFICES ASSUME Init
             PROVE  TypeOK
  OBVIOUS
<1>1. req \in [Handlers -> Requests] /\ \A h \in Handlers : Fits(req[h])
  BY IdleFits DEF Init
<1>2. order \in OrderRow /\ job \in JobRow
  BY DEF Init, OrderRow, JobRow, OrderStatuses, DeliveryStatuses, JobStatuses
<1>3. trips \in [Trips -> TripStates] /\ shippers \in [Shippers -> {"available", "busy"}]
  BY DEF Init, TripStates
<1> QED
  BY <1>1, <1>2, <1>3 DEF Init, TypeOK, OrderRow, JobRow, Requests, Fits

LEMMA TypeStep == TypeOK /\ [Next]_vars => TypeOK'
<1> SUFFICES ASSUME TypeOK, [Next]_vars
             PROVE  TypeOK'
  OBVIOUS
<1>1. ASSUME NEW h \in Handlers,
             \/ Booking(h) \/ Dispatching(h) \/ Listening(h) \/ Refreshing(h) \/ Cancelling(h)
             \/ Abort(h)
      PROVE  TypeOK'
  BY <1>1, StaffTypes, DispatchTypes, BookTypes, NewsTypes, PollTypes
     DEF Booking, Dispatching, Listening, Refreshing, Cancelling
<1>2. CASE \E s \in Shippers : Assign(s) \/ ConfirmRoute(s)
  BY <1>2, StaffTypes
<1>3. CASE \E t \in Trips : Travel(t) \/ \E u \in Trips \ {t} : Replace(t, u)
  BY <1>3, ProviderTypes
<1>4. CASE UNCHANGED vars
  BY <1>4 DEF vars, TypeOK
<1> QED
  BY <1>1, <1>2, <1>3, <1>4 DEF Next

\* Every table, trip and request has its type in every reachable state.
THEOREM CourierTypesHold == Spec => []TypeOK
  BY TypeInit, TypeStep, PTL DEF Spec

-----------------------------------------------------------------------------
(* The counter of orders in progress.                                      *)

\* What booking, cancelling and the courier's news do to the order's status.
LEMMA CommitMoves ==
  ASSUME TypeOK, NEW h \in Handlers, BookCommit(h) \/ CancelCommit(h)
  PROVE  /\ left' = left
         /\ \/ order' = order
            \/ order.status = "ready" /\ order'.status = "assigned"
            \/ order.status = "assigned" /\ order'.status = "ready"
<1>1. order \in OrderRow
  BY TypeParts DEF TablesFit
<1>2. CASE BookCommit(h)
  <2>1. order' = order \/ (order.status = "ready" /\ order'.status = "assigned")
    BY <1>2 DEF BookCommit
  <2> QED
    BY <1>2, <2>1 DEF BookCommit
<1>3. CASE CancelCommit(h)
  <2>1. order' = IF order.status = "assigned"
                 THEN [order EXCEPT !.status = "ready", !.delivery = "unassigned"] ELSE order
    BY <1>3 DEF CancelCommit
  <2>2. order' = order \/ (order.status = "assigned" /\ order'.status = "ready")
    BY <1>1, <2>1 DEF OrderRow
  <2> QED
    BY <1>3, <2>2 DEF CancelCommit
<1> QED
  BY <1>2, <1>3

LEMMA NewsMoves ==
  ASSUME NEW o \in OrderRow, NEW status
  PROVE  \/ Told(o, status) = o /\ (status = "completed" => o.status = "delivered")
         \/ /\ status # "completed" /\ o.status = "ready"
            /\ Told(o, status).status \in {"ready", "assigned", "picked_up"}
         \/ /\ status # "completed" /\ o.status = "assigned"
            /\ Told(o, status).status \in {"ready", "assigned", "picked_up"}
         \/ status # "completed" /\ o.status = "picked_up" /\ Told(o, status).status = "picked_up"
         \/ status = "completed" /\ Told(o, status).status = "delivered"
<1>1. CASE status \in {"assigning", "assigned"} /\ o.status \in {"ready", "assigned"}
  BY <1>1 DEF Told
<1>2. CASE status = "picked_up" /\ o.status \in {"ready", "assigned", "picked_up"}
  BY <1>2 DEF Told, OrderRow
<1>3. CASE status = "completed" /\ o.status # "delivered"
  BY <1>3 DEF Told, OrderRow, Stopped
<1>4. CASE status = Stopped /\ o.status \in {"ready", "assigned"}
  BY <1>4 DEF Told, OrderRow, Stopped
<1> QED
  BY <1>1, <1>2, <1>3, <1>4 DEF Told

LEMMA CountStep == TypeOK /\ DeliveredCountedOnce /\ [Next]_vars => DeliveredCountedOnce'
<1> SUFFICES ASSUME TypeOK, DeliveredCountedOnce, [Next]_vars
             PROVE  DeliveredCountedOnce'
  OBVIOUS
<1>1. order \in OrderRow /\ left \in Nat
  BY TypeParts DEF TablesFit
<1>2. CASE UNCHANGED <<order, left>>
  BY <1>2 DEF DeliveredCountedOnce
<1>3. ASSUME NEW h \in Handlers, Advance(h)
      PROVE  DeliveredCountedOnce'
  <2>1. order.status # "delivered"
    BY <1>3 DEF Advance, ClosedStatuses
  <2>2. PICK to \in OrderStatuses :
          /\ order'.status = to
          /\ left' = IF to = "delivered" THEN left + 1 ELSE left
    BY <1>1, <1>3 DEF Advance, OrderRow
  <2> QED
    BY <1>1, <2>1, <2>2 DEF DeliveredCountedOnce
<1>4. ASSUME NEW s \in Shippers, GiveTo(s)
      PROVE  DeliveredCountedOnce'
  BY <1>4 DEF GiveTo, DeliveredCountedOnce
<1>5. ASSUME NEW h \in Handlers, BookCommit(h) \/ CancelCommit(h)
      PROVE  DeliveredCountedOnce'
  <2>1. left' = left /\ (order'.status = "delivered" <=> order.status = "delivered")
    BY <1>5, CommitMoves
  <2> QED
    BY <2>1 DEF DeliveredCountedOnce
<1>6. ASSUME NEW h \in Handlers, ApplyNews(h)
      PROVE  DeliveredCountedOnce'
  <2> DEFINE n == req[h].news
  <2>1. order' = Told(order, n.status) /\ left' = IF CountsDown(n.status) THEN left + 1 ELSE left
    BY <1>6 DEF ApplyNews
  <2>2. order'.status = "delivered" <=> order.status = "delivered" \/ n.status = "completed"
    BY <1>1, <2>1, NewsMoves
  <2> QED
    BY <1>1, <2>1, <2>2 DEF CountsDown, DeliveredCountedOnce
<1>7. \/ UNCHANGED <<order, left>>
      \/ \E h \in Handlers : Advance(h) \/ BookCommit(h) \/ CancelCommit(h) \/ ApplyNews(h)
      \/ \E s \in Shippers : GiveTo(s)
  BY DEF Next, vars, table, Booking, Dispatching, Listening, Refreshing, Cancelling, Assign,
         ConfirmRoute, AutoRead, AutoQuote, BookRead, BookRefused, BookInsert, Place, BookFail,
         Receive, RecordNews, ReplaceTrip, RefreshPoll, RefreshStamp, CancelCall, Abort,
         Travel, Replace
<1> QED
  BY <1>2, <1>3, <1>4, <1>5, <1>6, <1>7

\* Staff and courier together take the order off the counter once, when it is delivered.
THEOREM DeliveredCountedOnceHolds == Spec => []DeliveredCountedOnce
<1>1. Init => DeliveredCountedOnce
  BY DEF Init, DeliveredCountedOnce
<1> QED
  BY <1>1, CountStep, CourierTypesHold, PTL DEF Spec

-----------------------------------------------------------------------------
(* No way back.                                                            *)

Forward == {"preparing", "ready", "assigned", "picked_up", "delivering", "delivery_failed",
            "delivered"}

LEMMA StaffGoForward ==
  ASSUME NEW role, NEW from \in Forward, NEW to \in OrderStatuses,
         assertOrderTransition(role, from, to, "delivery", "paid")
  PROVE  to \in Forward /\ Rank(from) <= Rank(to)
<1>1. CASE to = "delivery_failed"
  BY <1>1 DEF assertOrderTransition, MayFail, InDelivery, Forward, Rank
<1>2. CASE to = "cancelled"
  BY <1>2 DEF assertOrderTransition, MayCancel, Forward
<1>3. CASE to \notin {"delivery_failed", "cancelled"}
  <2>1. <<from, to>> \in DeliverySteps \/ from = to
    BY <1>3 DEF assertOrderTransition, MayStep, ShipperSteps, Sequential, Steps, CounterTypes,
                DeliverySteps
  <2>2. CASE from = to
    BY <2>2 DEF Forward, Rank
  <2>3. CASE <<from, to>> \in DeliverySteps
    BY <2>3 DEF DeliverySteps, Forward, Rank
  <2> QED
    BY <2>1, <2>2, <2>3
<1> QED
  BY <1>1, <1>2, <1>3

\* A step of the order's status that NoWayBack allows.
Onward ==
  /\ order'.status \in Forward
  /\ \/ Rank(order.status) <= Rank(order'.status)
     \/ order.status = "assigned" /\ order'.status = "ready"

LEMMA OnwardStep ==
  ASSUME TypeOK, order.status \in Forward, [Next]_vars
  PROVE  Onward
<1>1. order \in OrderRow
  BY TypeParts DEF TablesFit
<1>2. CASE order'.status = order.status
  BY <1>2 DEF Onward, Forward, Rank
<1>3. ASSUME NEW h \in Handlers, Advance(h)
      PROVE  Onward
  <2>1. PICK to \in OrderStatuses, role \in AdvanceRoles :
          /\ order'.status = to
          /\ assertOrderTransition(role, order.status, to, "delivery", "paid")
    BY <1>1, <1>3 DEF Advance, OrderRow
  <2> QED
    BY <2>1, StaffGoForward DEF Onward
<1>4. ASSUME NEW s \in Shippers, GiveTo(s)
      PROVE  Onward
  BY <1>4 DEF GiveTo, Onward, Forward, Rank
<1>5. ASSUME NEW h \in Handlers, BookCommit(h) \/ CancelCommit(h)
      PROVE  Onward
  <2>1. \/ order'.status = order.status
        \/ order.status = "ready" /\ order'.status = "assigned"
        \/ order.status = "assigned" /\ order'.status = "ready"
    BY <1>5, CommitMoves
  <2> QED
    BY <1>2, <2>1 DEF Onward, Forward, Rank
<1>6. ASSUME NEW h \in Handlers, ApplyNews(h)
      PROVE  Onward
  <2>1. order' = Told(order, req[h].news.status)
    BY <1>6 DEF ApplyNews
  <2>2. \/ order'.status = order.status
        \/ order.status = "ready" /\ order'.status \in {"assigned", "picked_up"}
        \/ order.status = "assigned" /\ order'.status \in {"ready", "picked_up"}
        \/ order'.status = "delivered"
    BY <1>1, <2>1, NewsMoves
  <2> QED
    BY <1>2, <2>2 DEF Onward, Forward, Rank
<1>7. \/ UNCHANGED order
      \/ \E h \in Handlers : Advance(h) \/ BookCommit(h) \/ CancelCommit(h) \/ ApplyNews(h)
      \/ \E s \in Shippers : GiveTo(s)
  BY DEF Next, vars, table, Booking, Dispatching, Listening, Refreshing, Cancelling, Assign,
         ConfirmRoute, AutoRead, AutoQuote, BookRead, BookRefused, BookInsert, Place, BookFail,
         Receive, RecordNews, ReplaceTrip, RefreshPoll, RefreshStamp, CancelCall, Abort,
         Travel, Replace
<1> QED
  BY <1>2, <1>3, <1>4, <1>5, <1>6, <1>7

\* However late, repeated or out of order the courier's news are, they do not turn the
\* order back, but from "assigned" to "ready".
THEOREM NoWayBackHolds == Spec => NoWayBack
<1> DEFINE Fwd == order.status \in Forward
           Ok == \/ Rank(order.status) <= Rank(order'.status)
                 \/ order.status = "assigned" /\ order'.status = "ready"
<1>1. Init => Fwd
  BY DEF Init, Forward
<1>2. TypeOK /\ Fwd /\ [Next]_vars => Fwd' /\ [Ok]_vars
  BY OnwardStep DEF Onward
<1> HIDE DEF Fwd, Ok
<1>3. Spec => [][Ok]_vars
  BY <1>1, <1>2, CourierTypesHold, PTL DEF Spec
<1> QED
  BY <1>3 DEF Ok, NoWayBack

-----------------------------------------------------------------------------
(* One trip for an order.  The row of the job, of which the unique index    *)
(* admits one and which no step deletes, is the permission to ask the       *)
(* provider, and it is used once: whoever has asked has left "place".       *)

HasAsked == {"place", "commit", "uncertain", "failed"}

Reserved ==
  /\ job.status = "none" => Ordered = {} /\ \A h \in Handlers : req[h].at \notin HasAsked
  /\ \A h \in Handlers : req[h].at = "place" =>
       /\ Ordered = {}
       /\ \A g \in Handlers : req[g].at = "place" => g = h

OneTripInv == TypeOK /\ Reserved /\ OneTrip

\* A step that neither gives nor uses the permission.
NoPermission ==
  /\ Ordered' = Ordered
  /\ job'.status = "none" => job.status = "none"
  /\ \A h \in Handlers :
       /\ req'[h].at \in HasAsked => req[h].at \in HasAsked
       /\ req'[h].at = "place" => req[h].at = "place"

LEMMA NoPermissionStep ==
  ASSUME Reserved, OneTrip, NoPermission
  PROVE  Reserved' /\ OneTrip'
<1>1. Reserved'
  BY DEF Reserved, NoPermission
<1>2. OneTrip'
  BY DEF OneTrip, NoPermission
<1> QED
  BY <1>1, <1>2

\* A trip that is ordered stays so when its state is reported.
LEMMA ReportOrdered ==
  ASSUME TypeOK, NEW t \in Ordered, NEW state \in ToldStates, Report(t, state)
  PROVE  Ordered' = Ordered
<1>1. trips \in [Trips -> TripStates]
  BY TypeParts DEF ProviderFits
<1>2. trips' = [trips EXCEPT ![t] = state] /\ state \notin {"none", "replaced"}
  BY DEF Report, ToldStates, Stopped
<1> QED
  BY <1>1, <1>2 DEF Ordered

\* What requests do between their steps.
LEMMA GotoAsks ==
  ASSUME TypeOK, NEW h \in Handlers, NEW label, Goto(h, label) \/ End(h),
         label # "place", label \in HasAsked => req[h].at \in HasAsked
  PROVE  \A g \in Handlers :
           /\ req'[g].at \in HasAsked => req[g].at \in HasAsked
           /\ req'[g].at = "place" => req[g].at = "place"
<1>1. req \in [Handlers -> Requests]
  BY TypeParts DEF RequestsFit
<1>2. \A g \in Handlers : g # h => req'[g] = req[g]
  BY <1>1 DEF Goto, End
<1>3. req'[h].at = label \/ req'[h].at = "idle"
  <2>1. CASE Goto(h, label)
    <3>1. req[h] \in Requests
      BY <1>1
    <3> QED
      BY <1>1, <2>1, <3>1 DEF Goto, Requests
  <2>2. CASE End(h)
    BY <1>1, <2>2, IdleFits DEF End
  <2> QED
    BY <2>1, <2>2
<1> QED
  BY <1>2, <1>3 DEF HasAsked

LEMMA LookAsks ==
  ASSUME TypeOK, NEW h \in Handlers, NEW n, Look(h, n)
  PROVE  \A g \in Handlers :
           /\ req'[g].at \in HasAsked => req[g].at \in HasAsked
           /\ req'[g].at = "place" => req[g].at = "place"
<1>1. req \in [Handlers -> Requests]
  BY TypeParts DEF RequestsFit
<1>2. \A g \in Handlers : g # h => req'[g] = req[g]
  BY <1>1 DEF Look
<1>3. req'[h].at = "record"
  BY <1>1, IdleFits DEF Look, Requests
<1> QED
  BY <1>2, <1>3 DEF HasAsked

LEMMA StaffPermission ==
  ASSUME TypeOK, \/ \E h \in Handlers : Advance(h)
                 \/ \E s \in Shippers : Assign(s) \/ ConfirmRoute(s)
  PROVE  NoPermission
<1>1. UNCHANGED <<job, provider>>
  BY DEF Advance, Assign, ConfirmRoute, GiveTo
<1>2. UNCHANGED req \/ \E h \in Handlers : Goto(h, "auto")
  BY DEF Advance, Assign, ConfirmRoute, GiveTo, Goto
<1>3. \A g \in Handlers :
        /\ req'[g].at \in HasAsked => req[g].at \in HasAsked
        /\ req'[g].at = "place" => req[g].at = "place"
  BY <1>2, GotoAsks DEF HasAsked
<1> QED
  BY <1>1, <1>3 DEF NoPermission, provider, Ordered

LEMMA RequestPermission ==
  ASSUME TypeOK, NEW h \in Handlers,
         \/ AutoRead(h) \/ AutoQuote(h) \/ BookRead(h) \/ BookRefused(h) \/ Abort(h)
         \/ BookCommit(h) \/ BookFail(h) \/ ReplaceTrip(h) \/ ApplyNews(h) \/ CancelCommit(h)
  PROVE  NoPermission
<1>1. UNCHANGED provider
  BY DEF AutoRead, AutoQuote, BookRead, BookRefused, Abort, BookCommit, BookFail,
         ReplaceTrip, ApplyNews, CancelCommit
<1>2. \/ Goto(h, "auto.quote") \/ Goto(h, "read") \/ Goto(h, "insert") \/ Goto(h, "apply")
      \/ End(h)
      \/ Goto(h, "uncertain") /\ req[h].at = "commit"
  BY DEF AutoRead, AutoQuote, BookRead, BookRefused, Abort, BookCommit, BookFail,
         ReplaceTrip, ApplyNews, CancelCommit
<1>3. \A g \in Handlers :
        /\ req'[g].at \in HasAsked => req[g].at \in HasAsked
        /\ req'[g].at = "place" => req[g].at = "place"
  BY <1>2, GotoAsks DEF HasAsked
<1>4. job'.status = "none" => job.status = "none"
  <2>1. /\ job \in JobRow
        /\ req[h] \in Requests /\ Fits(req[h])
    BY TypeParts DEF TablesFit, RequestsFit
  <2>2. CASE BookCommit(h)
    <3>1. job' = job \/ job'.status = req[h].status
      BY <2>2 DEF BookCommit
    <3> QED
      BY <2>1, <3>1 DEF Requests, ReportedStatuses, Stopped
  <2>3. CASE BookFail(h)
    BY <2>1, <2>3 DEF BookFail, JobRow
  <2>4. CASE ReplaceTrip(h)
    BY <2>1, <2>4 DEF ReplaceTrip, JobRow
  <2>5. CASE ApplyNews(h)
    <3>1. req[h].news \in News
      BY <2>1, <2>5 DEF ApplyNews, Fits, AboutNews
    <3>2. job'.status = req[h].news.status
      BY <2>1, <2>5 DEF ApplyNews, JobRow
    <3> QED
      BY <3>1, <3>2 DEF News, ReportedStatuses, Stopped
  <2>6. CASE CancelCommit(h)
    BY <2>1, <2>6 DEF CancelCommit, JobRow, Stopped
  <2>7. CASE AutoRead(h) \/ AutoQuote(h) \/ BookRead(h) \/ BookRefused(h) \/ Abort(h)
    BY <2>7 DEF AutoRead, AutoQuote, BookRead, BookRefused, Abort, table
  <2> QED
    BY <2>2, <2>3, <2>4, <2>5, <2>6, <2>7
<1> QED
  BY <1>1, <1>3, <1>4 DEF NoPermission, provider, Ordered

LEMMA NewsPermission ==
  ASSUME TypeOK, OneTrip, NEW h \in Handlers,
         Receive(h) \/ RecordNews(h) \/ RefreshPoll(h) \/ RefreshStamp(h) \/ CancelCall(h)
  PROVE  NoPermission
<1>1. UNCHANGED job
  BY DEF Receive, RecordNews, RefreshPoll, RefreshStamp, CancelCall, table
<1>2. req \in [Handlers -> Requests] /\ req[h] \in Requests
  BY TypeParts DEF RequestsFit
<1>3. \/ End(h)
      \/ Goto(h, "cancelled") \/ UNCHANGED req
      \/ \E n : Look(h, n)
      \/ \E q : req' = [req EXCEPT ![h] = q] /\ q.at \notin HasAsked
  <2>1. CASE RecordNews(h)
    <3> DEFINE q == [Idle EXCEPT !.news = req[h].news,
                       !.at = IF req[h].news.next # None THEN "replace" ELSE "apply"]
    <3>1. End(h) \/ req' = [req EXCEPT ![h] = q]
      BY <2>1 DEF RecordNews
    <3>2. q.at \notin HasAsked
      BY IdleFits DEF Requests, HasAsked
    <3> QED
      BY <3>1, <3>2
  <2>2. CASE RefreshPoll(h)
    <3>1. PICK status : req' = [req EXCEPT ![h].at = "stamp", ![h].trip = job.trip, ![h].status = status]
      BY <2>2 DEF RefreshPoll
    <3> DEFINE q == [req[h] EXCEPT !.at = "stamp", !.trip = job.trip, !.status = status]
    <3>2. req' = [req EXCEPT ![h] = q]
      BY <1>2, <3>1
    <3>3. q.at \notin HasAsked
      BY <1>2 DEF Requests, HasAsked
    <3> HIDE DEF q
    <3> QED
      BY <3>2, <3>3
  <2>3. CASE Receive(h) \/ RefreshStamp(h) \/ CancelCall(h)
    BY <2>3 DEF Receive, RefreshStamp, CancelCall
  <2> QED
    BY <2>1, <2>2, <2>3
<1>4. \A g \in Handlers :
        /\ req'[g].at \in HasAsked => req[g].at \in HasAsked
        /\ req'[g].at = "place" => req[g].at = "place"
  <2>1. CASE \E q : req' = [req EXCEPT ![h] = q] /\ q.at \notin HasAsked
    BY <1>2, <2>1 DEF HasAsked
  <2> QED
    BY <1>3, <2>1, GotoAsks, LookAsks DEF HasAsked
<1>5. Ordered' = Ordered
  <2>1. CASE CancelCall(h)
    <3>1. job.trip \in Trips
      BY <2>1, TypeParts DEF CancelCall, TablesFit, JobRow
    <3>2. job.trip \in Ordered
      BY <2>1, <3>1 DEF CancelCall, Ordered
    <3> QED
      BY <2>1, <3>2, ReportOrdered DEF CancelCall, ToldStates
  <2>2. CASE Receive(h) \/ RecordNews(h) \/ RefreshPoll(h) \/ RefreshStamp(h)
    BY <2>2 DEF Receive, RecordNews, RefreshPoll, RefreshStamp, provider, Ordered
  <2> QED
    BY <2>1, <2>2
<1> QED
  BY <1>1, <1>4, <1>5 DEF NoPermission

LEMMA OneTripStep == OneTripInv /\ [Next]_vars => OneTripInv'
<1> SUFFICES ASSUME OneTripInv, [Next]_vars
             PROVE  Reserved' /\ OneTrip'
  BY TypeStep DEF OneTripInv
<1>1. TypeOK /\ Reserved /\ OneTrip
  BY DEF OneTripInv
<1>2. /\ req \in [Handlers -> Requests] /\ \A g \in Handlers : req[g] \in Requests
      /\ trips \in [Trips -> TripStates]
  BY <1>1, TypeParts DEF RequestsFit, ProviderFits
<1>3. CASE NoPermission
  BY <1>1, <1>3, NoPermissionStep
<1>4. ASSUME NEW h \in Handlers, BookInsert(h)
      PROVE  Reserved' /\ OneTrip'
  <2>1. Ordered' = Ordered
    BY <1>4 DEF BookInsert, provider, Ordered
  <2>2. CASE job.status = "none"
    <3>1. job'.status # "none" /\ Goto(h, "place")
      BY <1>4, <2>2 DEF BookInsert
    <3>2. \A g \in Handlers : req'[g].at = "place" => g = h
      BY <1>1, <1>2, <2>2, <3>1 DEF Goto, Reserved, HasAsked
    <3> QED
      BY <1>1, <2>1, <2>2, <3>1, <3>2 DEF Reserved, OneTrip
  <2>3. CASE job.status # "none"
    <3>1. End(h) /\ job' = job
      BY <1>4, <2>3 DEF BookInsert
    <3>2. NoPermission
      BY <1>1, <2>1, <2>3, <3>1, GotoAsks DEF NoPermission, HasAsked
    <3> QED
      BY <1>3, <3>2
  <2> QED
    BY <2>2, <2>3
<1>5. ASSUME NEW h \in Handlers, Place(h)
      PROVE  Reserved' /\ OneTrip'
  <2>1. /\ job' = job /\ job.status # "none" /\ Ordered = {}
        /\ \A g \in Handlers : req[g].at = "place" => g = h
    BY <1>1, <1>5 DEF Place, table, Reserved, HasAsked
  <2>2. \/ Goto(h, "uncertain") \/ Goto(h, "failed")
        \/ \E t \in Trips :
             req' = [req EXCEPT ![h].at = "commit", ![h].trip = t, ![h].status = "assigning"]
    BY <1>5 DEF Place
  <2>3. req[h] \in Requests
    BY <1>2
  <2>4. req'[h].at # "place"
    BY <1>2, <2>2, <2>3 DEF Goto, Requests
  <2>5. \A g \in Handlers : req'[g].at # "place"
    <3>1. \A g \in Handlers : g # h => req'[g] = req[g]
      BY <1>2, <2>2 DEF Goto
    <3> QED
      BY <2>1, <2>4, <3>1
  <2>6. Ordered' = {} \/ \E t \in Trips : Ordered' = {t}
    <3>1. UNCHANGED provider \/ \E t \in Trips : trips' = [trips EXCEPT ![t] = "assigning"]
      BY <1>5 DEF Place, Report
    <3>2. CASE UNCHANGED provider
      BY <2>1, <3>2 DEF provider, Ordered
    <3>3. ASSUME NEW t \in Trips, trips' = [trips EXCEPT ![t] = "assigning"]
          PROVE  Ordered' = {t}
      BY <1>2, <2>1, <3>3 DEF Ordered
    <3> QED
      BY <3>1, <3>2, <3>3
  <2> QED
    BY <2>1, <2>5, <2>6 DEF Reserved, OneTrip
<1>6. ASSUME NEW t \in Trips, Travel(t)
      PROVE  NoPermission
  <2>1. UNCHANGED <<table, req>>
    BY <1>6 DEF Travel
  <2>2. PICK state \in TripStates : <<trips[t], state>> \in TripSteps /\ Report(t, state)
    BY <1>6 DEF Travel
  <2>3. t \in Ordered /\ state \in ToldStates
    BY <2>2 DEF TripSteps, Ordered, ToldStates
  <2>4. Ordered' = Ordered
    BY <1>1, <2>2, <2>3, ReportOrdered
  <2> QED
    BY <2>1, <2>4 DEF NoPermission, table
<1>7. ASSUME NEW t \in Trips, NEW u \in Trips, Replace(t, u)
      PROVE  Reserved' /\ OneTrip'
  <2>1. /\ UNCHANGED <<table, req>> /\ trips[t] \in {"assigning", "assigned"}
        /\ trips[u] = "none" /\ trips' = [trips EXCEPT ![t] = "replaced", ![u] = "assigning"]
    BY <1>7 DEF Replace
  <2>2. t \in Ordered /\ t # u
    BY <2>1 DEF Ordered
  <2>3. Ordered = {t}
    BY <1>1, <2>2 DEF OneTrip
  <2>4. Ordered' = {u}
    BY <1>2, <2>1, <2>2, <2>3 DEF Ordered
  <2>5. job'.status # "none" /\ \A h \in Handlers : req'[h].at # "place"
    BY <1>1, <2>1, <2>2 DEF Reserved, table
  <2> QED
    BY <2>4, <2>5 DEF Reserved, OneTrip
<1>8. CASE UNCHANGED vars
  BY <1>3, <1>8 DEF vars, NoPermission, Ordered
<1> QED
  BY <1>1, <1>3, <1>4, <1>5, <1>6, <1>7, <1>8, StaffPermission, RequestPermission, NewsPermission
     DEF Next, Booking, Dispatching, Listening, Refreshing, Cancelling

LEMMA InitOneTrip == Init => OneTripInv
<1>1. Init => Ordered = {}
  BY DEF Init, Ordered
<1>2. Init => \A h \in Handlers : req[h].at = "idle"
  BY IdleFits DEF Init
<1> QED
  BY <1>1, <1>2, TypeInit DEF OneTripInv, OneTrip, Reserved, HasAsked

\* However many requests ask for a courier, whatever answers are lost, the provider
\* has one trip for the order.
THEOREM OneTripHolds == Spec => []OneTrip
<1>1. OneTripInv => OneTrip
  BY DEF OneTripInv
<1> QED
  BY <1>1, InitOneTrip, OneTripStep, PTL DEF Spec

-----------------------------------------------------------------------------
(* A running trip is known.  From the row of the job to the answer of the   *)
(* provider the job stays "booking"; a request that got past the lookup of  *)
(* its trip found a job that has one, and a job never loses its trip; and   *)
(* a trip that takes over another one has been made.                        *)

Made(n) == n.next # None => trips[n.next] # "none"

Traced(r) ==
  /\ r.at \in {"place", "commit"} => job.status = "booking"
  /\ r.at = "commit" => trips[r.trip] # "none"
  /\ r.at \in {"replace", "apply", "cancelled"} => job.trip # None
  /\ r.at = "record" /\ r.matched => job.trip # None
  /\ r.at \in AboutNews => Made(r.news)
  /\ r.at = "replace" => r.news.next # None

KnownInv ==
  /\ OneTripInv
  /\ \A g, h \in Handlers : req[g].at \in HasAsked /\ req[h].at \in HasAsked => g = h
  /\ job.status \in {"none", "booking"} => job.trip = None
  /\ \A h \in Handlers : Traced(req[h])
  /\ \A n \in news : Made(n)
  /\ RunningIsKnown

\* No trip is unmade, and no job loses its trip.
TripsStay ==
  /\ \A t \in Trips : trips[t] # "none" => trips'[t] # "none"
  /\ job.trip # None => job'.trip # None

LEMMA MadeStays ==
  ASSUME TripsStay, NEW n \in News, Made(n)
  PROVE  Made(n)'
<1>1. n.next \in Trips \cup {None}
  BY DEF News
<1> QED
  BY <1>1 DEF Made, TripsStay

LEMMA NewsStayMade ==
  ASSUME KnownInv, TripsStay, news' = news
  PROVE  \A n \in news' : Made(n)'
<1>1. news \subseteq News
  BY TypeParts DEF KnownInv, OneTripInv, ProviderFits
<1> QED
  BY <1>1, MadeStays DEF KnownInv

\* A request that does not move.
LEMMA TracedStays ==
  ASSUME KnownInv, TripsStay, NEW h \in Handlers, req'[h] = req[h],
         req[h].at \in {"place", "commit"} => job'.status = "booking"
  PROVE  Traced(req[h])'
<1>1. req[h] \in Requests /\ Fits(req[h]) /\ Traced(req[h])
  BY TypeParts DEF KnownInv, OneTripInv, RequestsFit
<1>2. req[h].at = "commit" => trips'[req[h].trip] # "none"
  BY <1>1 DEF Fits, AboutTrip, Traced, TripsStay
<1>3. req[h].at \in AboutNews => Made(req[h].news)'
  <2> SUFFICES ASSUME req[h].at \in AboutNews
               PROVE  req'[h].news.next # None => trips'[req'[h].news.next] # "none"
    BY DEF Made
  <2>1. req[h].news \in News /\ Made(req[h].news)
    BY <1>1 DEF Fits, Traced
  <2>2. req[h].news.next \in Trips \cup {None}
    BY <2>1 DEF News
  <2> QED
    BY <2>1, <2>2 DEF Made, TripsStay
<1> QED
  BY <1>1, <1>2, <1>3 DEF Traced, TripsStay

\* A request that ends, or that goes to where nothing is asked of it.
LEMMA TracedElsewhere ==
  ASSUME NEW h \in Handlers,
         req'[h].at \notin {"place", "commit", "replace", "apply", "cancelled", "record"}
  PROVE  Traced(req[h])'
  BY DEF Traced, AboutNews

LEMMA GotoIs ==
  ASSUME TypeOK, NEW h \in Handlers, NEW label, Goto(h, label)
  PROVE  /\ req'[h].at = label /\ req'[h].trip = req[h].trip /\ req'[h].news = req[h].news
         /\ req'[h].matched = req[h].matched
         /\ \A g \in Handlers : g # h => req'[g] = req[g]
<1>1. req \in [Handlers -> Requests] /\ req[h] \in Requests
  BY TypeParts DEF RequestsFit
<1> QED
  BY <1>1 DEF Goto, Requests

LEMMA EndIs ==
  ASSUME TypeOK, NEW h \in Handlers, End(h)
  PROVE  req'[h].at = "idle" /\ \A g \in Handlers : g # h => req'[g] = req[g]
<1>1. req \in [Handlers -> Requests]
  BY TypeParts DEF RequestsFit
<1> QED
  BY <1>1, IdleFits DEF End

\* What a step of one request has to show.
LEMMA HandlerKnown ==
  ASSUME KnownInv, OneTripInv', NEW h \in Handlers, TripsStay,
         \A g \in Handlers : g # h =>
           req'[g] = req[g] /\ (req[g].at \in {"place", "commit"} => job'.status = "booking"),
         Traced(req[h])',
         req'[h].at \in HasAsked =>
           req[h].at \in HasAsked \/ \A g \in Handlers : req[g].at \notin HasAsked,
         job'.status \in {"none", "booking"} => job'.trip = None,
         \A n \in news' : Made(n)',
         RunningIsKnown'
  PROVE  KnownInv'
<1>1. \A g \in Handlers : Traced(req[g])'
  <2> SUFFICES ASSUME NEW g \in Handlers, g # h
               PROVE  Traced(req[g])'
    OBVIOUS
  <2> QED
    BY TracedStays
<1>2. \A g, f \in Handlers : req'[g].at \in HasAsked /\ req'[f].at \in HasAsked => g = f
  BY DEF KnownInv
<1> QED
  BY <1>1, <1>2 DEF KnownInv

\* Job and provider stay as they are.
LEMMA QuietKnown ==
  ASSUME KnownInv, OneTripInv', NEW h \in Handlers, UNCHANGED <<job, trips, news>>,
         flagged => flagged',
         \A g \in Handlers : g # h => req'[g] = req[g],
         Traced(req[h])', req'[h].at \notin HasAsked
  PROVE  KnownInv'
<1>1. TripsStay
  BY DEF TripsStay
<1>2. \A n \in news' : Made(n)'
  BY <1>1, NewsStayMade
<1>3. RunningIsKnown'
  BY DEF KnownInv, RunningIsKnown
<1>4. \A g \in Handlers : req[g].at \in {"place", "commit"} => job'.status = "booking"
  BY DEF KnownInv, Traced
<1>5. job'.status \in {"none", "booking"} => job'.trip = None
  BY DEF KnownInv
<1> QED
  BY <1>1, <1>2, <1>3, <1>4, <1>5, HandlerKnown

LEMMA DispatchKnown ==
  ASSUME KnownInv, OneTripInv', NEW h \in Handlers,
         \/ Advance(h) \/ AutoRead(h) \/ AutoQuote(h) \/ BookRead(h) \/ BookRefused(h)
         \/ RefreshPoll(h) \/ Abort(h)
  PROVE  KnownInv'
<1>1. TypeOK /\ req \in [Handlers -> Requests] /\ req[h] \in Requests
  BY TypeParts DEF KnownInv, OneTripInv, RequestsFit
<1>2. UNCHANGED <<job, trips, news>> /\ flagged' = flagged
  BY DEF Advance, AutoRead, AutoQuote, BookRead, BookRefused, RefreshPoll, Abort, table, provider
<1>3. CASE UNCHANGED req
  <2>1. TripsStay
    BY <1>2 DEF TripsStay
  <2>2. \A g \in Handlers : Traced(req[g])'
    <3> SUFFICES ASSUME NEW g \in Handlers
                 PROVE  Traced(req[g])'
      OBVIOUS
    <3>1. req[g].at \in {"place", "commit"} => job'.status = "booking"
      BY <1>2 DEF KnownInv, Traced
    <3> QED
      BY <1>3, <2>1, <3>1, TracedStays
  <2>3. \A n \in news' : Made(n)'
    BY <1>2, <2>1, NewsStayMade
  <2> QED
    BY <1>2, <1>3, <2>2, <2>3 DEF KnownInv, RunningIsKnown
<1>4. CASE ~ UNCHANGED req
  <2>1. /\ req'[h].at \in {"auto", "auto.quote", "read", "insert", "stamp", "idle"}
        /\ \A g \in Handlers : g # h => req'[g] = req[g]
    <3>1. CASE Advance(h)
      <4>1. Goto(h, "auto")
        BY <1>4, <3>1 DEF Advance, Goto
      <4> QED
        BY <1>1, <4>1, GotoIs
    <3>3. CASE RefreshPoll(h)
      <4>1. PICK status : req' = [req EXCEPT ![h].at = "stamp", ![h].trip = job.trip,
                                             ![h].status = status]
        BY <3>3 DEF RefreshPoll
      <4> DEFINE q == [req[h] EXCEPT !.at = "stamp", !.trip = job.trip, !.status = status]
      <4>2. req' = [req EXCEPT ![h] = q] /\ q.at = "stamp"
        BY <1>1, <4>1 DEF Requests
      <4> HIDE DEF q
      <4> QED
        BY <1>1, <4>2
    <3>2. CASE AutoRead(h) \/ AutoQuote(h) \/ BookRead(h) \/ BookRefused(h) \/ Abort(h)
      <4>1. Goto(h, "auto.quote") \/ Goto(h, "read") \/ Goto(h, "insert") \/ End(h)
        BY <3>2 DEF AutoRead, AutoQuote, BookRead, BookRefused, Abort
      <4> QED
        BY <1>1, <4>1, GotoIs, EndIs
    <3> QED
      BY <3>1, <3>2, <3>3
  <2>2. Traced(req[h])'
    BY <2>1, TracedElsewhere
  <2> QED
    BY <1>2, <2>1, <2>2, QuietKnown DEF HasAsked
<1> QED
  BY <1>3, <1>4

LEMMA LookKnown ==
  ASSUME KnownInv, OneTripInv', NEW h \in Handlers,
         Receive(h) \/ RefreshStamp(h)
  PROVE  KnownInv'
<1>1. TypeOK /\ req \in [Handlers -> Requests] /\ news \subseteq News
  BY TypeParts DEF KnownInv, OneTripInv, RequestsFit, ProviderFits
<1>2. UNCHANGED <<job, trips, news>> /\ flagged' = flagged
  BY DEF Receive, RefreshStamp, table, provider
<1>3. PICK n \in News : Look(h, n) /\ Made(n)
  <2>1. CASE Receive(h)
    BY <1>1, <2>1 DEF Receive, KnownInv
  <2>2. CASE RefreshStamp(h)
    <3>1. req[h].trip \in Trips /\ req[h].status \in ReportedStatuses
      BY <1>1, <2>2, TypeParts DEF RefreshStamp, RequestsFit, Fits, AboutTrip, Requests
    <3>2. PICK now \in {clock, clock + 1} :
            Look(h, [trip |-> req[h].trip, status |-> req[h].status, at |-> now,
                     next |-> None, polled |-> TRUE])
      BY <2>2 DEF RefreshStamp
    <3>3. now \in Nat
      BY <1>1, <3>2, TypeParts DEF ProviderFits
    <3> DEFINE n == [trip |-> req[h].trip, status |-> req[h].status, at |-> now,
                     next |-> None, polled |-> TRUE]
    <3>4. n \in News
      BY <3>1, <3>3 DEF News
    <3>5. n.next = None
      OBVIOUS
    <3> HIDE DEF n
    <3>6. Made(n)
      BY <3>5 DEF Made
    <3>7. Look(h, n)
      BY <3>2 DEF n
    <3> QED
      BY <3>4, <3>6, <3>7
  <2> QED
    BY <2>1, <2>2
<1>4. /\ req'[h].at = "record" /\ req'[h].news = n
      /\ req'[h].matched = (job.trip = n.trip)
      /\ \A g \in Handlers : g # h => req'[g] = req[g]
  BY <1>1, <1>3, IdleFits DEF Look, Requests
<1>5. Traced(req[h])'
  <2>1. n.trip \in Trips
    BY DEF News
  <2>2. req'[h].matched => job'.trip # None
    BY <1>2, <1>4, <2>1, CourierAssumption DEF CourierAssumption
  <2>3. Made(req[h].news)'
    BY <1>2, <1>3, <1>4 DEF Made
  <2> QED
    BY <1>4, <2>2, <2>3 DEF Traced
<1> QED
  BY <1>2, <1>4, <1>5, QuietKnown DEF HasAsked

LEMMA RecordKnown ==
  ASSUME KnownInv, OneTripInv', NEW h \in Handlers, RecordNews(h)
  PROVE  KnownInv'
<1> DEFINE r == req[h]
<1>1. /\ TypeOK /\ req \in [Handlers -> Requests] /\ r \in Requests /\ Traced(r)
      /\ r.at = "record"
  BY TypeParts DEF KnownInv, OneTripInv, RequestsFit, RecordNews
<1>2. UNCHANGED <<job, trips, news>> /\ (flagged => flagged')
  BY DEF RecordNews, provider
<1>3. CASE End(h)
  <2>1. req'[h].at = "idle" /\ \A g \in Handlers : g # h => req'[g] = req[g]
    BY <1>1, <1>3, EndIs
  <2>2. Traced(req[h])'
    BY <2>1, TracedElsewhere
  <2> QED
    BY <1>2, <2>1, <2>2, QuietKnown DEF HasAsked
<1>4. CASE ~ End(h)
  <2>1. /\ r.matched
        /\ req' = [req EXCEPT ![h] = [Idle EXCEPT !.news = r.news,
                            !.at = IF r.news.next # None THEN "replace" ELSE "apply"]]
    BY <1>4 DEF RecordNews
  <2>2. /\ req'[h].at = IF r.news.next # None THEN "replace" ELSE "apply"
        /\ req'[h].news = r.news
        /\ \A g \in Handlers : g # h => req'[g] = req[g]
    BY <1>1, <2>1, IdleFits DEF Requests
  <2>3. job.trip # None /\ Made(r.news)
    BY <1>1, <2>1 DEF Traced, AboutNews
  <2>4. Made(req[h].news)'
    BY <1>2, <2>2, <2>3 DEF Made
  <2>5. Traced(req[h])'
    BY <1>2, <2>2, <2>3, <2>4 DEF Traced
  <2> QED
    BY <1>2, <2>2, <2>5, QuietKnown DEF HasAsked
<1> QED
  BY <1>3, <1>4

\* News that are added tell of a trip that has been made.
LEMMA ReportKnown ==
  ASSUME KnownInv, NEW t \in Trips, NEW state \in ToldStates, Report(t, state)
  PROVE  /\ \A u \in Trips : trips[u] # "none" => trips'[u] # "none"
         /\ \A n \in news' : n \in news \/ n.next = None
<1>1. trips \in [Trips -> TripStates]
  BY TypeParts DEF KnownInv, OneTripInv, ProviderFits
<1> QED
  BY <1>1 DEF Report, ToldStates, Stopped

LEMMA AddedNewsMade ==
  ASSUME KnownInv, TripsStay, \A n \in news' : n \in news \/ n.next = None
  PROVE  \A n \in news' : Made(n)'
<1>1. news \subseteq News
  BY TypeParts DEF KnownInv, OneTripInv, ProviderFits
<1> SUFFICES ASSUME NEW n \in news', n.next # None
             PROVE  trips'[n.next] # "none"
  BY DEF Made
<1>2. n \in News /\ Made(n)
  BY <1>1 DEF KnownInv
<1>3. n.next \in Trips \cup {None}
  BY <1>2 DEF News
<1> QED
  BY <1>2, <1>3 DEF Made, TripsStay

LEMMA BookKnown ==
  ASSUME KnownInv, OneTripInv', NEW h \in Handlers,
         BookInsert(h) \/ Place(h) \/ BookCommit(h) \/ BookFail(h)
  PROVE  KnownInv'
<1> DEFINE r == req[h]
<1>1. /\ TypeOK /\ Reserved /\ OneTrip /\ RunningIsKnown /\ Traced(r)
      /\ req \in [Handlers -> Requests] /\ r \in Requests /\ Fits(r)
      /\ job \in JobRow /\ trips \in [Trips -> TripStates]
  BY TypeParts DEF KnownInv, OneTripInv, RequestsFit, TablesFit, ProviderFits
<1>2. \A g \in Handlers : g # h /\ r.at \in HasAsked => req[g].at \notin {"place", "commit"}
  BY DEF KnownInv, HasAsked
<1>3. CASE BookInsert(h)
  <2>1. UNCHANGED <<trips, news, flagged>>
    BY <1>3 DEF BookInsert, provider
  <2>2. CASE job.status = "none"
    <3>1. job' = [status |-> "booking", trip |-> None, last |-> 0] /\ Goto(h, "place")
      BY <1>3, <2>2 DEF BookInsert
    <3>2. job.trip = None
      BY <2>2 DEF KnownInv
    <3>3. TripsStay
      BY <2>1, <3>2 DEF TripsStay
    <3>4. req'[h].at = "place" /\ \A g \in Handlers : g # h => req'[g] = req[g]
      BY <1>1, <3>1, GotoIs
    <3>5. Traced(req[h])'
      BY <3>1, <3>4 DEF Traced, AboutNews
    <3>6. RunningIsKnown'
      BY <3>1 DEF RunningIsKnown
    <3>7. \A g \in Handlers : req[g].at \notin HasAsked
      BY <1>1, <2>2 DEF Reserved
    <3>8. \A n \in news' : Made(n)'
      BY <2>1, <3>3, NewsStayMade
    <3> QED
      BY <3>1, <3>3, <3>4, <3>5, <3>6, <3>7, <3>8, HandlerKnown
  <2>3. CASE job.status # "none"
    <3>1. job' = job /\ End(h)
      BY <1>3, <2>3 DEF BookInsert
    <3>2. req'[h].at = "idle" /\ \A g \in Handlers : g # h => req'[g] = req[g]
      BY <1>1, <3>1, EndIs
    <3>3. Traced(req[h])'
      BY <3>2, TracedElsewhere
    <3> QED
      BY <2>1, <3>1, <3>2, <3>3, QuietKnown DEF HasAsked
  <2> QED
    BY <2>2, <2>3
<1>4. CASE Place(h)
  <2>1. r.at = "place" /\ UNCHANGED <<job, flagged>> /\ job.status = "booking" /\ job.trip = None
    BY <1>1, <1>4 DEF Place, table, Traced, KnownInv
  <2>2. RunningIsKnown'
    BY <2>1 DEF RunningIsKnown
  <2>3. CASE (Goto(h, "uncertain") \/ Goto(h, "failed")) /\ UNCHANGED provider
    <3>1. req'[h].at \in {"uncertain", "failed"} /\ \A g \in Handlers : g # h => req'[g] = req[g]
      BY <1>1, <2>3, GotoIs
    <3>2. Traced(req[h])'
      BY <3>1, TracedElsewhere
    <3>3. TripsStay /\ news' = news
      BY <2>1, <2>3 DEF TripsStay, provider
    <3>4. \A n \in news' : Made(n)'
      BY <3>3, NewsStayMade
    <3> QED
      BY <1>2, <2>1, <2>2, <3>1, <3>2, <3>3, <3>4, HandlerKnown DEF HasAsked
  <2>4. ASSUME NEW t \in Trips, Report(t, "assigning"),
               \/ req' = [req EXCEPT ![h].at = "commit", ![h].trip = t, ![h].status = "assigning"]
               \/ Goto(h, "uncertain")
        PROVE  KnownInv'
    <3>1. /\ \A u \in Trips : trips[u] # "none" => trips'[u] # "none"
          /\ \A n \in news' : n \in news \/ n.next = None
      BY <2>4, ReportKnown DEF ToldStates
    <3>2. TripsStay
      BY <2>1, <3>1 DEF TripsStay
    <3>3. \A n \in news' : Made(n)'
      BY <3>1, <3>2, AddedNewsMade
    <3>4. /\ req'[h].at = "uncertain" \/ (req'[h].at = "commit" /\ req'[h].trip = t)
          /\ \A g \in Handlers : g # h => req'[g] = req[g]
      <4>1. CASE Goto(h, "uncertain")
        BY <1>1, <4>1, GotoIs
      <4>2. CASE req' = [req EXCEPT ![h].at = "commit", ![h].trip = t, ![h].status = "assigning"]
        <5> DEFINE q == [r EXCEPT !.at = "commit", !.trip = t, !.status = "assigning"]
        <5>1. req' = [req EXCEPT ![h] = q] /\ q.at = "commit" /\ q.trip = t
          BY <1>1, <4>2 DEF Requests
        <5> HIDE DEF q
        <5> QED
          BY <1>1, <5>1
      <4> QED
        BY <2>4, <4>1, <4>2
    <3>5. trips'[t] = "assigning"
      BY <1>1, <2>4 DEF Report
    <3>6. Traced(req[h])'
      BY <2>1, <3>4, <3>5 DEF Traced, AboutNews
    <3> QED
      BY <1>2, <2>1, <2>2, <3>2, <3>3, <3>4, <3>6, HandlerKnown DEF HasAsked
  <2> QED
    BY <1>4, <2>3, <2>4 DEF Place
<1>5. CASE BookCommit(h)
  <2>1. /\ r.at = "commit" /\ r.trip \in Trips /\ trips[r.trip] # "none"
        /\ r.status \in ReportedStatuses /\ job.status = "booking" /\ job.trip = None
        /\ UNCHANGED <<trips, news, flagged>>
    BY <1>1, <1>5 DEF BookCommit, Traced, Fits, AboutTrip, Requests, KnownInv, provider
  <2>2. End(h) \/ Goto(h, "uncertain")
    BY <1>5 DEF BookCommit
  <2>3. req'[h].at \in {"idle", "uncertain"} /\ \A g \in Handlers : g # h => req'[g] = req[g]
    BY <1>1, <2>2, GotoIs, EndIs
  <2>4. Traced(req[h])'
    BY <2>3, TracedElsewhere
  <2>5. TripsStay
    BY <2>1 DEF TripsStay
  <2>6. \A n \in news' : Made(n)'
    BY <2>1, <2>5, NewsStayMade
  <2>7. job' = job \/ job' = [status |-> r.status, trip |-> r.trip, last |-> clock]
    BY <1>5, <2>1 DEF BookCommit
  <2>8. job'.status \in {"none", "booking"} => job'.trip = None
    BY <2>1, <2>7 DEF ReportedStatuses, Stopped
  <2>9. RunningIsKnown'
    <3>1. CASE job' = job
      BY <2>1, <3>1 DEF RunningIsKnown
    <3>2. CASE job' = [status |-> r.status, trip |-> r.trip, last |-> clock]
      <4>1. job'.trip = r.trip /\ r.trip # None
        BY <2>1, <3>2, CourierAssumption DEF CourierAssumption
      <4>2. ASSUME NEW t \in Trips, trips[t] \in {"assigning", "assigned", "picked_up"}
            PROVE  r.trip = t \/ trips[r.trip] = "replaced"
        BY <1>1, <2>1, <4>2 DEF OneTrip, Ordered
      <4> QED
        BY <2>1, <4>1, <4>2 DEF RunningIsKnown
    <3> QED
      BY <2>7, <3>1, <3>2
  <2> QED
    BY <1>2, <2>1, <2>3, <2>4, <2>5, <2>6, <2>8, <2>9, HandlerKnown DEF HasAsked
<1>6. CASE BookFail(h)
  <2>1. /\ r.at \in {"uncertain", "failed"} /\ job' = [job EXCEPT !.status = r.at] /\ flagged'
        /\ End(h) /\ UNCHANGED <<trips, news>>
    BY <1>6 DEF BookFail, provider
  <2>2. job'.trip = job.trip /\ job'.status = r.at
    BY <1>1, <2>1 DEF JobRow
  <2>3. req'[h].at = "idle" /\ \A g \in Handlers : g # h => req'[g] = req[g]
    BY <1>1, <2>1, EndIs
  <2>4. Traced(req[h])'
    BY <2>3, TracedElsewhere
  <2>5. TripsStay
    BY <2>1, <2>2 DEF TripsStay
  <2>6. \A n \in news' : Made(n)'
    BY <2>1, <2>5, NewsStayMade
  <2>7. RunningIsKnown'
    BY <2>1 DEF RunningIsKnown
  <2> QED
    BY <1>2, <2>1, <2>2, <2>3, <2>4, <2>5, <2>6, <2>7, HandlerKnown DEF HasAsked
<1> QED
  BY <1>3, <1>4, <1>5, <1>6

LEMMA JobKnown ==
  ASSUME KnownInv, OneTripInv', NEW h \in Handlers,
         ReplaceTrip(h) \/ ApplyNews(h) \/ CancelCommit(h)
  PROVE  KnownInv'
<1> DEFINE r == req[h]
<1>1. /\ TypeOK /\ OneTrip /\ RunningIsKnown /\ Traced(r)
      /\ r \in Requests /\ Fits(r) /\ job \in JobRow
  BY TypeParts DEF KnownInv, OneTripInv, RequestsFit, TablesFit
<1>2. /\ UNCHANGED <<trips, news, flagged>> /\ job.trip # None
      /\ r.at \in {"replace", "apply", "cancelled"}
  BY <1>1 DEF ReplaceTrip, ApplyNews, CancelCommit, provider, Traced
<1>3. job.status \notin {"none", "booking"}
  BY <1>2 DEF KnownInv
<1>4. \A g \in Handlers : req[g].at \notin {"place", "commit"}
  BY <1>3 DEF KnownInv, Traced
<1>5. CASE ReplaceTrip(h)
  <2>1. /\ r.at = "replace" /\ r.news \in News /\ r.news.next # None
        /\ trips[r.news.next] # "none"
        /\ job' = [job EXCEPT !.trip = r.news.next, !.last = r.news.at] /\ Goto(h, "apply")
    BY <1>1, <1>5 DEF ReplaceTrip, Traced, Fits, AboutNews, Made
  <2>2. r.news.next \in Trips
    BY <2>1 DEF News
  <2>3. job'.trip = r.news.next /\ job'.status = job.status
    BY <1>1, <2>1 DEF JobRow
  <2>4. /\ req'[h].at = "apply" /\ req'[h].news = r.news
        /\ \A g \in Handlers : g # h => req'[g] = req[g]
    BY <1>1, <2>1, GotoIs
  <2>5. TripsStay
    BY <1>2, <2>1, <2>3 DEF TripsStay
  <2>6. \A n \in news' : Made(n)'
    BY <1>2, <2>5, NewsStayMade
  <2>7. Made(req[h].news)'
    BY <1>2, <2>1, <2>4 DEF Made
  <2>8. Traced(req[h])'
    BY <2>1, <2>3, <2>4, <2>7 DEF Traced
  <2>9. RunningIsKnown'
    <3>1. ASSUME NEW t \in Trips, trips[t] \in {"assigning", "assigned", "picked_up"}
          PROVE  r.news.next = t \/ trips[r.news.next] = "replaced"
      BY <1>1, <2>1, <2>2, <3>1 DEF OneTrip, Ordered
    <3> QED
      BY <1>2, <2>1, <2>3, <3>1 DEF RunningIsKnown
  <2> QED
    BY <1>3, <1>4, <2>3, <2>4, <2>5, <2>6, <2>8, <2>9, HandlerKnown DEF HasAsked
<1>6. CASE ApplyNews(h) \/ CancelCommit(h)
  <2>1. job'.trip = job.trip /\ job'.status \in ReportedStatuses /\ End(h)
    <3>1. CASE ApplyNews(h)
      <4>1. r.news \in News
        BY <1>1, <3>1 DEF ApplyNews, Fits, AboutNews
      <4> QED
        BY <1>1, <3>1, <4>1 DEF ApplyNews, JobRow, News
    <3>2. CASE CancelCommit(h)
      BY <1>1, <3>2 DEF CancelCommit, JobRow, ReportedStatuses
    <3> QED
      BY <1>6, <3>1, <3>2
  <2>2. req'[h].at = "idle" /\ \A g \in Handlers : g # h => req'[g] = req[g]
    BY <1>1, <2>1, EndIs
  <2>3. Traced(req[h])'
    BY <2>2, TracedElsewhere
  <2>4. TripsStay
    BY <1>2, <2>1 DEF TripsStay
  <2>5. \A n \in news' : Made(n)'
    BY <1>2, <2>4, NewsStayMade
  <2>6. RunningIsKnown'
    BY <1>1, <1>2, <1>3, <2>1 DEF RunningIsKnown
  <2>7. job'.status \notin {"none", "booking"}
    BY <2>1 DEF ReportedStatuses, Stopped
  <2> QED
    BY <1>4, <2>2, <2>3, <2>4, <2>5, <2>6, <2>7, HandlerKnown DEF HasAsked
<1> QED
  BY <1>5, <1>6

LEMMA CancelKnown ==
  ASSUME KnownInv, OneTripInv', NEW h \in Handlers, CancelCall(h)
  PROVE  KnownInv'
<1>1. /\ TypeOK /\ RunningIsKnown /\ job \in JobRow /\ trips \in [Trips -> TripStates]
  BY TypeParts DEF KnownInv, OneTripInv, TablesFit, ProviderFits
<1>2. /\ UNCHANGED <<job, flagged>> /\ job.trip \in Trips /\ job.trip # None
      /\ trips[job.trip] \in {"assigning", "assigned"} /\ Report(job.trip, Stopped)
      /\ Goto(h, "cancelled") \/ UNCHANGED req
  BY <1>1 DEF CancelCall, table, JobRow
<1>3. job.status \notin {"none", "booking"}
  BY <1>2 DEF KnownInv
<1>4. \A g \in Handlers : req[g].at \notin {"place", "commit"}
  BY <1>3 DEF KnownInv, Traced
<1>5. /\ \A u \in Trips : trips[u] # "none" => trips'[u] # "none"
      /\ \A n \in news' : n \in news \/ n.next = None
  BY <1>2, ReportKnown DEF ToldStates
<1>6. TripsStay
  BY <1>2, <1>5 DEF TripsStay
<1>7. \A n \in news' : Made(n)'
  BY <1>5, <1>6, AddedNewsMade
<1>8. RunningIsKnown'
  <2>1. trips' = [trips EXCEPT ![job.trip] = Stopped]
    BY <1>2 DEF Report
  <2>2. \A t \in Trips : trips'[t] \in {"assigning", "assigned", "picked_up"} =>
          t # job.trip /\ trips[t] \in {"assigning", "assigned", "picked_up"}
    BY <1>1, <2>1 DEF Stopped
  <2>3. \A t \in Trips : trips'[t] \in {"assigning", "assigned", "picked_up"} => flagged
    BY <1>1, <1>2, <1>3, <2>2 DEF RunningIsKnown
  <2> QED
    BY <1>2, <2>3 DEF RunningIsKnown
<1>9. CASE Goto(h, "cancelled")
  <2>1. req'[h].at = "cancelled" /\ \A g \in Handlers : g # h => req'[g] = req[g]
    BY <1>1, <1>9, GotoIs
  <2>2. Traced(req[h])'
    BY <1>2, <2>1 DEF Traced, AboutNews
  <2> QED
    BY <1>2, <1>3, <1>4, <1>6, <1>7, <1>8, <2>1, <2>2, HandlerKnown DEF HasAsked
<1>10. CASE UNCHANGED req
  <2>1. \A g \in Handlers : Traced(req[g])'
    <3> SUFFICES ASSUME NEW g \in Handlers
                 PROVE  Traced(req[g])'
      OBVIOUS
    <3> QED
      BY <1>4, <1>6, <1>10, TracedStays
  <2> QED
    BY <1>2, <1>3, <1>7, <1>8, <1>10, <2>1 DEF KnownInv
<1> QED
  BY <1>2, <1>9, <1>10

\* Steps of the provider and of the staff: no request moves.
LEMMA OutsideKnown ==
  ASSUME KnownInv, OneTripInv',
         \/ \E s \in Shippers : Assign(s) \/ ConfirmRoute(s)
         \/ \E t \in Trips : Travel(t) \/ \E u \in Trips : Replace(t, u)
  PROVE  KnownInv'
<1>1. /\ TypeOK /\ OneTrip /\ RunningIsKnown /\ job \in JobRow /\ trips \in [Trips -> TripStates]
      /\ news \subseteq News
  BY TypeParts DEF KnownInv, OneTripInv, TablesFit, ProviderFits
<1>2. UNCHANGED <<job, flagged, req>>
  BY DEF Assign, ConfirmRoute, GiveTo, Travel, Replace, table
<1>3. ASSUME TripsStay, \A n \in news' : Made(n)', RunningIsKnown'
      PROVE  KnownInv'
  <2>1. \A g \in Handlers : Traced(req[g])'
    <3> SUFFICES ASSUME NEW g \in Handlers
                 PROVE  Traced(req[g])'
      OBVIOUS
    <3>1. req[g].at \in {"place", "commit"} => job'.status = "booking"
      BY <1>2 DEF KnownInv, Traced
    <3> QED
      BY <1>2, <1>3, <3>1, TracedStays
  <2> QED
    BY <1>2, <1>3, <2>1 DEF KnownInv
<1>4. CASE UNCHANGED provider
  <2>1. TripsStay /\ news' = news
    BY <1>2, <1>4 DEF TripsStay, provider
  <2>2. RunningIsKnown'
    BY <1>1, <1>2, <1>4 DEF RunningIsKnown, provider
  <2> QED
    BY <1>3, <2>1, <2>2, NewsStayMade
<1>5. ASSUME NEW t \in Trips, Travel(t)
      PROVE  KnownInv'
  <2>1. PICK state \in TripStates : <<trips[t], state>> \in TripSteps /\ Report(t, state)
    BY <1>5 DEF Travel
  <2>2. state \in ToldStates
    BY <2>1 DEF TripSteps, ToldStates
  <2>3. TripsStay /\ \A n \in news' : Made(n)'
    <3>1. /\ \A u \in Trips : trips[u] # "none" => trips'[u] # "none"
          /\ \A n \in news' : n \in news \/ n.next = None
      BY <2>1, <2>2, ReportKnown
    <3>2. TripsStay
      BY <1>2, <3>1 DEF TripsStay
    <3> QED
      BY <3>1, <3>2, AddedNewsMade
  <2>4. RunningIsKnown'
    <3>1. /\ trips' = [trips EXCEPT ![t] = state]
          /\ trips[t] \in {"assigning", "assigned", "picked_up"}
      BY <2>1 DEF Report, TripSteps
    <3>2. \A u \in Trips : trips'[u] \in {"assigning", "assigned", "picked_up"} =>
            trips[u] \in {"assigning", "assigned", "picked_up"}
      BY <1>1, <3>1
    <3>3. job.trip # None /\ trips[job.trip] = "replaced" => trips'[job.trip] = "replaced"
      BY <1>1, <3>1 DEF JobRow
    <3> QED
      BY <1>1, <1>2, <3>2, <3>3 DEF RunningIsKnown
  <2> QED
    BY <1>3, <2>3, <2>4
<1>6. ASSUME NEW t \in Trips, NEW u \in Trips, Replace(t, u)
      PROVE  KnownInv'
  <2>1. /\ trips[t] \in {"assigning", "assigned"} /\ trips[u] = "none" /\ t # u
        /\ trips' = [trips EXCEPT ![t] = "replaced", ![u] = "assigning"]
        /\ news' = news \cup {[trip |-> t, status |-> "booked", at |-> clock + 1,
                               next |-> u, polled |-> FALSE]}
    BY <1>6 DEF Replace
  <2>2. /\ trips'[t] = "replaced" /\ trips'[u] = "assigning"
        /\ \A v \in Trips \ {t, u} : trips'[v] = trips[v]
    BY <1>1, <2>1
  <2>3. TripsStay
    BY <1>2, <2>1, <2>2 DEF TripsStay
  <2>4. \A n \in news' : Made(n)'
    <3>1. \A n \in news : Made(n)'
      BY <1>1, <2>3, MadeStays DEF KnownInv
    <3>2. \A n \in news' : n \in news \/ n.next = u
      BY <2>1
    <3>3. \A n \in news' : n.next = u => Made(n)'
      BY <2>2 DEF Made
    <3> QED
      BY <3>1, <3>2, <3>3
  <2>5. RunningIsKnown'
    <3>1. t \in Ordered
      BY <2>1 DEF Ordered
    <3>2. \A v \in Trips : trips[v] \in {"assigning", "assigned", "picked_up"} => v = t
      BY <1>1, <3>1 DEF OneTrip, Ordered
    <3>3. \/ job.trip # None /\ (job.trip = t \/ trips[job.trip] = "replaced")
          \/ job.status = "booking" \/ flagged
      BY <1>1, <2>1 DEF RunningIsKnown
    <3>4. job.trip # None /\ (job.trip = t \/ trips[job.trip] = "replaced") =>
            trips'[job.trip] = "replaced"
      BY <1>1, <2>1, <2>2 DEF JobRow
    <3> QED
      BY <1>2, <3>3, <3>4 DEF RunningIsKnown
  <2> QED
    BY <1>3, <2>3, <2>4, <2>5
<1>7. UNCHANGED provider \/ \E t \in Trips : Travel(t) \/ \E u \in Trips : Replace(t, u)
  BY DEF Assign, ConfirmRoute, GiveTo
<1> QED
  BY <1>4, <1>5, <1>6, <1>7

LEMMA KnownStep == KnownInv /\ [Next]_vars => KnownInv'
<1> SUFFICES ASSUME KnownInv, [Next]_vars
             PROVE  KnownInv'
  OBVIOUS
<1>1. OneTripInv'
  BY OneTripStep DEF KnownInv
<1>2. CASE UNCHANGED vars
  <2>1. TripsStay
    BY <1>2 DEF TripsStay, vars
  <2>2. \A g \in Handlers : Traced(req[g])'
    BY <1>2 DEF KnownInv, Traced, Made, vars
  <2>3. \A n \in news' : Made(n)'
    BY <1>2, <2>1, NewsStayMade DEF vars
  <2> QED
    BY <1>1, <1>2, <2>2, <2>3 DEF KnownInv, RunningIsKnown, vars
<1>3. ASSUME NEW h \in Handlers,
             \/ Booking(h) \/ Dispatching(h) \/ Listening(h) \/ Refreshing(h) \/ Cancelling(h)
             \/ Abort(h)
      PROVE  KnownInv'
  BY <1>1, <1>3, DispatchKnown, LookKnown, RecordKnown, BookKnown, JobKnown, CancelKnown
     DEF Booking, Dispatching, Listening, Refreshing, Cancelling
<1> QED
  BY <1>1, <1>2, <1>3, OutsideKnown DEF Next

LEMMA InitKnown == Init => KnownInv
<1> SUFFICES ASSUME Init
             PROVE  KnownInv
  OBVIOUS
<1>1. OneTripInv
  BY InitOneTrip
<1>2. \A h \in Handlers : req[h].at = "idle"
  BY IdleFits DEF Init
<1>3. \A h \in Handlers : Traced(req[h])
  BY <1>2 DEF Traced, AboutNews
<1>4. job.trip = None /\ news = {} /\ \A t \in Trips : trips[t] = "none"
  BY DEF Init
<1> QED
  BY <1>1, <1>2, <1>3, <1>4 DEF KnownInv, RunningIsKnown, HasAsked

\* Whatever answers are lost and whoever dies: a trip that runs is known to the job, or
\* the job is marked as unfinished, or a person is asked to look for it.
THEOREM RunningIsKnownHolds == Spec => []RunningIsKnown
<1>1. KnownInv => RunningIsKnown
  BY DEF KnownInv
<1> QED
  BY <1>1, InitKnown, KnownStep, PTL DEF Spec

-----------------------------------------------------------------------------
(* The fee of a trip.  News of a completion, wherever they are, are true:   *)
(* the trip was completed when they were made, and completed it stays.      *)

Truthful(n) == n.status = "completed" => trips[n.trip] = "completed"

Tells(r) ==
  /\ r.at \in AboutNews => Truthful(r.news)
  /\ r.at = "stamp" /\ r.status = "completed" => trips[r.trip] = "completed"

ChargedInv ==
  /\ TypeOK
  /\ \A n \in news : Truthful(n)
  /\ \A h \in Handlers : Tells(req[h])
  /\ ChargedForDelivery

EndsStay ==
  /\ \A t \in Trips : trips[t] = "completed" => trips'[t] = "completed"
  /\ order.status = "delivered" => order'.status = "delivered"

LEMMA EndsStep ==
  ASSUME TypeOK, [Next]_vars
  PROVE  EndsStay
<1>1. order \in OrderRow /\ trips \in [Trips -> TripStates] /\ job \in JobRow
  BY TypeParts DEF TablesFit, ProviderFits
<1>2. ASSUME NEW t \in Trips, trips[t] = "completed"
      PROVE  trips'[t] = "completed"
  <2>1. ASSUME NEW u \in Trips, NEW state, Report(u, state), trips[u] # "completed"
        PROVE  trips'[t] = "completed"
    BY <1>1, <1>2, <2>1 DEF Report
  <2>2. CASE \E h \in Handlers : Place(h) \/ CancelCall(h)
    BY <1>1, <1>2, <2>1, <2>2 DEF Place, CancelCall, provider, JobRow
  <2>3. CASE \E u \in Trips : Travel(u)
    BY <2>1, <2>3 DEF Travel, TripSteps
  <2>4. CASE \E u, v \in Trips : Replace(u, v)
    <3>1. PICK u \in Trips, v \in Trips : Replace(u, v)
      BY <2>4
    <3>2. trips[u] # "completed" /\ trips[v] # "completed"
      BY <3>1 DEF Replace
    <3> QED
      BY <1>1, <1>2, <3>1, <3>2 DEF Replace
  <2>5. \/ UNCHANGED trips
        \/ \E h \in Handlers : Place(h) \/ CancelCall(h)
        \/ \E u \in Trips : Travel(u)
        \/ \E u, v \in Trips : Replace(u, v)
    BY DEF Next, vars, provider, Booking, Dispatching, Listening, Refreshing, Cancelling, Assign,
           ConfirmRoute, GiveTo, Advance, AutoRead, AutoQuote, BookRead, BookRefused, BookInsert,
           BookCommit, BookFail, Receive, RecordNews, ReplaceTrip, ApplyNews, RefreshPoll,
           RefreshStamp, CancelCommit, Abort
  <2> QED
    BY <1>2, <2>2, <2>3, <2>4, <2>5
<1>3. ASSUME order.status = "delivered"
      PROVE  order'.status = "delivered"
  <2>1. CASE UNCHANGED order
    BY <1>3, <2>1
  <2>2. ASSUME NEW h \in Handlers, Advance(h) \/ BookCommit(h) \/ CancelCommit(h) \/ ApplyNews(h)
        PROVE  order'.status = "delivered"
    BY <1>1, <1>3, <2>2, CommitMoves, NewsMoves DEF Advance, ClosedStatuses, ApplyNews
  <2>3. ASSUME NEW s \in Shippers, GiveTo(s)
        PROVE  FALSE
    BY <1>3, <2>3 DEF GiveTo
  <2>4. \/ UNCHANGED order
        \/ \E h \in Handlers : Advance(h) \/ BookCommit(h) \/ CancelCommit(h) \/ ApplyNews(h)
        \/ \E s \in Shippers : GiveTo(s)
    BY DEF Next, vars, table, Booking, Dispatching, Listening, Refreshing, Cancelling, Assign,
           ConfirmRoute, AutoRead, AutoQuote, BookRead, BookRefused, BookInsert, Place, BookFail,
           Receive, RecordNews, ReplaceTrip, RefreshPoll, RefreshStamp, CancelCall, Abort,
           Travel, Replace
  <2> QED
    BY <2>1, <2>2, <2>3, <2>4
<1> QED
  BY <1>2, <1>3 DEF EndsStay

LEMMA TrueStays ==
  ASSUME EndsStay, NEW n \in News, Truthful(n)
  PROVE  Truthful(n)'
<1>1. n.trip \in Trips
  BY DEF News
<1> QED
  BY <1>1 DEF Truthful, EndsStay

LEMMA TellsStays ==
  ASSUME TypeOK, EndsStay, NEW h \in Handlers, Tells(req[h]), req'[h] = req[h]
  PROVE  Tells(req[h])'
<1>1. Fits(req[h])
  BY TypeParts DEF RequestsFit
<1>2. req[h].at = "stamp" /\ req[h].status = "completed" => trips'[req[h].trip] = "completed"
  BY <1>1 DEF Fits, AboutTrip, Tells, EndsStay
<1>3. req[h].at \in AboutNews => Truthful(req[h].news)'
  <2> SUFFICES ASSUME req[h].at \in AboutNews
               PROVE  req'[h].news.status = "completed" => trips'[req'[h].news.trip] = "completed"
    BY DEF Truthful
  <2>1. req[h].news \in News /\ Truthful(req[h].news)
    BY <1>1 DEF Fits, Tells
  <2>2. req[h].news.trip \in Trips
    BY <2>1 DEF News
  <2> QED
    BY <2>1, <2>2 DEF Truthful, EndsStay
<1> QED
  BY <1>2, <1>3 DEF Tells

LEMMA NewsStayTrue ==
  ASSUME ChargedInv, EndsStay, [Next]_vars
  PROVE  \A n \in news' : Truthful(n)'
<1>1. news \subseteq News /\ trips \in [Trips -> TripStates] /\ job \in JobRow
  BY TypeParts DEF ChargedInv, ProviderFits, TablesFit
<1>2. \A n \in news : Truthful(n)'
  BY <1>1, TrueStays DEF ChargedInv
<1>3. ASSUME NEW t \in Trips, NEW state, Report(t, state)
      PROVE  \A n \in news' : Truthful(n)'
  <2>1. \A n \in news' : n \in news \/ (n.status = state /\ n.trip = t)
    BY <1>3 DEF Report
  <2>2. trips'[t] = state
    BY <1>1, <1>3 DEF Report
  <2> QED
    BY <1>2, <2>1, <2>2 DEF Truthful
<1>4. ASSUME NEW t \in Trips, NEW u \in Trips, Replace(t, u)
      PROVE  \A n \in news' : Truthful(n)'
  <2>1. \A n \in news' : n \in news \/ n.status = "booked"
    BY <1>4 DEF Replace
  <2> QED
    BY <1>2, <2>1 DEF Truthful
<1>5. CASE news' = news
  BY <1>2, <1>5
<1>6. \/ news' = news
      \/ \E t \in Trips : \E state : Report(t, state)
      \/ \E t, u \in Trips : Replace(t, u)
  <2>1. CASE \E h \in Handlers : CancelCall(h)
    BY <1>1, <2>1 DEF CancelCall, JobRow
  <2>2. CASE ~ \E h \in Handlers : CancelCall(h)
    BY <2>2 DEF Next, vars, provider, Booking, Dispatching, Listening, Refreshing, Cancelling, Assign,
           ConfirmRoute, GiveTo, Advance, AutoRead, AutoQuote, BookRead, BookRefused, BookInsert,
           Place, BookCommit, BookFail, Receive, RecordNews, ReplaceTrip, ApplyNews, RefreshPoll,
           RefreshStamp, CancelCommit, Abort, Travel
  <2> QED
    BY <2>1, <2>2
<1> QED
  BY <1>3, <1>4, <1>5, <1>6

\* What a request learns is true.
LEMMA RequestsTell ==
  ASSUME ChargedInv, EndsStay, [Next]_vars
  PROVE  \A h \in Handlers : Tells(req[h])'
<1>1. /\ TypeOK /\ req \in [Handlers -> Requests] /\ news \subseteq News
      /\ \A h \in Handlers : req[h] \in Requests /\ Fits(req[h]) /\ Tells(req[h])
      /\ job \in JobRow
  BY TypeParts DEF ChargedInv, RequestsFit, ProviderFits, TablesFit
<1> DEFINE OthersStay(h) == \A g \in Handlers : g # h => req'[g] = req[g]
<1>2. ASSUME NEW h \in Handlers, OthersStay(h), Tells(req[h])'
      PROVE  \A g \in Handlers : Tells(req[g])'
  <2> SUFFICES ASSUME NEW g \in Handlers, g # h
               PROVE  Tells(req[g])'
    BY <1>2
  <2> QED
    BY <1>1, <1>2, TellsStays
<1>3. ASSUME NEW h \in Handlers, OthersStay(h), req'[h].at \notin AboutNews \cup {"stamp"}
      PROVE  \A g \in Handlers : Tells(req[g])'
  <2>1. Tells(req[h])'
    BY <1>3 DEF Tells
  <2> QED
    BY <1>2, <1>3, <2>1
<1>4. ASSUME NEW h \in Handlers, NEW n \in News, Truthful(n)', OthersStay(h),
             req'[h].at \in AboutNews, req'[h].news = n
      PROVE  \A g \in Handlers : Tells(req[g])'
  <2>1. Tells(req[h])'
    BY <1>4 DEF Tells, Truthful, AboutNews
  <2> QED
    BY <1>2, <1>4, <2>1
<1>5. ASSUME NEW h \in Handlers, NEW n \in News, Truthful(n)', Look(h, n)
      PROVE  \A g \in Handlers : Tells(req[g])'
  <2>1. req'[h].at = "record" /\ req'[h].news = n /\ OthersStay(h)
    BY <1>1, <1>5, IdleFits DEF Look, Requests
  <2> QED
    BY <1>4, <1>5, <2>1 DEF AboutNews
<1>6. ASSUME NEW h \in Handlers, Receive(h)
      PROVE  \A g \in Handlers : Tells(req[g])'
  BY <1>1, <1>5, <1>6, TrueStays DEF Receive, ChargedInv
<1>7. ASSUME NEW h \in Handlers, RefreshStamp(h)
      PROVE  \A g \in Handlers : Tells(req[g])'
  <2>1. /\ req[h].at = "stamp" /\ req[h].trip \in Trips /\ req[h].status \in ReportedStatuses
        /\ req[h].status = "completed" => trips[req[h].trip] = "completed"
    BY <1>1, <1>7 DEF RefreshStamp, Fits, AboutTrip, Requests, Tells
  <2>2. PICK now \in {clock, clock + 1} :
          Look(h, [trip |-> req[h].trip, status |-> req[h].status, at |-> now,
                   next |-> None, polled |-> TRUE])
    BY <1>7 DEF RefreshStamp
  <2>3. now \in Nat
    BY <1>1, <2>2, TypeParts DEF ProviderFits
  <2>4. PICK n : n = [trip |-> req[h].trip, status |-> req[h].status, at |-> now,
                      next |-> None, polled |-> TRUE]
    OBVIOUS
  <2>5. n \in News /\ n.trip = req[h].trip /\ n.status = req[h].status
    BY <2>1, <2>3, <2>4 DEF News
  <2>6. Truthful(n)
    BY <2>1, <2>5 DEF Truthful
  <2> QED
    BY <1>5, <2>2, <2>4, <2>5, <2>6, TrueStays
<1>8. ASSUME NEW h \in Handlers, RefreshPoll(h)
      PROVE  \A g \in Handlers : Tells(req[g])'
  <2>6. PICK status :
          /\ status = IF trips[job.trip] \in ReportedStatuses THEN trips[job.trip] ELSE "booked"
          /\ req' = [req EXCEPT ![h].at = "stamp", ![h].trip = job.trip, ![h].status = status]
    BY <1>8 DEF RefreshPoll
  <2>1. status = "completed" => trips[job.trip] = "completed"
    BY <2>6
  <2>2. UNCHANGED trips
    BY <1>8 DEF RefreshPoll, provider
  <2> DEFINE q == [req[h] EXCEPT !.at = "stamp", !.trip = job.trip, !.status = status]
  <2>3. req' = [req EXCEPT ![h] = q] /\ q.at = "stamp" /\ q.trip = job.trip /\ q.status = status
    BY <1>1, <2>6 DEF Requests
  <2> HIDE DEF q
  <2>4. OthersStay(h) /\ req'[h] = q
    BY <1>1, <2>3
  <2>5. Tells(req[h])'
    BY <2>1, <2>2, <2>3, <2>4 DEF Tells, AboutNews
  <2> QED
    BY <1>2, <2>4, <2>5
<1>9. ASSUME NEW h \in Handlers, RecordNews(h) \/ ReplaceTrip(h)
      PROVE  \A g \in Handlers : Tells(req[g])'
  <2>1. req[h].at \in AboutNews
    BY <1>9 DEF RecordNews, ReplaceTrip, AboutNews
  <2>2. req[h].news \in News /\ Truthful(req[h].news)
    BY <1>1, <2>1 DEF Fits, Tells
  <2>3. PICK n \in News : n = req[h].news
    BY <2>2
  <2>4. Truthful(n)'
    BY <2>2, <2>3, TrueStays
  <2>5. \/ End(h) \/ Goto(h, "apply")
        \/ req' = [req EXCEPT ![h] = [Idle EXCEPT !.news = n,
                            !.at = IF n.next # None THEN "replace" ELSE "apply"]]
    BY <1>9, <2>3 DEF RecordNews, ReplaceTrip
  <2>6. /\ OthersStay(h)
        /\ req'[h].at = "idle" \/ (req'[h].at \in AboutNews /\ req'[h].news = n)
    <3>1. CASE End(h)
      BY <1>1, <3>1, EndIs
    <3>2. CASE Goto(h, "apply")
      BY <1>1, <2>3, <3>2, GotoIs DEF AboutNews
    <3>3. CASE req' = [req EXCEPT ![h] = [Idle EXCEPT !.news = n,
                            !.at = IF n.next # None THEN "replace" ELSE "apply"]]
      <4> DEFINE q == [Idle EXCEPT !.news = n,
                         !.at = IF n.next # None THEN "replace" ELSE "apply"]
      <4>1. q.at \in AboutNews /\ q.news = n
        BY IdleFits DEF Requests, AboutNews
      <4>2. req' = [req EXCEPT ![h] = q]
        BY <3>3
      <4> HIDE DEF q
      <4> QED
        BY <1>1, <4>1, <4>2
    <3> QED
      BY <2>5, <3>1, <3>2, <3>3
  <2> QED
    BY <1>3, <1>4, <2>4, <2>6 DEF AboutNews
<1>10. CASE UNCHANGED req
  BY <1>1, <1>10, TellsStays
<1>11. ASSUME NEW h \in Handlers, Place(h)
       PROVE  \A g \in Handlers : Tells(req[g])'
  <2>1. \/ Goto(h, "uncertain") \/ Goto(h, "failed")
        \/ \E t \in Trips :
             req' = [req EXCEPT ![h].at = "commit", ![h].trip = t, ![h].status = "assigning"]
    BY <1>11 DEF Place
  <2>2. OthersStay(h) /\ req'[h].at \in {"uncertain", "failed", "commit"}
    <3>1. CASE Goto(h, "uncertain") \/ Goto(h, "failed")
      BY <1>1, <3>1, GotoIs
    <3>2. ASSUME NEW t \in Trips,
                 req' = [req EXCEPT ![h].at = "commit", ![h].trip = t, ![h].status = "assigning"]
          PROVE  OthersStay(h) /\ req'[h].at = "commit"
      BY <1>1, <3>2 DEF Requests
    <3> QED
      BY <2>1, <3>1, <3>2
  <2> QED
    BY <1>3, <2>2 DEF AboutNews
<1>12. ASSUME NEW h \in Handlers,
              \/ Advance(h) \/ AutoRead(h) \/ AutoQuote(h) \/ BookRead(h) \/ BookRefused(h)
              \/ BookInsert(h) \/ BookCommit(h) \/ BookFail(h) \/ ApplyNews(h)
              \/ CancelCall(h) \/ CancelCommit(h) \/ Abort(h)
       PROVE  \A g \in Handlers : Tells(req[g])'
  <2>1. \/ UNCHANGED req \/ End(h)
        \/ \E label \in {"auto", "auto.quote", "read", "insert", "place", "uncertain",
                         "cancelled"} : Goto(h, label)
    BY <1>12 DEF Advance, AutoRead, AutoQuote, BookRead, BookRefused, BookInsert, BookCommit,
                 BookFail, ApplyNews, CancelCall, CancelCommit, Abort, Goto
  <2>2. CASE ~ UNCHANGED req
    <3>1. /\ OthersStay(h)
          /\ req'[h].at \in {"idle", "auto", "auto.quote", "read", "insert", "place",
                             "uncertain", "cancelled"}
      BY <1>1, <2>1, <2>2, GotoIs, EndIs
    <3> QED
      BY <1>3, <3>1 DEF AboutNews
  <2> QED
    BY <1>10, <2>2
<1>13. CASE \/ \E s \in Shippers : Assign(s) \/ ConfirmRoute(s)
            \/ \E t \in Trips : Travel(t) \/ \E u \in Trips \ {t} : Replace(t, u)
  BY <1>10, <1>13 DEF Assign, ConfirmRoute, GiveTo, Travel, Replace
<1> HIDE DEF OthersStay
<1> QED
  BY <1>6, <1>7, <1>8, <1>9, <1>10, <1>11, <1>12, <1>13
     DEF Next, vars, Booking, Dispatching, Listening, Refreshing, Cancelling

LEMMA ChargedStep == ChargedInv /\ [Next]_vars => ChargedInv'
<1> SUFFICES ASSUME ChargedInv, [Next]_vars
             PROVE  ChargedInv'
  OBVIOUS
<1>1. TypeOK /\ TypeOK'
  BY TypeStep DEF ChargedInv
<1>2. EndsStay
  BY <1>1, EndsStep
<1>3. order \in OrderRow
  BY <1>1, TypeParts DEF TablesFit
<1>4. ChargedForDelivery'
  <2>1. CASE charged' = charged
    BY <1>2, <2>1 DEF ChargedInv, ChargedForDelivery, EndsStay
  <2>2. ASSUME NEW h \in Handlers, ApplyNews(h)
        PROVE  ChargedForDelivery'
    <3>1. /\ req[h].news \in News /\ Truthful(req[h].news) /\ UNCHANGED trips
          /\ order' = Told(order, req[h].news.status)
          /\ charged' = (charged \/ req[h].news.status = "completed")
      BY <1>1, <2>2, TypeParts DEF ApplyNews, RequestsFit, Fits, AboutNews, ChargedInv, Tells,
                                   Charges, provider
    <3>2. CASE req[h].news.status = "completed"
      <4>1. order'.status = "delivered"
        BY <1>3, <3>1, <3>2, NewsMoves
      <4>2. req[h].news.trip \in Trips /\ trips'[req[h].news.trip] = "completed"
        BY <3>1, <3>2 DEF News, Truthful
      <4> QED
        BY <4>1, <4>2 DEF ChargedForDelivery
    <3>3. CASE req[h].news.status # "completed"
      <4>1. charged' => charged
        BY <3>1, <3>3
      <4> QED
        BY <1>2, <4>1 DEF ChargedInv, ChargedForDelivery, EndsStay
    <3> QED
      BY <3>2, <3>3
  <2>3. charged' = charged \/ \E h \in Handlers : ApplyNews(h)
    BY DEF Next, vars, table, Booking, Dispatching, Listening, Refreshing, Cancelling, Assign,
           ConfirmRoute, GiveTo, Advance, AutoRead, AutoQuote, BookRead, BookRefused, BookInsert,
           Place, BookCommit, BookFail, Receive, RecordNews, ReplaceTrip, RefreshPoll,
           RefreshStamp, CancelCall, CancelCommit, Abort, Travel, Replace
  <2> QED
    BY <2>1, <2>2, <2>3
<1> QED
  BY <1>1, <1>2, <1>4, NewsStayTrue, RequestsTell DEF ChargedInv

\* The fee is booked only for a completed trip of an order that is delivered, however
\* late, repeated and reordered the news of it are.
THEOREM ChargedForDeliveryHolds == Spec => []ChargedForDelivery
<1>1. Init => ChargedInv
  <2> SUFFICES ASSUME Init
               PROVE  ChargedInv
    OBVIOUS
  <2>1. \A h \in Handlers : req[h].at = "idle"
    BY IdleFits DEF Init
  <2>2. \A h \in Handlers : Tells(req[h])
    BY <2>1 DEF Tells, AboutNews
  <2> QED
    BY <2>2, TypeInit DEF Init, ChargedInv, ChargedForDelivery
<1>2. ChargedInv => ChargedForDelivery
  BY DEF ChargedInv
<1> QED
  BY <1>1, <1>2, ChargedStep, PTL DEF Spec

-----------------------------------------------------------------------------
(* The job does not run ahead of its trip.  What is said of a trip stays    *)
(* true, since a trip does not go back; what is said is said of the job's   *)
(* trip, since the job moves to another trip only from one that was         *)
(* replaced, of which nothing else can be said any more; and it does so     *)
(* once, since the event's key lets one request through.                    *)

Ends == {"picked_up", "completed", Stopped}

\* A status that is said of a trip is one that the trip has reached.
Came(status, state) ==
  /\ status = "picked_up" => state \in {"picked_up", "completed"}
  /\ status \in {"completed", Stopped} => state = status

IsMatched(r) == r.at = "apply" \/ (r.at = "record" /\ r.matched)

\* What the provider has sent is true, and a trip is replaced once.
TrueNews(n) ==
  Came(n.status, trips[n.trip]) /\ ~ n.polled /\ (n.next # None => trips[n.trip] = "replaced")

Sent ==
  /\ \A n \in news : TrueNews(n)
  /\ \A m, n \in news : m.next # None /\ n.next # None /\ m.trip = n.trip => m = n

\* What a request knows of trips is true, and news of the job's trip stay news of it unless
\* that trip is replaced.
SureNews(r) ==
  /\ r.at \in AboutNews =>
       Came(r.news.status, trips[r.news.trip]) /\ (r.news.next # None => r.news \in news)
  /\ IsMatched(r) => job.trip = r.news.trip \/ trips[r.news.trip] = "replaced"
  /\ r.at = "record" /\ r.matched /\ r.news.next # None =>
       job.trip = r.news.trip \/ r.news \in recorded
  /\ r.at = "replace" => job.trip = r.news.trip /\ r.news \in recorded

SureTrip(r) ==
  /\ r.at = "commit" => r.status = "assigning"
  /\ r.at = "stamp" => Came(r.status, trips[r.trip])
  /\ r.at = "cancelled" => trips[job.trip] = Stopped

OneReplaces ==
  \A g, h \in Handlers :
    req[g].at = "replace" /\ req[h].at = "replace" /\ req[g].news = req[h].news => g = h

JobCame == job.status \in Ends => job.trip # None /\ Came(job.status, trips[job.trip])

AheadInv ==
  /\ KnownInv /\ Sent /\ OneReplaces /\ JobCame
  /\ \A h \in Handlers : SureNews(req[h]) /\ SureTrip(req[h])

\* Trips do not go back.
TripsAdvance ==
  \A t \in Trips :
    /\ trips[t] \in {"completed", Stopped, "replaced"} => trips'[t] = trips[t]
    /\ trips[t] = "picked_up" => trips'[t] \in {"picked_up", "completed"}

LEMMA TripsAdvanceStep ==
  ASSUME TypeOK, [Next]_vars
  PROVE  TripsAdvance
<1>1. trips \in [Trips -> TripStates] /\ job \in JobRow
  BY TypeParts DEF TablesFit, ProviderFits
<1>2. ASSUME NEW u \in Trips, NEW state, Report(u, state),
             \/ trips[u] \in {"none", "assigning", "assigned"}
             \/ trips[u] = "picked_up" /\ state = "completed"
      PROVE  TripsAdvance
  <2>1. trips' = [trips EXCEPT ![u] = state]
    BY <1>2 DEF Report
  <2> QED
    BY <1>1, <1>2, <2>1 DEF TripsAdvance, Stopped
<1>3. CASE \E h \in Handlers : Place(h) \/ CancelCall(h)
  <2>1. PICK h \in Handlers : Place(h) \/ CancelCall(h)
    BY <1>3
  <2>2. CASE Place(h)
    BY <1>2, <2>2 DEF Place, provider, TripsAdvance
  <2>3. CASE CancelCall(h)
    BY <1>1, <1>2, <2>3 DEF CancelCall, JobRow
  <2> QED
    BY <2>1, <2>2, <2>3
<1>4. CASE \E t \in Trips : Travel(t)
  <2>1. PICK t \in Trips, state \in TripStates : <<trips[t], state>> \in TripSteps /\ Report(t, state)
    BY <1>4 DEF Travel
  <2> QED
    BY <1>2, <2>1 DEF TripSteps
<1>5. CASE \E t, u \in Trips : Replace(t, u)
  <2>1. PICK t \in Trips, u \in Trips : Replace(t, u)
    BY <1>5
  <2>2. /\ trips[t] \in {"assigning", "assigned"} /\ trips[u] = "none"
        /\ trips' = [trips EXCEPT ![t] = "replaced", ![u] = "assigning"]
    BY <2>1 DEF Replace
  <2> QED
    BY <1>1, <2>2 DEF TripsAdvance, Stopped
<1>6. \/ UNCHANGED trips
      \/ \E h \in Handlers : Place(h) \/ CancelCall(h)
      \/ \E t \in Trips : Travel(t)
      \/ \E t, u \in Trips : Replace(t, u)
  BY DEF Next, vars, provider, Booking, Dispatching, Listening, Refreshing, Cancelling, Assign,
         ConfirmRoute, GiveTo, Advance, AutoRead, AutoQuote, BookRead, BookRefused, BookInsert,
         BookCommit, BookFail, Receive, RecordNews, ReplaceTrip, ApplyNews, RefreshPoll,
         RefreshStamp, CancelCommit, Abort
<1>7. CASE UNCHANGED trips
  BY <1>7 DEF TripsAdvance
<1> QED
  BY <1>3, <1>4, <1>5, <1>6, <1>7

LEMMA CameStays ==
  ASSUME TripsAdvance, NEW t \in Trips, NEW status, Came(status, trips[t])
  PROVE  Came(status, trips'[t])
BY DEF Came, TripsAdvance

LEMMA AheadTypes ==
  ASSUME TypeOK
  PROVE  /\ trips \in [Trips -> TripStates] /\ news \subseteq News /\ job \in JobRow /\ clock \in Nat
         /\ req \in [Handlers -> Requests]
         /\ \A h \in Handlers : req[h] \in Requests /\ Fits(req[h])
BY TypeParts DEF RequestsFit, ProviderFits, TablesFit

-----------------------------------------------------------------------------
(* The provider's news.                                                    *)

LEMMA ReportedSent ==
  ASSUME AheadInv, TripsAdvance, NEW t \in Trips, NEW state \in TripStates, Report(t, state),
         state # "replaced"
  PROVE  Sent'
<1>1. TypeOK /\ Sent
  BY DEF AheadInv, KnownInv, OneTripInv
<1>2. trips'[t] = state
  BY <1>1, AheadTypes DEF Report
<1>3. ASSUME NEW n \in news PROVE TrueNews(n)'
  <2>1. n.trip \in Trips /\ TrueNews(n)
    BY <1>1, AheadTypes DEF News, Sent
  <2>2. Came(n.status, trips'[n.trip])
    BY <2>1, CameStays DEF TrueNews
  <2> QED
    BY <2>1, <2>2 DEF TrueNews, TripsAdvance
<1>4. PICK m : m = [trip |-> t, status |-> state, at |-> clock + 1, next |-> None, polled |-> FALSE]
  OBVIOUS
<1>5. m.trip = t /\ m.status = state /\ m.next = None /\ m.polled = FALSE
  BY <1>4
<1>6. news' = news \cup {m}
  BY <1>4 DEF Report
<1>7. TrueNews(m)'
  BY <1>2, <1>5 DEF TrueNews, Came
<1>8. \A n \in news' : TrueNews(n)'
  BY <1>3, <1>6, <1>7
<1>9. \A k, n \in news' : k.next # None /\ n.next # None /\ k.trip = n.trip => k = n
  BY <1>1, <1>5, <1>6 DEF Sent
<1> QED
  BY <1>8, <1>9 DEF Sent

LEMMA ReplacedSent ==
  ASSUME AheadInv, TripsAdvance, NEW t \in Trips, NEW u \in Trips, Replace(t, u)
  PROVE  Sent'
<1>1. TypeOK /\ Sent
  BY DEF AheadInv, KnownInv, OneTripInv
<1>2. /\ trips[t] \in {"assigning", "assigned"} /\ trips[u] = "none"
      /\ trips' = [trips EXCEPT ![t] = "replaced", ![u] = "assigning"]
  BY DEF Replace
<1>3. trips'[t] = "replaced"
  BY <1>1, <1>2, AheadTypes
<1>4. ASSUME NEW n \in news PROVE TrueNews(n)' /\ (n.next # None => n.trip # t)
  <2>1. n.trip \in Trips /\ TrueNews(n)
    BY <1>1, AheadTypes DEF News, Sent
  <2>2. Came(n.status, trips'[n.trip])
    BY <2>1, CameStays DEF TrueNews
  <2> QED
    BY <1>2, <2>1, <2>2 DEF TrueNews, TripsAdvance
<1>5. PICK m : m = [trip |-> t, status |-> "booked", at |-> clock + 1, next |-> u, polled |-> FALSE]
  OBVIOUS
<1>6. m.trip = t /\ m.status = "booked" /\ m.polled = FALSE
  BY <1>5
<1>7. news' = news \cup {m}
  BY <1>5 DEF Replace
<1>8. TrueNews(m)'
  BY <1>3, <1>6 DEF TrueNews, Came, Stopped
<1>9. \A n \in news' : TrueNews(n)'
  BY <1>4, <1>7, <1>8
<1>10. \A k, n \in news' : k.next # None /\ n.next # None /\ k.trip = n.trip => k = n
  BY <1>1, <1>4, <1>6, <1>7 DEF Sent
<1> QED
  BY <1>9, <1>10 DEF Sent

LEMMA SentStep ==
  ASSUME AheadInv, TripsAdvance, [Next]_vars
  PROVE  Sent' /\ news \subseteq news'
<1>1. TypeOK /\ Sent
  BY DEF AheadInv, KnownInv, OneTripInv
<1>2. CASE news' = news
  <2>1. ASSUME NEW n \in news PROVE TrueNews(n)'
    <3>1. n.trip \in Trips /\ TrueNews(n)
      BY <1>1, AheadTypes DEF News, Sent
    <3>2. Came(n.status, trips'[n.trip])
      BY <3>1, CameStays DEF TrueNews
    <3> QED
      BY <3>1, <3>2 DEF TrueNews, TripsAdvance
  <2>2. \A n \in news' : TrueNews(n)'
    BY <1>2, <2>1
  <2>3. \A k, n \in news' : k.next # None /\ n.next # None /\ k.trip = n.trip => k = n
    BY <1>1, <1>2 DEF Sent
  <2> QED
    BY <1>2, <2>2, <2>3 DEF Sent
<1>3. ASSUME NEW t \in Trips, NEW state \in TripStates, Report(t, state), state # "replaced"
      PROVE  Sent' /\ news \subseteq news'
  BY <1>3, ReportedSent DEF Report
<1>4. ASSUME NEW t \in Trips, NEW u \in Trips, Replace(t, u)
      PROVE  Sent' /\ news \subseteq news'
  BY <1>4, ReplacedSent DEF Replace
<1>5. CASE \E h \in Handlers : CancelCall(h)
  <2>1. job.trip \in Trips
    BY <1>1, <1>5, AheadTypes DEF CancelCall, JobRow
  <2> QED
    BY <1>3, <1>5, <2>1 DEF CancelCall, TripStates, Stopped
<1>6. CASE \E h \in Handlers : Place(h)
  BY <1>2, <1>3, <1>6 DEF Place, provider, TripStates
<1>7. CASE \E t \in Trips : Travel(t)
  <2>1. PICK t \in Trips, state \in TripStates : <<trips[t], state>> \in TripSteps /\ Report(t, state)
    BY <1>7 DEF Travel
  <2>2. state # "replaced"
    BY <2>1 DEF TripSteps, Stopped
  <2> QED
    BY <1>3, <2>1, <2>2
<1>8. \/ news' = news
      \/ \E h \in Handlers : Place(h) \/ CancelCall(h)
      \/ \E t \in Trips : Travel(t)
      \/ \E t, u \in Trips : Replace(t, u)
  BY DEF Next, vars, provider, Booking, Dispatching, Listening, Refreshing, Cancelling, Assign,
         ConfirmRoute, GiveTo, Advance, AutoRead, AutoQuote, BookRead, BookRefused, BookInsert,
         BookCommit, BookFail, Receive, RecordNews, ReplaceTrip, ApplyNews, RefreshPoll,
         RefreshStamp, CancelCommit, Abort
<1> QED
  BY <1>2, <1>4, <1>5, <1>6, <1>7, <1>8

-----------------------------------------------------------------------------
(* What requests know.                                                     *)

\* The job keeps its trip, or moves on from one of which this request says nothing new.
LeavesBehind(r) ==
  /\ r.at \notin {"replace", "cancelled"}
  /\ IsMatched(r) => trips[r.news.trip] = "replaced"
  /\ r.at = "record" /\ r.matched /\ r.news.next # None => r.news \in recorded

\* A request that does not move.
LEMMA SureStays ==
  ASSUME AheadInv, TripsAdvance, news \subseteq news', recorded \subseteq recorded',
         NEW h \in Handlers, req'[h] = req[h],
         job'.trip = job.trip \/ LeavesBehind(req[h])
  PROVE  SureNews(req[h])' /\ SureTrip(req[h])'
<1>1. TypeOK /\ SureNews(req[h]) /\ SureTrip(req[h]) /\ Traced(req[h])
  BY DEF AheadInv, KnownInv, OneTripInv
<1>2. req[h] \in Requests /\ Fits(req[h]) /\ job \in JobRow
  BY <1>1, AheadTypes
<1>3. SureTrip(req[h])'
  <2>1. req[h].at = "stamp" => Came(req[h].status, trips'[req[h].trip])
    BY <1>1, <1>2, CameStays DEF SureTrip, Fits, AboutTrip
  <2>2. req[h].at = "cancelled" => trips'[job'.trip] = Stopped
    <3> SUFFICES ASSUME req[h].at = "cancelled" PROVE trips'[job'.trip] = Stopped
      OBVIOUS
    <3>1. job'.trip = job.trip /\ job.trip \in Trips /\ trips[job.trip] = Stopped
      BY <1>1, <1>2 DEF LeavesBehind, SureTrip, Traced, JobRow
    <3> QED
      BY <3>1 DEF TripsAdvance
  <2> QED
    BY <1>1, <2>1, <2>2 DEF SureTrip
<1>4. CASE req[h].at \in AboutNews
  <2>1. PICK n \in News : n = req[h].news
    BY <1>2, <1>4 DEF Fits
  <2>2. n.trip \in Trips /\ Came(n.status, trips[n.trip]) /\ (n.next # None => n \in news)
    BY <1>1, <1>4, <2>1 DEF SureNews, News
  <2>3. Came(n.status, trips'[n.trip]) /\ (trips[n.trip] = "replaced" => trips'[n.trip] = "replaced")
    BY <2>2, CameStays DEF TripsAdvance
  <2>4. IsMatched(req[h]) => job'.trip = n.trip \/ trips'[n.trip] = "replaced"
    BY <1>1, <2>1, <2>3 DEF SureNews, LeavesBehind
  <2>5. req[h].at = "record" /\ req[h].matched /\ n.next # None =>
          job'.trip = n.trip \/ n \in recorded'
    BY <1>1, <2>1 DEF SureNews, LeavesBehind
  <2>6. req[h].at = "replace" => job'.trip = n.trip /\ n \in recorded'
    BY <1>1, <2>1 DEF SureNews, LeavesBehind
  <2>7. req'[h].news = n
    BY <2>1
  <2>8. n.next # None => n \in news'
    BY <2>2
  <2> QED
    BY <1>3, <2>3, <2>4, <2>5, <2>6, <2>7, <2>8 DEF SureNews, IsMatched
<1>5. CASE req[h].at \notin AboutNews
  BY <1>3, <1>5 DEF SureNews, IsMatched, AboutNews
<1> QED
  BY <1>4, <1>5

\* A request that ends, or that goes to where it knows nothing of trips.
LEMMA SureElsewhere ==
  ASSUME NEW h \in Handlers,
         req'[h].at \notin AboutNews \cup {"commit", "stamp", "cancelled"}
  PROVE  SureNews(req[h])' /\ SureTrip(req[h])'
BY DEF SureNews, SureTrip, IsMatched, AboutNews

\* What a step of one request has to show.
LEMMA HandlerAhead ==
  ASSUME AheadInv, KnownInv', Sent', TripsAdvance, news \subseteq news',
         recorded \subseteq recorded', NEW h \in Handlers,
         \A g \in Handlers : g # h =>
           req'[g] = req[g] /\ (job'.trip = job.trip \/ LeavesBehind(req[g])),
         SureNews(req[h])', SureTrip(req[h])',
         req'[h].at = "replace" =>
           \A g \in Handlers : g # h /\ req[g].at = "replace" => req[g].news # req'[h].news,
         JobCame'
  PROVE  AheadInv'
<1>1. \A g \in Handlers : SureNews(req[g])' /\ SureTrip(req[g])'
  <2> SUFFICES ASSUME NEW g \in Handlers, g # h
               PROVE  SureNews(req[g])' /\ SureTrip(req[g])'
    OBVIOUS
  <2> QED
    BY SureStays
<1>2. OneReplaces'
  BY DEF AheadInv, OneReplaces
<1> QED
  BY <1>1, <1>2 DEF AheadInv

\* A job that is left alone.
LEMMA JobCameStays ==
  ASSUME AheadInv, TripsAdvance, UNCHANGED job
  PROVE  JobCame'
<1>1. job \in JobRow
  BY AheadTypes DEF AheadInv, KnownInv, OneTripInv
<1>2. job.status \in Ends => job.trip # None /\ Came(job.status, trips'[job.trip])
  BY <1>1, CameStays DEF AheadInv, JobCame, JobRow
<1> QED
  BY <1>2 DEF JobCame

\* Requests that touch neither a job nor news, and end where they know nothing.
LEMMA QuietAhead ==
  ASSUME AheadInv, KnownInv', TripsAdvance, [Next]_vars, NEW h \in Handlers,
         UNCHANGED <<job, recorded>>,
         \A g \in Handlers : g # h => req'[g] = req[g],
         req'[h].at \notin AboutNews \cup {"commit", "stamp", "cancelled"}
  PROVE  AheadInv'
<1>1. Sent' /\ news \subseteq news'
  BY SentStep
<1>2. JobCame'
  BY JobCameStays
<1>3. req'[h].at # "replace"
  BY DEF AboutNews
<1> QED
  BY <1>1, <1>2, <1>3, SureElsewhere, HandlerAhead

LEMMA DispatchAhead ==
  ASSUME AheadInv, KnownInv', TripsAdvance, [Next]_vars, NEW h \in Handlers,
         \/ Dispatching(h) \/ BookRead(h) \/ BookRefused(h) \/ Abort(h)
  PROVE  AheadInv'
<1>1. TypeOK /\ req \in [Handlers -> Requests]
  BY AheadTypes DEF AheadInv, KnownInv, OneTripInv
<1>2. \/ UNCHANGED req \/ End(h)
      \/ \E label \in {"auto", "auto.quote", "read", "insert"} : Goto(h, label)
  BY DEF Dispatching, Advance, AutoRead, AutoQuote, BookRead, BookRefused, Abort, Goto
<1>3. UNCHANGED <<job, recorded, trips, news>>
  BY DEF Dispatching, Advance, AutoRead, AutoQuote, BookRead, BookRefused, Abort, provider, table
<1>4. CASE UNCHANGED req
  <2>1. Sent' /\ JobCame'
    BY <1>3, SentStep, JobCameStays
  <2>2. \A g \in Handlers : SureNews(req[g])' /\ SureTrip(req[g])'
    BY <1>3, <1>4, SureStays
  <2>3. OneReplaces'
    BY <1>4 DEF AheadInv, OneReplaces
  <2> QED
    BY <2>1, <2>2, <2>3 DEF AheadInv
<1>5. CASE ~ UNCHANGED req
  <2>1. /\ req'[h].at \in {"idle", "auto", "auto.quote", "read", "insert"}
        /\ \A g \in Handlers : g # h => req'[g] = req[g]
    BY <1>1, <1>2, <1>5, GotoIs, EndIs
  <2> QED
    BY <1>3, <2>1, QuietAhead DEF AboutNews
<1> QED
  BY <1>4, <1>5

\* A booking: while it is under way no request knows of a trip of the job.
LEMMA BookAhead ==
  ASSUME AheadInv, KnownInv', TripsAdvance, [Next]_vars, NEW h \in Handlers,
         BookInsert(h) \/ Place(h) \/ BookCommit(h) \/ BookFail(h)
  PROVE  AheadInv'
<1>1. /\ TypeOK /\ req \in [Handlers -> Requests] /\ job \in JobRow
      /\ \A g \in Handlers : Traced(req[g]) /\ req[g] \in Requests
      /\ job.status \in {"none", "booking"} => job.trip = None
  BY AheadTypes DEF AheadInv, KnownInv, OneTripInv
<1>2. Sent' /\ news \subseteq news'
  BY SentStep
<1>3. job.trip = None => \A g \in Handlers : LeavesBehind(req[g])
  BY <1>1 DEF Traced, LeavesBehind, IsMatched
<1>4. CASE BookInsert(h)
  <2>1. /\ req'[h].at \in {"idle", "place"}
        /\ \A g \in Handlers : g # h => req'[g] = req[g]
    BY <1>1, <1>4, GotoIs, EndIs DEF BookInsert
  <2>2. CASE UNCHANGED job
    BY <1>4, <2>1, <2>2, QuietAhead DEF BookInsert, AboutNews
  <2>3. CASE ~ UNCHANGED job
    <3>1. job.trip = None /\ job'.status = "booking" /\ UNCHANGED recorded
      BY <1>1, <1>4, <2>3 DEF BookInsert
    <3>2. JobCame'
      BY <3>1 DEF JobCame, Ends, Stopped
    <3>3. SureNews(req[h])' /\ SureTrip(req[h])'
      BY <2>1, SureElsewhere DEF AboutNews
    <3> QED
      BY <1>2, <1>3, <2>1, <3>1, <3>2, <3>3, HandlerAhead
  <2> QED
    BY <2>2, <2>3
<1>5. CASE Place(h)
  <2>1. UNCHANGED <<job, recorded>>
    BY <1>5 DEF Place, table
  <2>2. CASE Goto(h, "uncertain") \/ Goto(h, "failed")
    <3>1. /\ req'[h].at \in {"uncertain", "failed"}
          /\ \A g \in Handlers : g # h => req'[g] = req[g]
      BY <1>1, <2>2, GotoIs
    <3> QED
      BY <2>1, <3>1, QuietAhead DEF AboutNews
  <2>3. ASSUME NEW t \in Trips,
               req' = [req EXCEPT ![h].at = "commit", ![h].trip = t, ![h].status = "assigning"]
        PROVE  AheadInv'
    <3>1. /\ req'[h].at = "commit" /\ req'[h].status = "assigning"
          /\ \A g \in Handlers : g # h => req'[g] = req[g]
      BY <1>1, <2>3 DEF Requests
    <3>2. SureNews(req[h])' /\ SureTrip(req[h])'
      BY <3>1 DEF SureNews, SureTrip, IsMatched, AboutNews
    <3> QED
      BY <1>2, <2>1, <3>1, <3>2, JobCameStays, HandlerAhead
  <2> QED
    BY <1>5, <2>2, <2>3 DEF Place
<1>6. CASE BookCommit(h)
  <2>1. End(h) \/ Goto(h, "uncertain")
    BY <1>6 DEF BookCommit
  <2>2. /\ req'[h].at \in {"idle", "uncertain"}
        /\ \A g \in Handlers : g # h => req'[g] = req[g]
    BY <1>1, <2>1, GotoIs, EndIs
  <2>3. UNCHANGED recorded
    BY <1>6 DEF BookCommit
  <2>4. CASE UNCHANGED job
    BY <2>2, <2>3, <2>4, QuietAhead DEF AboutNews
  <2>5. CASE ~ UNCHANGED job
    <3>1. /\ req[h].at = "commit" /\ job.status = "booking"
          /\ job' = [status |-> req[h].status, trip |-> req[h].trip, last |-> clock]
      BY <1>6, <2>5 DEF BookCommit
    <3>2. req[h].status = "assigning"
      BY <3>1 DEF AheadInv, SureTrip
    <3>3. JobCame'
      BY <3>1, <3>2 DEF JobCame, Ends, Stopped
    <3>4. SureNews(req[h])' /\ SureTrip(req[h])'
      BY <2>2, SureElsewhere DEF AboutNews
    <3> QED
      BY <1>1, <1>2, <1>3, <2>2, <2>3, <3>1, <3>3, <3>4, HandlerAhead
  <2> QED
    BY <2>4, <2>5
<1>7. CASE BookFail(h)
  <2>1. /\ req'[h].at = "idle"
        /\ \A g \in Handlers : g # h => req'[g] = req[g]
    BY <1>1, <1>7, EndIs DEF BookFail
  <2>2. /\ job'.trip = job.trip /\ job'.status \in {"uncertain", "failed"}
        /\ UNCHANGED recorded
    BY <1>1, <1>7 DEF BookFail, JobRow
  <2>3. JobCame'
    BY <2>2 DEF JobCame, Ends, Stopped
  <2>4. SureNews(req[h])' /\ SureTrip(req[h])'
    BY <2>1, SureElsewhere DEF AboutNews
  <2> QED
    BY <1>2, <2>1, <2>2, <2>3, <2>4, HandlerAhead
<1> QED
  BY <1>4, <1>5, <1>6, <1>7

\* A webhook or the answer to a refresh is looked up: it is news of the job's trip or of none.
LEMMA LookAhead ==
  ASSUME AheadInv, KnownInv', TripsAdvance, [Next]_vars, NEW h \in Handlers, NEW n \in News,
         Look(h, n), UNCHANGED <<job, recorded, trips>>, Came(n.status, trips[n.trip]),
         n.next # None => n \in news
  PROVE  AheadInv'
<1>1. req \in [Handlers -> Requests]
  BY AheadTypes DEF AheadInv, KnownInv, OneTripInv
<1>2. Sent' /\ news \subseteq news' /\ JobCame'
  BY SentStep, JobCameStays
<1>3. /\ req'[h].at = "record" /\ req'[h].news = n /\ req'[h].matched = (job.trip = n.trip)
      /\ \A g \in Handlers : g # h => req'[g] = req[g]
  BY <1>1, IdleFits DEF Look, Requests
<1>4. SureNews(req[h])'
  BY <1>2, <1>3 DEF SureNews, IsMatched, AboutNews
<1>5. SureTrip(req[h])'
  BY <1>3 DEF SureTrip
<1> QED
  BY <1>2, <1>3, <1>4, <1>5, HandlerAhead

LEMMA ReceiveAhead ==
  ASSUME AheadInv, KnownInv', TripsAdvance, [Next]_vars, NEW h \in Handlers,
         Receive(h) \/ RefreshStamp(h)
  PROVE  AheadInv'
<1>1. /\ TypeOK /\ news \subseteq News /\ clock \in Nat
      /\ req[h] \in Requests /\ Fits(req[h]) /\ SureTrip(req[h])
  BY AheadTypes DEF AheadInv, KnownInv, OneTripInv
<1>2. CASE Receive(h)
  <2>1. PICK n \in news : Look(h, n)
    BY <1>2 DEF Receive
  <2>2. n \in News /\ Came(n.status, trips[n.trip])
    BY <1>1 DEF AheadInv, Sent, TrueNews
  <2> QED
    BY <1>2, <2>1, <2>2, LookAhead DEF Receive, table, provider
<1>3. CASE RefreshStamp(h)
  <2>1. /\ req[h].at = "stamp" /\ req[h].trip \in Trips /\ req[h].status \in ReportedStatuses
        /\ Came(req[h].status, trips[req[h].trip])
    BY <1>1, <1>3 DEF RefreshStamp, Fits, AboutTrip, Requests, SureTrip
  <2>2. PICK now \in {clock, clock + 1} :
          Look(h, [trip |-> req[h].trip, status |-> req[h].status, at |-> now,
                   next |-> None, polled |-> TRUE])
    BY <1>3 DEF RefreshStamp
  <2>3. now \in Nat
    BY <1>1, <2>2
  <2>4. PICK n : n = [trip |-> req[h].trip, status |-> req[h].status, at |-> now,
                      next |-> None, polled |-> TRUE]
    OBVIOUS
  <2>5. n \in News /\ n.trip = req[h].trip /\ n.status = req[h].status /\ n.next = None
    BY <2>1, <2>3, <2>4 DEF News
  <2> QED
    BY <1>3, <2>1, <2>2, <2>4, <2>5, LookAhead DEF RefreshStamp, table
<1> QED
  BY <1>2, <1>3

\* The first request to record its event may go on to move the job to another trip.
LEMMA RecordAhead ==
  ASSUME AheadInv, KnownInv', TripsAdvance, [Next]_vars, NEW h \in Handlers, RecordNews(h)
  PROVE  AheadInv'
<1>1. /\ TypeOK /\ req \in [Handlers -> Requests]
      /\ \A g \in Handlers : SureNews(req[g])
      /\ req[h] \in Requests /\ Fits(req[h])
  BY AheadTypes DEF AheadInv, KnownInv, OneTripInv
<1>2. /\ req[h].at = "record" /\ recorded' = Kept(recorded, req[h].news)
      /\ UNCHANGED <<job, trips, news>>
  BY DEF RecordNews, provider
<1>3. Sent' /\ news \subseteq news' /\ JobCame' /\ recorded \subseteq recorded'
  BY <1>2, SentStep, JobCameStays DEF Kept
<1>4. CASE End(h)
  <2>1. req'[h].at = "idle" /\ \A g \in Handlers : g # h => req'[g] = req[g]
    BY <1>1, <1>4, EndIs
  <2>2. SureNews(req[h])' /\ SureTrip(req[h])'
    BY <2>1, SureElsewhere DEF AboutNews
  <2> QED
    BY <1>2, <1>3, <2>1, <2>2, HandlerAhead
<1>5. CASE ~ End(h)
  <2>1. PICK n \in News : n = req[h].news
    BY <1>1, <1>2 DEF Fits, AboutNews
  <2>2. /\ n \notin recorded /\ req[h].matched
        /\ req' = [req EXCEPT ![h] = [Idle EXCEPT !.news = n,
                     !.at = IF n.next # None THEN "replace" ELSE "apply"]]
    BY <1>5, <2>1 DEF RecordNews
  <2>3. PICK q : q = [Idle EXCEPT !.news = n, !.at = IF n.next # None THEN "replace" ELSE "apply"]
    OBVIOUS
  <2>4. q.news = n /\ q.at = IF n.next # None THEN "replace" ELSE "apply"
    BY <2>3, IdleFits DEF Requests
  <2>5. req'[h] = q /\ \A g \in Handlers : g # h => req'[g] = req[g]
    BY <1>1, <2>2, <2>3
  <2>6. /\ Came(n.status, trips[n.trip]) /\ (n.next # None => n \in news)
        /\ job.trip = n.trip \/ trips[n.trip] = "replaced"
        /\ n.next # None => job.trip = n.trip
    BY <1>1, <1>2, <2>1, <2>2 DEF SureNews, IsMatched, AboutNews
  <2>7. n.next # None => n \in recorded'
    BY <1>2, <2>1, <2>6 DEF Kept, AheadInv, Sent, TrueNews
  <2>8. SureNews(req[h])'
    BY <1>2, <2>4, <2>5, <2>6, <2>7 DEF SureNews, IsMatched, AboutNews
  <2>9. SureTrip(req[h])'
    BY <2>4, <2>5 DEF SureTrip
  <2>10. \A g \in Handlers : req[g].at = "replace" => req[g].news # n
    BY <1>1, <2>2 DEF SureNews
  <2> QED
    BY <1>2, <1>3, <2>4, <2>5, <2>8, <2>9, <2>10, HandlerAhead
<1> QED
  BY <1>4, <1>5

\* The job moves on from a trip that was replaced, and only one request moves it.
LEMMA ReplaceAhead ==
  ASSUME AheadInv, KnownInv', TripsAdvance, [Next]_vars, NEW h \in Handlers, ReplaceTrip(h)
  PROVE  AheadInv'
<1>1. /\ TypeOK /\ req \in [Handlers -> Requests] /\ job \in JobRow
      /\ \A g \in Handlers : SureNews(req[g]) /\ SureTrip(req[g]) /\ Traced(req[g]) /\ Fits(req[g])
  BY AheadTypes DEF AheadInv, KnownInv, OneTripInv
<1>2. PICK n \in News : n = req[h].news
  BY <1>1 DEF ReplaceTrip, Fits, AboutNews
<1>3. /\ req[h].at = "replace" /\ Goto(h, "apply") /\ UNCHANGED <<recorded, trips, news>>
      /\ job'.status = job.status
  BY <1>1 DEF ReplaceTrip, provider, JobRow
<1>4. /\ n.next # None /\ n \in news /\ n \in recorded /\ job.trip = n.trip
      /\ Came(n.status, trips[n.trip])
  BY <1>1, <1>2, <1>3 DEF SureNews, Traced, AboutNews
<1>5. trips[n.trip] = "replaced" /\ n.trip \in Trips
  BY <1>4 DEF AheadInv, Sent, TrueNews, News
<1>6. /\ req'[h].at = "apply" /\ req'[h].news = n
      /\ \A g \in Handlers : g # h => req'[g] = req[g]
  BY <1>1, <1>2, <1>3, GotoIs
<1>7. ASSUME NEW g \in Handlers, g # h
      PROVE  LeavesBehind(req[g])
  <2>1. ASSUME req[g].at \in AboutNews, req[g].news.next # None, req[g].news.trip = n.trip
        PROVE  req[g].news = n
    BY <1>1, <1>4, <2>1 DEF SureNews, AheadInv, Sent
  <2>2. req[g].at # "replace"
    <3> SUFFICES ASSUME req[g].at = "replace" PROVE FALSE
      OBVIOUS
    <3>1. req[g].news = n
      BY <1>1, <1>4, <2>1 DEF SureNews, Traced, AboutNews
    <3> QED
      BY <1>2, <1>3, <1>7, <3>1 DEF AheadInv, OneReplaces
  <2>3. req[g].at # "cancelled"
    BY <1>1, <1>4, <1>5 DEF SureTrip, Stopped
  <2>4. IsMatched(req[g]) => trips[req[g].news.trip] = "replaced"
    BY <1>1, <1>4, <1>5 DEF SureNews
  <2>5. req[g].at = "record" /\ req[g].matched /\ req[g].news.next # None => req[g].news \in recorded
    BY <1>1, <1>4, <2>1 DEF SureNews, AboutNews
  <2> QED
    BY <2>2, <2>3, <2>4, <2>5 DEF LeavesBehind
<1>8. Sent' /\ news \subseteq news'
  BY SentStep
<1>9. JobCame'
  BY <1>3, <1>4, <1>5 DEF JobCame, AheadInv, Came, Ends, Stopped
<1>10. SureNews(req[h])'
  BY <1>3, <1>4, <1>5, <1>6 DEF SureNews, IsMatched, AboutNews
<1>11. SureTrip(req[h])'
  BY <1>6 DEF SureTrip
<1> QED
  BY <1>3, <1>6, <1>7, <1>8, <1>9, <1>10, <1>11, HandlerAhead

\* News that end a trip, or have it picked up, are of the job's trip when they are applied.
LEMMA ApplyAhead ==
  ASSUME AheadInv, KnownInv', TripsAdvance, [Next]_vars, NEW h \in Handlers,
         ApplyNews(h) \/ CancelCommit(h)
  PROVE  AheadInv'
<1>1. /\ TypeOK /\ req \in [Handlers -> Requests] /\ job \in JobRow
      /\ SureNews(req[h]) /\ SureTrip(req[h]) /\ Traced(req[h])
  BY AheadTypes DEF AheadInv, KnownInv, OneTripInv
<1>2. End(h) /\ UNCHANGED <<recorded, trips, news>>
  BY DEF ApplyNews, CancelCommit, provider
<1>3. Sent' /\ news \subseteq news'
  BY SentStep
<1>4. req'[h].at = "idle" /\ \A g \in Handlers : g # h => req'[g] = req[g]
  BY <1>1, <1>2, EndIs
<1>5. SureNews(req[h])' /\ SureTrip(req[h])'
  BY <1>4, SureElsewhere DEF AboutNews
<1>6. job'.trip = job.trip /\ JobCame'
  <2>1. CASE ApplyNews(h)
    <3>1. /\ req[h].at = "apply" /\ job'.status = req[h].news.status /\ job'.trip = job.trip
      BY <1>1, <2>1 DEF ApplyNews, JobRow
    <3>2. /\ Came(req[h].news.status, trips[req[h].news.trip]) /\ job.trip # None
          /\ job.trip = req[h].news.trip \/ trips[req[h].news.trip] = "replaced"
      BY <1>1, <3>1 DEF SureNews, Traced, IsMatched, AboutNews
    <3> QED
      BY <1>2, <3>1, <3>2 DEF JobCame, Came, Ends, Stopped
  <2>2. CASE CancelCommit(h)
    <3>1. req[h].at = "cancelled" /\ job'.status = Stopped /\ job'.trip = job.trip
      BY <1>1, <2>2 DEF CancelCommit, JobRow
    <3>2. trips[job.trip] = Stopped /\ job.trip # None
      BY <1>1, <3>1 DEF SureTrip, Traced
    <3> QED
      BY <1>2, <3>1, <3>2 DEF JobCame, Came, Ends, Stopped
  <2> QED
    BY <2>1, <2>2
<1> QED
  BY <1>2, <1>3, <1>4, <1>5, <1>6, HandlerAhead

\* A refresh asks for the state of the job's trip; a cancellation ends that trip.
LEMMA AskAhead ==
  ASSUME AheadInv, KnownInv', TripsAdvance, [Next]_vars, NEW h \in Handlers,
         RefreshPoll(h) \/ CancelCall(h)
  PROVE  AheadInv'
<1>1. TypeOK /\ req \in [Handlers -> Requests] /\ job \in JobRow /\ trips \in [Trips -> TripStates]
  BY AheadTypes DEF AheadInv, KnownInv, OneTripInv
<1>2. UNCHANGED <<job, recorded>>
  BY DEF RefreshPoll, CancelCall, table
<1>3. Sent' /\ news \subseteq news' /\ JobCame'
  BY <1>2, SentStep, JobCameStays
<1>4. CASE RefreshPoll(h)
  <2>1. PICK status :
          /\ status = IF trips[job.trip] \in ReportedStatuses THEN trips[job.trip] ELSE "booked"
          /\ req' = [req EXCEPT ![h].at = "stamp", ![h].trip = job.trip, ![h].status = status]
    BY <1>4 DEF RefreshPoll
  <2>2. Came(status, trips[job.trip])
    BY <2>1 DEF Came, Stopped
  <2>3. /\ req'[h].at = "stamp" /\ req'[h].trip = job.trip /\ req'[h].status = status
        /\ \A g \in Handlers : g # h => req'[g] = req[g]
    BY <1>1, <2>1 DEF Requests
  <2>4. UNCHANGED trips
    BY <1>4 DEF RefreshPoll, provider
  <2>5. SureTrip(req[h])'
    BY <2>2, <2>3, <2>4 DEF SureTrip
  <2>6. SureNews(req[h])'
    BY <2>3 DEF SureNews, IsMatched, AboutNews
  <2> QED
    BY <1>2, <1>3, <2>3, <2>5, <2>6, HandlerAhead
<1>5. CASE CancelCall(h)
  <2>1. job.trip \in Trips /\ trips'[job.trip] = Stopped
    BY <1>1, <1>5 DEF CancelCall, JobRow, Report
  <2>2. CASE UNCHANGED req
    <3>1. SureNews(req[h])' /\ SureTrip(req[h])'
      BY <1>2, <1>3, <2>2, SureStays
    <3> QED
      BY <1>2, <1>3, <2>2, <3>1, HandlerAhead DEF AheadInv, OneReplaces
  <2>3. CASE Goto(h, "cancelled")
    <3>1. req'[h].at = "cancelled" /\ \A g \in Handlers : g # h => req'[g] = req[g]
      BY <1>1, <2>3, GotoIs
    <3>2. SureNews(req[h])' /\ SureTrip(req[h])'
      BY <1>2, <2>1, <3>1 DEF SureNews, SureTrip, IsMatched, AboutNews
    <3> QED
      BY <1>2, <1>3, <3>1, <3>2, HandlerAhead
  <2> QED
    BY <1>5, <2>2, <2>3 DEF CancelCall
<1> QED
  BY <1>4, <1>5

LEMMA AheadStep == AheadInv /\ [Next]_vars => AheadInv'
<1> SUFFICES ASSUME AheadInv, [Next]_vars
             PROVE  AheadInv'
  OBVIOUS
<1>1. KnownInv' /\ TripsAdvance
  BY KnownStep, TripsAdvanceStep DEF AheadInv, KnownInv, OneTripInv
<1>2. ASSUME UNCHANGED <<job, recorded, req>>
      PROVE  AheadInv'
  <2>1. Sent' /\ news \subseteq news' /\ JobCame'
    BY <1>1, <1>2, SentStep, JobCameStays
  <2>2. \A g \in Handlers : SureNews(req[g])' /\ SureTrip(req[g])'
    BY <1>1, <1>2, <2>1, SureStays
  <2>3. OneReplaces'
    BY <1>2 DEF AheadInv, OneReplaces
  <2> QED
    BY <1>1, <2>1, <2>2, <2>3 DEF AheadInv
<1>3. ASSUME NEW h \in Handlers,
             \/ Booking(h) \/ Dispatching(h) \/ Listening(h) \/ Refreshing(h) \/ Cancelling(h)
             \/ Abort(h)
      PROVE  AheadInv'
  BY <1>1, <1>3, DispatchAhead, BookAhead, ReceiveAhead, RecordAhead, ReplaceAhead, ApplyAhead, AskAhead
     DEF Booking, Listening, Refreshing, Cancelling
<1>4. CASE \/ \E s \in Shippers : Assign(s) \/ ConfirmRoute(s)
           \/ \E t \in Trips : Travel(t) \/ \E u \in Trips \ {t} : Replace(t, u)
  BY <1>2, <1>4 DEF Assign, ConfirmRoute, GiveTo, Travel, Replace, table
<1>5. CASE UNCHANGED vars
  BY <1>2, <1>5 DEF vars
<1> QED
  BY <1>3, <1>4, <1>5 DEF Next

\* Whatever webhooks, refreshes and cancellations overtake each other and whichever trip
\* takes over: the job says of its trip only what has come true of it.
THEOREM JobNotAheadOfTripHolds == Spec => []JobNotAheadOfTrip
<1>1. Init => AheadInv
  <2> SUFFICES ASSUME Init
               PROVE  AheadInv
    OBVIOUS
  <2>1. KnownInv
    BY InitKnown
  <2>2. \A h \in Handlers : req[h].at = "idle"
    BY IdleFits DEF Init
  <2>3. \A h \in Handlers : SureNews(req[h]) /\ SureTrip(req[h])
    BY <2>2 DEF SureNews, SureTrip, IsMatched, AboutNews
  <2>4. Sent /\ OneReplaces
    BY <2>2 DEF Init, Sent, OneReplaces
  <2>5. JobCame
    BY DEF Init, JobCame, Ends, Stopped
  <2> QED
    BY <2>1, <2>3, <2>4, <2>5 DEF AheadInv
<1>2. AheadInv => JobNotAheadOfTrip
  BY DEF AheadInv, JobCame, JobNotAheadOfTrip, Came, Ends, Stopped
<1> QED
  BY <1>1, <1>2, AheadStep, PTL DEF Spec
=============================================================================
