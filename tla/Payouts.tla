------------------------------ MODULE Payouts -------------------------------
(***************************************************************************)
(* Commissions of referrers (order_referrals) from the order to the bank    *)
(* transfer: the job that earns and voids them, the batches that pay them.   *)
(* Database batches are transactions and steps.                              *)
(***************************************************************************)
EXTENDS Integers, FiniteSets, FiniteSetsExt

CONSTANTS
  MaxRequests, \* commands and jobs in a behaviour
  MaxOpen,     \* the ones under way at a time
  Referrals,   \* orders that were referred
  Recipients,  \* referrers
  Commissions, \* amounts of a commission, in VND
  None

(* Bounds: MaxRequests, MaxOpen. *)
Requests == 1..MaxRequests

VARIABLES
  orders,    \* state of the order of each referral
  referrals, \* order_referrals: a function from the rows recorded so far
  batches,   \* payout_batches: a function from the request that made it
  items,     \* payout_items
  request    \* what each request has read
vars == <<orders, referrals, batches, items, request>>

(* "quiet": delivered, and not updated for the length of the dispute window. *)
OrderStates == {"open", "delivered", "quiet", "cancelled", "refunded"}
ReferralRow == [status : {"pending", "earned", "paid", "void"},
                payee : Recipients, amount : Commissions]
ItemRow == [batch : Requests, referral : Referrals, payee : Recipients, gross : Nat,
            tax : Nat, amount : Nat, paid : BOOLEAN, reference : Requests \cup {None}]

Idle == [at |-> "idle"]
Done == [at |-> "done"]
Pending ==
  {Idle, Done, [at |-> "earn"]} \cup
  [at : {"create"}, rows : SUBSET Referrals] \cup [at : {"mark"}, batch : Requests]

Init ==
  /\ orders = [r \in Referrals |-> "open"]
  /\ referrals = <<>> /\ batches = <<>> /\ items = {}
  /\ request = [c \in Requests |-> Idle]

-----------------------------------------------------------------------------
Then(c, what) == request' = [request EXCEPT ![c] = what]
Begin(c, what) ==
  /\ request[c] = Idle
  /\ \A d \in 1..(c - 1) : request[d] # Idle
  /\ Cardinality({d \in Requests : request[d] \notin {Idle, Done}}) < MaxOpen
  /\ Then(c, what)

TaxThreshold == 2000000   \* TAX_WITHHOLDING_THRESHOLD_VND
TaxRate == 1000           \* TAX_WITHHOLDING_RATE_BPS
taxWithheldFor(gross) ==
  IF gross < TaxThreshold THEN 0 ELSE (gross * TaxRate) \div 10000

ItemsOf(b) == {i \in items : i.batch = b}

-----------------------------------------------------------------------------
(* recordReferral, after the order was committed: on conflict of order and  *)
(* type do nothing.                                                         *)
Record(r) ==
  /\ r \notin DOMAIN referrals
  /\ \E p \in Recipients, n \in Commissions :
       referrals' = [x \in DOMAIN referrals \cup {r} |->
         IF x = r THEN [status |-> "pending", payee |-> p, amount |-> n] ELSE referrals[x]]
  /\ UNCHANGED <<orders, batches, items, request>>

OrderMoves == {<<"open", "delivered">>, <<"open", "cancelled">>, <<"delivered", "quiet">>,
               <<"delivered", "refunded">>, <<"quiet", "refunded">>}
MoveOrder(r) ==
  /\ \E s \in OrderStates : <<orders[r], s>> \in OrderMoves /\ orders' = [orders EXCEPT ![r] = s]
  /\ UNCHANGED <<referrals, batches, items, request>>

(* Bugs: a paid commission is voided too; the order's state is not read     *)
(* again by the second statement.                                           *)
Voidable_Paid == {"pending", "earned", "paid"}

Voidable == {"pending", "earned"}

SetStatus(rows, s) ==
  referrals' = [r \in DOMAIN referrals |->
    IF r \in rows THEN [referrals[r] EXCEPT !.status = s] ELSE referrals[r]]

(* syncReferralStatuses: two statements, each a transaction of its own. *)
SyncVoid(c) ==
  /\ Begin(c, [at |-> "earn"])
  /\ SetStatus({r \in DOMAIN referrals : /\ referrals[r].status \in Voidable
                                         /\ orders[r] \in {"cancelled", "refunded"}}, "void")
  /\ UNCHANGED <<orders, batches, items>>

Earns_Delivered(r) == referrals[r].status = "pending" /\ orders[r] \in {"delivered", "quiet"}

Earns(r) == referrals[r].status = "pending" /\ orders[r] = "quiet"

SyncEarn(c) ==
  /\ request[c].at = "earn"
  /\ SetStatus({r \in DOMAIN referrals : Earns(r)}, "earned")
  /\ Then(c, Done)
  /\ UNCHANGED <<orders, batches, items>>

-----------------------------------------------------------------------------
(* createPayoutBatch: what is earned and in no other batch. *)
CreateRead(c) ==
  LET rows == {r \in DOMAIN referrals : /\ referrals[r].status = "earned"
                                        /\ \A i \in items : i.referral # r} IN
  /\ rows # {}
  /\ Begin(c, [at |-> "create", rows |-> rows])
  /\ UNCHANGED <<orders, referrals, batches, items>>

Gross(rows, p) ==
  MapThenSumSet(LAMBDA r : referrals[r].amount, {r \in rows : referrals[r].payee = p})
Net(rows, p) == Gross(rows, p) - taxWithheldFor(Gross(rows, p))

(* One line per commission; the first of a recipient carries his whole net  *)
(* amount and tax, the others their own commission.                         *)
NewItems(c, rows) ==
  UNION {LET own == {r \in rows : referrals[r].payee = p}
             first == CHOOSE r \in own : TRUE
         IN {[batch |-> c, referral |-> r, payee |-> p, gross |-> referrals[r].amount,
              tax |-> IF r = first THEN taxWithheldFor(Gross(rows, p)) ELSE 0,
              amount |-> IF r = first THEN Net(rows, p) ELSE referrals[r].amount,
              paid |-> FALSE, reference |-> None] : r \in own}
         : p \in {referrals[r].payee : r \in rows}}

(* A bug: there is no unique index on the commission. *)
ItemsFit_NoIndex(rows) == TRUE

(* payout_items_referral_unique_idx *)
ItemsFit(rows) == \A i \in items : i.referral \notin rows

CreateBatch(c) ==
  /\ request[c].at = "create"
  /\ LET rows == request[c].rows
         payees == {referrals[r].payee : r \in rows} IN
     IF ItemsFit(rows)
     THEN /\ items' = items \cup NewItems(c, rows)
          /\ batches' = [b \in DOMAIN batches \cup {c} |->
               IF b = c THEN [status |-> "draft",
                              total |-> MapThenSumSet(LAMBDA p : Net(rows, p), payees),
                              tax |-> MapThenSumSet(LAMBDA p : taxWithheldFor(Gross(rows, p)), payees)]
               ELSE batches[b]]
     ELSE UNCHANGED <<items, batches>>
  /\ Then(c, Done)
  /\ UNCHANGED <<orders, referrals>>

(* markPayoutBatchPaid: only the UPDATE of the batch asks for its status.   *)
MarkRead(c) ==
  /\ \E b \in DOMAIN batches : batches[b].status # "paid" /\ Begin(c, [at |-> "mark", batch |-> b])
  /\ UNCHANGED <<orders, referrals, batches, items>>

MarkBatch(c) ==
  /\ request[c].at = "mark"
  /\ LET b == request[c].batch IN
     /\ batches' = [batches EXCEPT ![b].status = "paid"]
     /\ items' = {IF i.batch = b THEN [i EXCEPT !.paid = TRUE, !.reference = c] ELSE i : i \in items}
     /\ SetStatus({r \in DOMAIN referrals : /\ referrals[r].status = "earned"
                                            /\ \E i \in ItemsOf(b) : i.referral = r}, "paid")
  /\ Then(c, Done)
  /\ UNCHANGED orders

-----------------------------------------------------------------------------
Next ==
  \/ \E r \in Referrals : Record(r) \/ MoveOrder(r)
  \/ \E c \in Requests : \/ SyncVoid(c) \/ SyncEarn(c)
                         \/ CreateRead(c) \/ CreateBatch(c) \/ MarkRead(c) \/ MarkBatch(c)

Spec == Init /\ [][Next]_vars

-----------------------------------------------------------------------------
TypeOK ==
  /\ orders \in [Referrals -> OrderStates]
  /\ DOMAIN referrals \subseteq Referrals
  /\ \A r \in DOMAIN referrals : referrals[r] \in ReferralRow
  /\ DOMAIN batches \subseteq Requests
  /\ \A b \in DOMAIN batches :
       batches[b] \in [status : {"draft", "paid"}, total : Nat, tax : Nat]
  /\ items \subseteq ItemRow
  /\ request \in [Requests -> Pending]

(* A commission is in one batch at most, although two batches may be built  *)
(* from the same reading.                                                   *)
BatchedOnce == \A i, j \in items : i.referral = j.referral => i = j

(* A paid commission stays paid, whatever becomes of the order, and it left *)
(* with a batch; a commission earns only after the dispute window.          *)
PaidIsFinal ==
  \A r \in DOMAIN referrals : referrals[r].status = "paid" =>
    /\ referrals'[r] = referrals[r]
    /\ \E i \in items : i.referral = r /\ i.paid

(* Money never leaves for a commission whose order was still open to        *)
(* dispute: what is earned or paid had been delivered and quiet.            *)
EarnedAfterDispute ==
  \A r \in DOMAIN referrals :
    referrals[r].status \in {"earned", "paid"} => orders[r] \in {"quiet", "refunded"}

=============================================================================
