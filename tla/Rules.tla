------------------------------- MODULE Rules --------------------------------
(***************************************************************************)
(* Rules of the code that compute and keep nothing: when a site is open, how  *)
(* the price of an order is shared, how a bank statement is matched with the  *)
(* payments, who sees an order.  A behaviour is one call: its input in Init,   *)
(* then its answer.                                                           *)
(***************************************************************************)
EXTENDS Integers, Sequences, FiniteSets, FiniteSetsExt, PortalScope

CONSTANTS
  WeekDays, DayMinutes, \* 7 and 1440 in the code
  DayPlans,      \* the lists of intervals of a day of openingHours
  Retail,        \* retailBps
  Amounts, MaxLines \* amounts of money; lines and payments of a day

Logic == INSTANCE OrderLogic

VARIABLES input, answer
vars == <<input, answer>>

-----------------------------------------------------------------------------
(* Hours: a list of intervals for some days; one that ends before it starts  *)
(* runs into the next day.                                                    *)
Days == 0..(WeekDays - 1)
Week == WeekDays * DayMinutes
OpeningHours == UNION {[d -> DayPlans] : d \in SUBSET Days}
Plan(hours, d) == IF d \in DOMAIN hours THEN hours[d] ELSE <<>>

isInIntervals(minutes, plan) ==
  \E i \in DOMAIN plan :
    LET s == plan[i][1] e == plan[i][2] IN
    minutes >= s /\ (s < e => minutes < e)

Spill(hours, at) ==
  LET before == Plan(hours, ((at \div DayMinutes) + WeekDays - 1) % WeekDays) IN
  \E i \in DOMAIN before : before[i][1] > before[i][2] /\ at % DayMinutes < before[i][2]

scheduleAllows(hours, at) ==
  \/ DOMAIN hours = {}
  \/ isInIntervals(at % DayMinutes, Plan(hours, (at \div DayMinutes) % WeekDays))
  \/ Spill(hours, at)

(* The first listed start after "at", on this day and the WeekDays after it. *)
Starts(hours, at, offset) ==
  LET day == (at \div DayMinutes) + offset
      plan == Plan(hours, day % WeekDays)
      start(i) == day * DayMinutes + plan[i][1]
      later == {i \in DOMAIN plan : start(i) > at}
  IN IF later = {} THEN {} ELSE {start(Min(later))}

Offsets_OneWeek == 0..(WeekDays - 1)
Offsets == 0..WeekDays

nextScheduledOpening(hours, at) ==
  LET found == UNION {Starts(hours, at, offset) : offset \in Offsets} IN
  IF found = {} THEN None ELSE Min(found)

evaluateSiteAvailability(hours, at) ==
  [open |-> scheduleAllows(hours, at),
   reopens |-> IF scheduleAllows(hours, at) THEN None ELSE nextScheduledOpening(hours, at)]

-----------------------------------------------------------------------------
(* Price policies, as validatePricePolicy lets them in. *)
Policies ==
  {p \in [workshop : 0..Retail, landed : 0..Retail, pool : 0..Retail, affiliate : 0..Retail] :
     p.workshop <= p.landed /\ p.landed + p.pool = Retail}

(* Math.round *)
Share(gross, bps) == (2 * gross * bps + Retail) \div (2 * Retail)
AtLeastZero(n) == IF n > 0 THEN n ELSE 0

calculateAllocation(gross, p) ==
  [workshopCost |-> Share(gross, p.workshop),
   landedPartner |-> Share(gross, p.landed),
   partnerLogistics |-> AtLeastZero(Share(gross, p.landed) - Share(gross, p.workshop)),
   channelPool |-> Share(gross, p.pool),
   affiliateCommission |-> Share(gross, p.affiliate),
   channelContribution |-> AtLeastZero(Share(gross, p.pool) - Share(gross, p.affiliate))]

-----------------------------------------------------------------------------
(* bank.reconcile.import: the payments of the account and day in order, the   *)
(* lines of the statement one after the other, each takes a payment not used: *)
(* the one it refers to, or the first of its amount and payment code.         *)
Code == "code"
Payment == [amount : Amounts, code : {None, Code}]
Line == [refers : 1..MaxLines \cup {None}, amount : Amounts, code : {None, Code}, content : {None, Code}]

Exact_Again(line, payments, used) == {t \in DOMAIN payments : t = line.refers}
Exact(line, payments, used) == {t \in DOMAIN payments : t = line.refers /\ t \notin used}

KnownCode(line, payments) ==
  IF line.code # None THEN line.code
  ELSE IF \E t \in DOMAIN payments : payments[t].code # None /\ payments[t].code = line.content
         THEN line.content ELSE None

Alike(line, payments, used) ==
  LET code == KnownCode(line, payments) IN
  {t \in DOMAIN payments :
     /\ t \notin used /\ payments[t].amount = line.amount
     /\ code # None /\ payments[t].code = code /\ line.content = code}

Taken(line, payments, used) ==
  LET exact == Exact(line, payments, used) alike == Alike(line, payments, used) IN
  IF exact # {} THEN Min(exact) ELSE IF alike # {} THEN Min(alike) ELSE None

(* What each of the first n lines takes. *)
Matching(lines, payments) ==
  LET takes[n \in 0..Len(lines)] ==
        IF n = 0 THEN <<>>
        ELSE Append(takes[n - 1],
                    Taken(lines[n], payments, {takes[n - 1][i] : i \in 1..(n - 1)}))
  IN takes[Len(lines)]

reconcile(lines, payments) ==
  LET takes == Matching(lines, payments)
      matched == {i \in DOMAIN lines : takes[i] # None /\ payments[takes[i]].amount = lines[i].amount}
      odd == DOMAIN lines \ matched
      systemOnly == DOMAIN payments \ {takes[i] : i \in DOMAIN lines}
  IN [matchedCount |-> Cardinality(matched),
      unmatchedCount |-> Cardinality(odd) + Cardinality(systemOnly),
      unmatchedAmount |-> MapThenSumSet(LAMBDA i : lines[i].amount, odd)
                            + MapThenSumSet(LAMBDA t : payments[t].amount, systemOnly)]

-----------------------------------------------------------------------------
Scope(role, o) ==
  [listed |-> addOrderScope(role, o), commanded |-> orderIsInPortalScope(role, o),
   item |-> itemIsInPortalScope(role, o)]

EntityScope(role, e) ==
  [listed |-> addEntityScope(role, e), commanded |-> entityIsInPortalScope(role, e)]

Reads(role) ==
  [lists |-> maskOrder(role) \cup listScopedStaff(role) \cup listScopedFinanceLedger(role),
   snapshot |-> presentSnapshot(role, financeRecords(role))]

(* The moves the page offers for an order its list shows, and those of them   *)
(* order.advance then refuses the role. *)
Buttons(role, o, ftype, pay) ==
  LET moves == IF addOrderScope(role, o) THEN offered(role, o.orderStatus) ELSE {} IN
  [offered |-> moves,
   refused |-> {to \in moves :
      ~ /\ role \in Logic!AdvanceRoles /\ orderIsInPortalScope(role, o)
        /\ Logic!assertOrderTransition(role, o.orderStatus, to, ftype, pay)}]

UpTo(n, S) == UNION {[1..k -> S] : k \in 0..n}

Init ==
  /\ \/ \E h \in OpeningHours, t \in 0..(Week - 1) : input = [rule |-> "hours", hours |-> h, at |-> t]
     \/ \E g \in Amounts, p \in Policies : input = [rule |-> "price", gross |-> g, policy |-> p]
     \/ \E r \in Roles, o \in OperationOrder : input = [rule |-> "scope", role |-> r, order |-> o]
     \/ \E r \in Roles, e \in Entity : input = [rule |-> "entity", role |-> r, entity |-> e]
     \/ \E r \in Roles : input = [rule |-> "reads", role |-> r]
     \/ \E r \in DOMAIN canonicalRoleFace, o \in OperationOrder,
            f \in Logic!FulfillmentTypes, p \in {"pending", "paid"} :
          input = [rule |-> "button", role |-> r, order |-> o, ftype |-> f, pay |-> p]
     \/ \E ls \in UpTo(MaxLines, Line) \ {<<>>}, ps \in UpTo(MaxLines, Payment) :
          input = [rule |-> "statement", lines |-> ls, payments |-> ps]
  /\ answer = None

Answer ==
  /\ answer = None
  /\ answer' = CASE input.rule = "hours" -> evaluateSiteAvailability(input.hours, input.at)
                 [] input.rule = "price" -> calculateAllocation(input.gross, input.policy)
                 [] input.rule = "scope" -> Scope(input.role, input.order)
                 [] input.rule = "entity" -> EntityScope(input.role, input.entity)
                 [] input.rule = "reads" -> Reads(input.role)
                 [] input.rule = "button" -> Buttons(input.role, input.order, input.ftype, input.pay)
                 [] OTHER -> reconcile(input.lines, input.payments)
  /\ UNCHANGED input

Next == Answer
Spec == Init /\ [][Next]_vars

-----------------------------------------------------------------------------
TypeOK == input.rule \in {"hours", "price", "scope", "entity", "reads", "button", "statement"}

Answered(rule) == answer # None /\ input.rule = rule

(* The minutes of this week and the next that the intervals cover.            *)
OpenMinutes(hours) ==
  UNION {LET plan == Plan(hours, x[1])[x[3]] base == x[1] * DayMinutes + x[2] * Week IN
         (base + plan[1])..
           (base + plan[2] + (IF plan[1] < plan[2] THEN 0 ELSE DayMinutes) - 1) :
         x \in {y \in Days \X (-1..1) \X (1..2) : y[3] \in DOMAIN Plan(hours, y[1])}}

(* A site is open in exactly the minutes its intervals cover, those past      *)
(* midnight and past the end of the week with them; when it is closed and any *)
(* interval exists, the customer is told the first minute it opens again.     *)
HoursAgree ==
  Answered("hours") =>
    LET open == OpenMinutes(input.hours) IN
    /\ answer.open <=> (DOMAIN input.hours = {} \/ input.at \in open)
    /\ ~answer.open =>
         answer.reopens = (IF open = {} THEN None ELSE Min({t \in open : t > input.at}))

(* The parts of a price add up to the price but for one unit of rounding, and *)
(* the ledger of an order never pays out of the pool more than the pool or    *)
(* the commission, whichever is larger.                                       *)
SharesAddUp ==
  Answered("price") =>
    /\ answer.landedPartner + answer.channelPool - input.gross \in 0..1
    /\ answer.workshopCost + answer.partnerLogistics = answer.landedPartner
    /\ answer.affiliateCommission + answer.channelContribution
         = Max({answer.channelPool, answer.affiliateCommission})

(* A statement is balanced only when each line has a payment of its own and of *)
(* its amount and no payment is left over: then the totals agree.             *)
StatementBalances ==
  Answered("statement") =>
    LET lines == input.lines payments == input.payments IN
    answer.unmatchedCount = 0 =>
      /\ Len(lines) = Len(payments) /\ answer.unmatchedAmount = 0
      /\ MapThenSumSet(LAMBDA i : lines[i].amount, DOMAIN lines)
           = MapThenSumSet(LAMBDA t : payments[t].amount, DOMAIN payments)

(* A role may work on exactly the orders its lists show it, and on no item of  *)
(* an order they do not; the same for sites, stock, members, partners, alerts. *)
ScopesAgree ==
  /\ Answered("scope") => /\ answer.listed <=> answer.commanded
                          /\ answer.item => answer.listed
  /\ Answered("entity") => (answer.listed <=> answer.commanded)

(* What the lists keep from a role the snapshot of the portal page does not    *)
(* show it either: personal data of orders and staff, the ledger.             *)
MasksAgree ==
  Answered("reads") =>
    \A x \in OrderPii \cup {"member phone", "ledger"} : x \in answer.snapshot => x \in answer.lists

(* What the page offers the server takes: no button of an order on the list   *)
(* leads to a refusal of the role or of the step.                             *)
OfferedIsAllowed == Answered("button") => answer.refused = {}

=============================================================================
