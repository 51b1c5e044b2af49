------------------------------- MODULE Portal -------------------------------
(***************************************************************************)
(* What one session of the portal reads while the orders change: a list it    *)
(* walks page by page with a cursor, and the stream of events of a connection *)
(* that polls on a timer.  A row is stamped when its request starts and seen  *)
(* when its transaction commits: later, and in another order.                 *)
(***************************************************************************)
EXTENDS Integers, Sequences, FiniteSets, PortalScope

CONSTANTS
  Ids,         \* ids of orders; the event of an order has its id here
  Reach,       \* the statuses orders move through, in order
  Limit, Batch, \* rows of a page, events of a poll
  MaxTime, MaxPolls \* bounds: the clock, polls under way

VARIABLES
  role,   \* of the session
  orders, \* operation_orders with their events (operation_event_log)
  walk,   \* the list the session walks, its cursor
  stream, \* the connection's cursor, the polls under way, what was sent
  now
vars == <<role, orders, walk, stream, now>>

Key == [at : 0..MaxTime, id : Ids]
Cursor == Key \cup {None}
Row == [at : 0..MaxTime, committed : BOOLEAN, status : {Reach[i] : i \in DOMAIN Reach}]

(* ORDER BY created_at, id *)
Before(a, b) == a.at < b.at \/ (a.at = b.at /\ a.id < b.id)
KeyOf(o) == [at |-> orders[o].at, id |-> o]

SeesRow(row) ==
  addOrderScope(role, [orderStatus |-> row.status, channel |-> "website",
                       siteId |-> CHOOSE s \in OwnSites : TRUE, assignedShipperId |-> None])
Live == {o \in Ids : orders[o] # None /\ orders[o].committed}
Visible == {o \in Live : SeesRow(orders[o])}

Init ==
  /\ role \in {"owner", "kitchen"}
  /\ orders = [o \in Ids |-> None]
  /\ walk = [cursor |-> None, seen |-> [o \in Ids |-> 0], held |-> {}, at |-> "idle"]
  /\ stream = [cursor |-> None, polls |-> {}, sent |-> {}, late |-> {}, at |-> "closed"]
  /\ now = 0

-----------------------------------------------------------------------------
(* The keys the stream has passed or is about to pass. *)
Passed(k) ==
  \E c \in {stream.cursor} \cup {p.last : p \in stream.polls} : c # None /\ ~Before(c, k)

(* A row comes into sight when the stream may already be past it. *)
Appear(o) ==
  IF stream.at = "open" /\ Passed(KeyOf(o)) /\ o \notin Visible
    THEN [stream EXCEPT !.late = @ \cup {o}] ELSE stream

Record(o) ==
  /\ orders[o] = None
  /\ orders' = [orders EXCEPT ![o] = [at |-> now, committed |-> FALSE, status |-> Reach[1]]]
  /\ UNCHANGED <<role, walk, stream, now>>

Commit(o) ==
  /\ orders[o] # None /\ ~orders[o].committed
  /\ orders' = [orders EXCEPT ![o].committed = TRUE]
  /\ stream' = Appear(o)
  /\ UNCHANGED <<role, walk, now>>

MoveOrder(o) ==
  /\ o \in Live
  /\ \E i \in 1..(Len(Reach) - 1) :
       /\ orders[o].status = Reach[i]
       /\ orders' = [orders EXCEPT ![o].status = Reach[i + 1]]
  /\ stream' = Appear(o)
  /\ walk' = IF SeesRow(orders'[o]) THEN walk ELSE [walk EXCEPT !.held = @ \ {o}]
  /\ UNCHANGED <<role, now>>

Tick == now < MaxTime /\ now' = now + 1 /\ UNCHANGED <<role, orders, walk, stream>>

-----------------------------------------------------------------------------
(* LIMIT n: the rows a query returns, all there are or n of them. *)
Limited(n, rows, page) ==
  page \subseteq rows /\ IF Cardinality(rows) <= n THEN page = rows ELSE Cardinality(page) = n

(* "held": what was in sight when the walk began and has been ever since; "seen": how *)
(* often the pages so far list an order.                                             *)
StartWalk ==
  /\ walk.at = "idle"
  /\ walk' = [cursor |-> None, seen |-> [o \in Ids |-> 0], held |-> Visible, at |-> "walking"]
  /\ UNCHANGED <<role, orders, stream, now>>

(* (created_at < ? OR (created_at = ? AND id < ?)), newest first. *)
Beyond_Time(c, k) == c = None \/ k.at < c.at
Beyond(c, k) == c = None \/ Before(k, c)

ReadPage ==
  LET rows == {o \in Visible : Beyond(walk.cursor, KeyOf(o))} IN
  /\ walk.at = "walking"
  /\ \E page \in SUBSET rows :
       /\ Limited(Limit, rows, page)
       /\ \A o \in page, u \in rows \ page : Before(KeyOf(u), KeyOf(o))
       /\ \E cursor \in {None} \cup {KeyOf(o) : o \in page} :
            /\ cursor = None <=> page = rows
            /\ cursor # None => \A o \in page : ~Before(KeyOf(o), cursor)
            /\ walk' = [walk EXCEPT !.cursor = cursor,
                          !.seen = [o \in Ids |-> IF o \in page THEN @[o] + 1 ELSE @[o]],
                          !.at = IF cursor = None THEN "done" ELSE "walking"]
  /\ UNCHANGED <<role, orders, stream, now>>

-----------------------------------------------------------------------------
(* latestScopedStreamCursor: the stream starts after the newest event. *)
Connect ==
  /\ stream.at = "closed"
  /\ stream' = [stream EXCEPT
       !.at = "open", !.late = Live,
       !.cursor = IF Visible = {} THEN None
                  ELSE CHOOSE k \in {KeyOf(o) : o \in Visible} : \A o \in Visible : ~Before(k, KeyOf(o))]
  /\ UNCHANGED <<role, orders, walk, now>>

(* The timer does not wait for the poll before: two may be under way. *)
Poll ==
  LET rows == {o \in Visible : stream.cursor = None \/ Before(stream.cursor, KeyOf(o))} IN
  /\ stream.at = "open" /\ Cardinality(stream.polls) < MaxPolls
  /\ \E ids \in SUBSET rows, last \in rows :
       /\ Limited(Batch, rows, ids)
       /\ \A o \in ids, u \in rows \ ids : Before(KeyOf(o), KeyOf(u))
       /\ last \in ids /\ \A o \in ids : ~Before(KeyOf(last), KeyOf(o))
       /\ stream' = [stream EXCEPT !.polls = @ \cup {[ids |-> ids, last |-> KeyOf(last)]}]
  /\ UNCHANGED <<role, orders, walk, now>>

NextCursor_Newest(batch) ==
  CHOOSE k \in {KeyOf(o) : o \in Visible} \cup {batch.last} : \A o \in Visible : ~Before(k, KeyOf(o))
NextCursor(batch) == batch.last

Send(batch) ==
  /\ stream' = [stream EXCEPT !.polls = @ \ {batch}, !.sent = @ \cup batch.ids,
                              !.cursor = NextCursor(batch)]
  /\ UNCHANGED <<role, orders, walk, now>>

Next ==
  \/ \E o \in Ids : Record(o) \/ Commit(o) \/ MoveOrder(o)
  \/ Tick \/ StartWalk \/ ReadPage \/ Connect \/ Poll
  \/ \E batch \in stream.polls : Send(batch)

Spec == Init /\ [][Next]_vars

-----------------------------------------------------------------------------
TypeOK ==
  /\ orders \in [Ids -> Row \cup {None}]
  /\ walk.cursor \in Cursor /\ stream.cursor \in Cursor
  /\ walk.held \subseteq Ids /\ stream.sent \subseteq Ids

(* A walk through the pages of a list lists no row twice, and at its end has   *)
(* listed every row that was in sight all along, orders placed, moved and     *)
(* committed late between two pages notwithstanding.                          *)
PagesListOnce ==
  /\ \A o \in Ids : walk.seen[o] <= 1
  /\ walk.at = "done" => \A o \in walk.held : walk.seen[o] = 1

(* The stream skips no event on its way: what its cursor has passed was sent,  *)
(* whatever polls overlapped, unless it came into sight behind the cursor.    *)
StreamSkipsNone ==
  stream.at = "open" =>
    \A o \in Visible :
      stream.cursor # None /\ ~Before(stream.cursor, KeyOf(o)) => o \in stream.sent \cup stream.late

=============================================================================
