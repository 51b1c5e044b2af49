------------------------------ MODULE Accounts ------------------------------
(***************************************************************************)
(* Accounts and their sessions in the shared user tables: the first owner,    *)
(* sign-in, reading a session on each request, changing and resetting a       *)
(* password, suspending, and the counter that paces requests.  A request is a *)
(* sequence of statements of one of several server processes.                 *)
(***************************************************************************)
EXTENDS Integers, FiniteSets, FiniteSetsExt

CONSTANTS
  MaxRequests, MaxOpen, \* requests in a behaviour, under way at a time
  Owner,     \* BOOTSTRAP_OWNER_PHONE
  Staff,     \* phones of the other accounts
  MaxSecret, \* passwords an account may have had
  MaxTime, Window, Limit, \* ticks; the counter's window and limit
  None

(* Bounds: MaxRequests, MaxOpen, MaxSecret, MaxTime. *)
Requests == 1..MaxRequests
Times == 0..MaxTime

VARIABLES
  users,    \* users: every row ever inserted
  sessions, \* user_sessions: a function from the requests that opened them
  bucket,   \* rate_limit_buckets: one row, or none
  admitted, \* requests let through at each time
  now,
  request   \* what each request has read
vars == <<users, sessions, bucket, admitted, now, request>>

User == [phone : {Owner} \cup Staff, by : Requests, status : {"active", "suspended"},
         secret : 1..MaxSecret, must : BOOLEAN]
Session == [user : Requests, live : BOOLEAN]
Bucket == [requests : 1..MaxRequests, ends : 0..(MaxTime + Window)]

Idle == [at |-> "idle"]
Done == [at |-> "done"]
Pending ==
  {Idle, Done} \cup
  [at : {"create"}, phone : {Owner} \cup Staff] \cup
  [at : {"issue", "open", "answer", "must", "revoke"}, user : Requests, keep : Requests \cup {None}] \cup
  [at : {"secret"}, user : Requests, keep : Requests \cup {None}, reset : BOOLEAN] \cup
  [at : {"count"}, now : Times]

Init ==
  /\ users = {} /\ sessions = <<>> /\ bucket = None /\ now = 0
  /\ admitted = [t \in Times |-> 0]
  /\ request = [c \in Requests |-> Idle]

-----------------------------------------------------------------------------
Then(c, what) == request' = [request EXCEPT ![c] = what]
Begin(c, what) ==
  /\ request[c] = Idle
  /\ \A d \in 1..(c - 1) : request[d] # Idle
  /\ Cardinality({d \in Requests : request[d] \notin {Idle, Done}}) < MaxOpen
  /\ Then(c, what)

User_(id) == CHOOSE u \in users : u.by = id
Active(id) == User_(id).status = "active"
Change(id, row) == (users \ {User_(id)}) \cup {row}

(* bootstrapOwnerAccount counts the users before it creates the owner;       *)
(* POST /api/auth/users looks for the phone.  The index on the phone lets     *)
(* one row in. *)
CreateRead(c) ==
  /\ \E p \in {Owner} \cup Staff :
       /\ p = Owner => users = {}
       /\ p # Owner => users # {} /\ \A u \in users : u.phone # p
       /\ Begin(c, [at |-> "create", phone |-> p])
  /\ UNCHANGED <<users, sessions, bucket, admitted, now>>

Free_Any(p) == TRUE
Free(p) == \A u \in users : u.phone # p

Create(c) ==
  LET p == request[c].phone IN
  /\ request[c].at = "create"
  /\ users' = IF Free(p)
       THEN users \cup {[phone |-> p, by |-> c, status |-> "active", secret |-> 1, must |-> TRUE]}
       ELSE users
  /\ Then(c, Done)
  /\ UNCHANGED <<sessions, bucket, admitted, now>>

(* POST /api/portal-session: the password, then the account again, then the  *)
(* row of the session. *)
Login(c) ==
  /\ \E u \in users : u.status = "active" /\ Begin(c, [at |-> "issue", user |-> u.by, keep |-> None])
  /\ UNCHANGED <<users, sessions, bucket, admitted, now>>

IssueRead(c) ==
  LET w == request[c] IN
  /\ w.at = "issue"
  /\ Then(c, IF Active(w.user) THEN [w EXCEPT !.at = "open"] ELSE Done)
  /\ UNCHANGED <<users, sessions, bucket, admitted, now>>

Open(c) ==
  LET w == request[c] IN
  /\ w.at = "open"
  /\ sessions' = [s \in DOMAIN sessions \cup {c} |->
       IF s = c THEN [user |-> w.user, live |-> TRUE] ELSE sessions[s]]
  /\ Then(c, Done)
  /\ UNCHANGED <<users, bucket, admitted, now>>

Live(s) == sessions[s].live /\ Active(sessions[s].user)

(* A request of a session: its row and its account, read on each request,    *)
(* then the password it gives. *)
ChangeRead(c) ==
  /\ \E s \in DOMAIN sessions :
       /\ Live(s)
       /\ Begin(c, [at |-> "secret", user |-> sessions[s].user, keep |-> s, reset |-> FALSE])
  /\ UNCHANGED <<users, sessions, bucket, admitted, now>>

(* PATCH /api/auth/users, reset-password, by a session of the owner. *)
ResetRead(c) ==
  /\ \E s \in DOMAIN sessions, u \in users :
       /\ Live(s) /\ User_(sessions[s].user).phone = Owner
       /\ Begin(c, [at |-> "secret", user |-> u.by, keep |-> None, reset |-> TRUE])
  /\ UNCHANGED <<users, sessions, bucket, admitted, now>>

(* setPassword: only of an active account. *)
SetSecret(c) ==
  LET w == request[c] u == User_(w.user) IN
  /\ w.at = "secret"
  /\ IF ~Active(w.user) THEN users' = users /\ Then(c, Done)
     ELSE /\ u.secret < MaxSecret
          /\ users' = Change(w.user, [u EXCEPT !.secret = @ + 1, !.must = FALSE])
          /\ Then(c, [at |-> IF w.reset THEN "must" ELSE "revoke", user |-> w.user, keep |-> w.keep])
  /\ UNCHANGED <<sessions, bucket, admitted, now>>

SetMust(c) ==
  LET w == request[c] IN
  /\ w.at = "must"
  /\ users' = Change(w.user, [User_(w.user) EXCEPT !.must = TRUE])
  /\ Then(c, [w EXCEPT !.at = "revoke"])
  /\ UNCHANGED <<sessions, bucket, admitted, now>>

(* Suspending another account, then revoking its sessions; activating. *)
Suspend(c) ==
  \E s \in DOMAIN sessions, u \in users :
    /\ Live(s) /\ User_(sessions[s].user).phone = Owner /\ sessions[s].user # u.by
    /\ users' = Change(u.by, [u EXCEPT !.status = IF @ = "active" THEN "suspended" ELSE "active"])
    /\ Begin(c, IF u.status = "active" THEN [at |-> "revoke", user |-> u.by, keep |-> None] ELSE Done)
    /\ UNCHANGED <<sessions, bucket, admitted, now>>

(* Every session of the account but the one that acts. *)
Kept(c, s) == sessions[s].user # request[c].user \/ s = request[c].keep

Revoke(c) ==
  /\ request[c].at = "revoke"
  /\ sessions' = [s \in DOMAIN sessions |->
       IF Kept(c, s) THEN sessions[s] ELSE [sessions[s] EXCEPT !.live = FALSE]]
  /\ Then(c, Done)
  /\ UNCHANGED <<users, bucket, admitted, now>>

Logout(c) ==
  \E s \in DOMAIN sessions :
    /\ Live(s) /\ sessions' = [sessions EXCEPT ![s].live = FALSE]
    /\ Begin(c, Done)
    /\ UNCHANGED <<users, bucket, admitted, now>>

(* consumeRequestRateLimit: the time is read first, one statement counts. *)
Arrive(c) ==
  /\ Begin(c, [at |-> "count", now |-> now])
  /\ UNCHANGED <<users, sessions, bucket, admitted, now>>

Counted_Restart(t) == [requests |-> 1, ends |-> t + Window]
Counted(t) ==
  IF bucket = None THEN [requests |-> 1, ends |-> t + Window]
  ELSE IF bucket.ends <= t THEN [requests |-> 1, ends |-> t + Window]
  ELSE [bucket EXCEPT !.requests = @ + 1]

Consume(c) ==
  LET t == request[c].now IN
  /\ request[c].at = "count"
  /\ bucket' = Counted(t)
  /\ admitted' = [admitted EXCEPT ![t] = IF bucket'.requests <= Limit THEN @ + 1 ELSE @]
  /\ Then(c, Done)
  /\ UNCHANGED <<users, sessions, now>>

(* sweepRequestRateLimits. *)
Sweep ==
  /\ bucket # None /\ bucket.ends < now
  /\ bucket' = None
  /\ UNCHANGED <<users, sessions, admitted, now, request>>

(* Bound: a request is counted within a tick of reading its time; a tick     *)
(* stands for half a minute. *)
Tick ==
  /\ now < MaxTime /\ now' = now + 1
  /\ \A c \in Requests : request[c].at = "count" => request[c].now = now
  /\ UNCHANGED <<users, sessions, bucket, admitted, request>>

Next ==
  \/ Sweep \/ Tick
  \/ \E c \in Requests :
       \/ CreateRead(c) \/ Create(c) \/ Login(c) \/ IssueRead(c) \/ Open(c)
       \/ ChangeRead(c) \/ ResetRead(c) \/ SetSecret(c) \/ SetMust(c) \/ Suspend(c)
       \/ Revoke(c) \/ Logout(c) \/ Arrive(c) \/ Consume(c)

Spec == Init /\ [][Next]_vars

-----------------------------------------------------------------------------
TypeOK ==
  /\ users \subseteq User
  /\ DOMAIN sessions \subseteq Requests /\ \A s \in DOMAIN sessions : sessions[s] \in Session
  /\ bucket \in Bucket \cup {None}
  /\ admitted \in [Times -> 0..MaxRequests] /\ now \in Times
  /\ request \in [Requests -> Pending]

(* However many processes find the table of users empty, or a phone free, at  *)
(* once, an account exists once per phone.                                    *)
OneAccountPerPhone == \A u, v \in users : u.phone = v.phone => u = v

(* Any Window ticks let through at most two windows' worth of requests, in    *)
(* whatever order the processes come to the counter and the sweep to it.  (A  *)
(* request that is counted long after it read its time would start a window   *)
(* of its own: only the bound of Tick keeps it out.)                          *)
RequestsArePaced ==
  \A t \in Times :
    MapThenSumSet(LAMBDA s : admitted[s], {s \in Times : t <= s /\ s < t + Window}) <= 2 * Limit

=============================================================================
