------------------------------- MODULE SignIn --------------------------------
(***************************************************************************)
(* One account signing in and being served.  The portal, the shop and the     *)
(* affiliates' page share the table of sessions, each with its own audience,   *)
(* and count the failures of a sign-in apart.  A request is a sequence of      *)
(* statements; meanwhile the account is suspended, loses a role, is signed     *)
(* out everywhere.                                                            *)
(***************************************************************************)
EXTENDS Integers, FiniteSets

CONSTANTS
  MaxRequests, MaxOpen, \* bounds: requests in a behaviour, under way at a time
  MaxChanges, MaxTime,  \* bounds: changes of the account, the clock
  Audiences,  \* a function: the roles that fit each audience
  maxAttempts, windowSeconds, blockSeconds, \* LOGIN_RATE_LIMIT
  TTL,        \* of a session
  None

Requests == 1..MaxRequests
Roles == UNION {Audiences[a] : a \in DOMAIN Audiences}

VARIABLES
  active,   \* users.status = 'active'
  assigned, \* the roles of user_role_assignments
  sessions, \* user_sessions, numbered by the requests that opened them
  counters, \* auth_rate_limits: one row per audience
  request, changes, now
vars == <<active, assigned, sessions, counters, request, changes, now>>

Time == 0..MaxTime
Counter == [attempts : 0..maxAttempts, start : Time, until : Nat \cup {None}]
SessionRow == [role : Roles, expires : Nat, revoked : BOOLEAN]

Idle == [at |-> "idle"]
Done == [at |-> "done"]

Init ==
  /\ active = TRUE /\ assigned = Roles /\ sessions = <<>>
  /\ counters = [a \in DOMAIN Audiences |-> None]
  /\ request = [c \in Requests |-> Idle] /\ changes = 0 /\ now = 0

-----------------------------------------------------------------------------
(* A session is in force while its row, its account and its role are.        *)
Row(s) == ~sessions[s].revoked /\ sessions[s].expires > now
Held(s) == {n \in {"row", "user", "role"} :
              /\ n = "row" => Row(s)
              /\ n = "user" => active
              /\ n = "role" => sessions[s].role \in assigned}

(* Requests remember what of their session held since they began ("held").   *)
Keep == request' = [c \in Requests |->
  IF "held" \in DOMAIN request[c]
    THEN [request[c] EXCEPT !.held = @ \cup {n \in {"row", "user", "role"} :
            LET s == request[c].session IN
            /\ n = "row" => ~sessions'[s].revoked /\ sessions'[s].expires > now'
            /\ n = "user" => active'
            /\ n = "role" => sessions'[s].role \in assigned'}]
    ELSE request[c]]
Then(c, what) == request' = [d \in Requests |-> IF d = c THEN what ELSE request[d]]
Begin(c, what) ==
  /\ request[c] = Idle
  /\ \A d \in 1..(c - 1) : request[d] # Idle
  /\ Cardinality({d \in Requests : request[d].at \notin {"idle", "done", "served"}}) < MaxOpen
  /\ Then(c, what)

-----------------------------------------------------------------------------
(* checkRateLimit, before anything else is looked at. *)
Blocked(row) == row # None /\ row.until # None /\ row.until > now
Attempts(row) == IF row = None \/ now - row.start >= windowSeconds THEN 0 ELSE row.attempts
Login(c) ==
  /\ \E a \in DOMAIN Audiences, right \in BOOLEAN :
       ~Blocked(counters[a]) /\ Begin(c, [at |-> "verify", audience |-> a, right |-> right])
  /\ UNCHANGED <<active, assigned, sessions, counters, changes, now>>

(* verifyCredentials: an account that is suspended fails like a wrong password. *)
Verify(c) ==
  /\ request[c].at = "verify"
  /\ Then(c, [request[c] EXCEPT !.at = IF active /\ request[c].right THEN "user" ELSE "fail"])
  /\ UNCHANGED <<active, assigned, sessions, counters, changes, now>>

(* recordFailure reads the counter, then writes what it has made of it. *)
FailRead(c) ==
  /\ request[c].at = "fail"
  /\ LET row == counters[request[c].audience] IN
     Then(c, IF Blocked(row) THEN Done
             ELSE [at |-> "count", audience |-> request[c].audience,
                   attempts |-> Attempts(row) + 1, time |-> now])
  /\ UNCHANGED <<active, assigned, sessions, counters, changes, now>>
FailWrite(c) ==
  LET r == request[c] old == counters[r.audience] IN
  /\ r.at = "count" /\ Then(c, Done)
  /\ counters' = [counters EXCEPT ![r.audience] =
       [attempts |-> r.attempts,
        start |-> IF old = None \/ r.attempts = 1 THEN r.time ELSE old.start,
        until |-> IF r.attempts >= maxAttempts THEN r.time + blockSeconds ELSE None]]
  /\ UNCHANGED <<active, assigned, sessions, changes, now>>

(* issueSessionForAudience: the account again, then its role, then the row;   *)
(* the portal asks which role when there are several.  The counter goes last.  *)
Fits_Any(role, audience) == TRUE
Fits(role, audience) == role \in Audiences[audience]
IssueUser(c) ==
  /\ request[c].at = "user"
  /\ Then(c, IF active THEN [request[c] EXCEPT !.at = "role"] ELSE Done)
  /\ UNCHANGED <<active, assigned, sessions, counters, changes, now>>
IssueRole(c) ==
  /\ request[c].at = "role"
  /\ \/ \E role \in assigned :
          /\ Fits(role, request[c].audience)
          /\ Then(c, [at |-> "insert", audience |-> request[c].audience, role |-> role])
     \/ (\A role \in assigned : ~Fits(role, request[c].audience)) /\ Then(c, Done)
  /\ UNCHANGED <<active, assigned, sessions, counters, changes, now>>
Insert(c) ==
  /\ request[c].at = "insert" /\ Then(c, [at |-> "clear", audience |-> request[c].audience])
  /\ sessions' = [s \in DOMAIN sessions \cup {c} |->
       IF s = c THEN [role |-> request[c].role, expires |-> now + TTL, revoked |-> FALSE] ELSE sessions[s]]
  /\ UNCHANGED <<active, assigned, counters, changes, now>>
Clear(c) ==
  /\ request[c].at = "clear" /\ Then(c, Done)
  /\ counters' = [counters EXCEPT ![request[c].audience] = None]
  /\ UNCHANGED <<active, assigned, sessions, changes, now>>

-----------------------------------------------------------------------------
(* readSessionForAudience: the row, the account and the role, one after the   *)
(* other, on every request; any of them may refuse it.                        *)
Ask(c) ==
  /\ \E s \in DOMAIN sessions, a \in DOMAIN Audiences :
       Begin(c, [at |-> "row", session |-> s, audience |-> a, held |-> Held(s)])
  /\ UNCHANGED <<active, assigned, sessions, counters, changes, now>>
ReadStep(c, from, holds, to) ==
  /\ request[c].at = from
  /\ Then(c, IF holds THEN [request[c] EXCEPT !.at = to] ELSE Done)
  /\ UNCHANGED <<active, assigned, sessions, counters, changes, now>>
ReadRow(c) ==
  LET s == request[c].session IN
  ReadStep(c, "row", Row(s) /\ Fits(sessions[s].role, request[c].audience), "account")
ReadUser(c) == ReadStep(c, "account", active, "scope")

StillAssigned_AtIssue(role) == TRUE
StillAssigned(role) == role \in assigned
ReadRole(c) == ReadStep(c, "scope", StillAssigned(sessions[request[c].session].role), "served")

(* What others do to the account: its status, its roles, its sessions.  *)
Change ==
  /\ changes < MaxChanges /\ changes' = changes + 1
  /\ \/ active' = ~active /\ UNCHANGED <<assigned, sessions>>
     \/ \E role \in Roles : /\ assigned' = IF role \in assigned THEN assigned \ {role} ELSE assigned \cup {role}
                            /\ UNCHANGED <<active, sessions>>
     \/ /\ \E set \in {DOMAIN sessions} \cup {{s} : s \in DOMAIN sessions} :
             sessions' = [s \in DOMAIN sessions |->
                            IF s \in set THEN [sessions[s] EXCEPT !.revoked = TRUE] ELSE sessions[s]]
        /\ sessions' # sessions /\ UNCHANGED <<active, assigned>>
  /\ UNCHANGED <<counters, now>> /\ Keep
Tick ==
  /\ now < MaxTime /\ now' = now + 1 /\ UNCHANGED <<active, assigned, sessions, counters, changes>>
  /\ Keep

(* sweepRateLimits: rows that block nothing and count nothing any more. *)
Sweep ==
  /\ \E a \in DOMAIN Audiences :
       /\ counters[a] # None /\ ~Blocked(counters[a]) /\ Attempts(counters[a]) = 0
       /\ counters' = [counters EXCEPT ![a] = None]
  /\ UNCHANGED <<active, assigned, sessions, request, changes, now>>

Next ==
  \/ \E c \in Requests :
       \/ Login(c) \/ Verify(c) \/ FailRead(c) \/ FailWrite(c)
       \/ IssueUser(c) \/ IssueRole(c) \/ Insert(c) \/ Clear(c)
       \/ Ask(c) \/ ReadRow(c) \/ ReadUser(c) \/ ReadRole(c)
  \/ Change \/ Tick \/ Sweep

Spec == Init /\ [][Next]_vars

-----------------------------------------------------------------------------
TypeOK ==
  /\ active \in BOOLEAN /\ assigned \subseteq Roles /\ now \in Time
  /\ DOMAIN sessions \subseteq Requests /\ \A s \in DOMAIN sessions : sessions[s] \in SessionRow
  /\ counters \in [DOMAIN Audiences -> Counter \cup {None}]

Served == {c \in Requests : request[c].at = "served"}

(* A request is served only when its session, its account and its role have    *)
(* all held at some moment since it came in: what was taken away before it     *)
(* came is refused at once, on whatever session and however it was opened.     *)
ServedInForce == \A c \in Served : request[c].held = {"row", "user", "role"}

(* A session of one audience never serves a request of another. *)
AudiencesApart ==
  \A c \in Served : sessions[request[c].session].role \in Audiences[request[c].audience]

=============================================================================
