----------------------------- MODULE Admin_proof -----------------------------
(***************************************************************************)
(* Theorems about whom the system lets in, what its operators keep and     *)
(* what its readers see: the sign-in and its sessions, the accounts, the   *)
(* sites and their members, what is held of customers, the settings and    *)
(* the alerts, then the portal page, its lists and events, and the order   *)
(* page. Each holds for every value of the constants of its module.        *)
(* Services declares the tables and the constants, and names the instance  *)
(* a theorem is about.                                                     *)
(***************************************************************************)
EXTENDS Sequences, FiniteSetTheorems, WellFoundedInduction, TLAPS, Services

-----------------------------------------------------------------------------
(***************************************************************************)
(* SignIn.  Whatever the number of requests, sessions, audiences and roles:  *)
(* a request is served by a session in force and of its own audience.        *)
(***************************************************************************)

Bases == {"row", "user", "role"}
Reading == {"row", "account", "scope", "served"}

(* Before its session is there; a request opens one session, or none. *)
BeforeRow == {"idle", "verify", "user", "role", "insert"}

(* A request that opens a session remembers nothing of one.  The steps that    *)
(* lead to a session look at the request alone.                               *)
Opens(r) == r.at \notin Reading /\ "held" \notin DOMAIN r

(* A request that is read remembers all that holds of its session by now, and   *)
(* has got as far as what it remembers lets it.                               *)
Reads(r) ==
  /\ r \in [at : Reading, session : DOMAIN sessions, audience : DOMAIN Audiences, held : SUBSET Bases]
  /\ Entry!Held(r.session) \subseteq r.held
  /\ r.at \in {"account", "scope", "served"} =>
       "row" \in r.held /\ Entry!Fits(sessions[r.session].role, r.audience)
  /\ r.at \in {"scope", "served"} => "user" \in r.held
  /\ r.at = "served" => "role" \in r.held

SessionsAreRows ==
  \A s \in DOMAIN sessions : \E roles, times :
    sessions[s] \in [role : roles, expires : times, revoked : BOOLEAN]

ServingInv ==
  /\ SessionsAreRows
  /\ request = [c \in Entry!Requests |-> request[c]]
  /\ \A c \in Entry!Requests : Opens(request[c]) \/ Reads(request[c])
  /\ \A c \in Entry!Requests : request[c].at \in BeforeRow => c \notin DOMAIN sessions

-----------------------------------------------------------------------------
LEMMA InitServing == Entry!Init => ServingInv
<1> SUFFICES ASSUME Entry!Init PROVE ServingInv
  OBVIOUS
<1>1. DOMAIN sessions = {}
  BY DEF Entry!Init
<1>2. \A c \in Entry!Requests : request[c] = [at |-> "idle"]
  BY DEF Entry!Init, Entry!Idle
<1>3. request = [c \in Entry!Requests |-> request[c]]
  BY DEF Entry!Init
<1> QED
  BY <1>1, <1>2, <1>3 DEF ServingInv, SessionsAreRows, Opens, Reading

(* A step of one request that changes nothing the others look at. *)
LEMMA RequestServing ==
  ASSUME ServingInv, NEW c \in Entry!Requests, NEW what, Entry!Then(c, what),
         Opens(what) \/ Reads(what),
         what.at \in BeforeRow => request[c].at \in BeforeRow,
         UNCHANGED <<active, assigned, sessions, now>>
  PROVE  ServingInv'
<1>1. request' = [d \in Entry!Requests |-> IF d = c THEN what ELSE request[d]]
  BY DEF Entry!Then
<1>2. \A d \in Entry!Requests : Opens(request'[d]) \/ Reads(request'[d])
  BY <1>1 DEF ServingInv
<1>3. \A d \in Entry!Requests : (Opens(request[d]) \/ Reads(request[d]))'
  BY <1>2 DEF Opens, Reads, Entry!Held, Entry!Row, Entry!Fits
<1>4. \A d \in Entry!Requests : request'[d].at \in BeforeRow => d \notin DOMAIN sessions'
  BY <1>1 DEF ServingInv
<1>5. SessionsAreRows'
  BY DEF ServingInv, SessionsAreRows
<1> QED
  BY <1>1, <1>3, <1>4, <1>5 DEF ServingInv, Opens

-----------------------------------------------------------------------------
(* Opening a session.                                                          *)

LEMMA DoneOpens == Opens(Entry!Done) /\ Entry!Done.at \notin BeforeRow
  BY DEF Opens, Entry!Done, Reading, BeforeRow

LEMMA LoginServing ==
  ASSUME ServingInv, NEW c \in Entry!Requests, Entry!Login(c)
  PROVE  ServingInv'
<1>1. PICK a \in DOMAIN Audiences, right \in BOOLEAN :
        Entry!Begin(c, [at |-> "verify", audience |-> a, right |-> right])
  BY DEF Entry!Login
<1> DEFINE what == [at |-> "verify", audience |-> a, right |-> right]
<1>2. Entry!Then(c, what) /\ request[c].at \in BeforeRow
  BY <1>1 DEF Entry!Begin, Entry!Idle, BeforeRow
<1>3. Opens(what)
  BY DEF Opens, Reading
<1>4. UNCHANGED <<active, assigned, sessions, now>>
  BY DEF Entry!Login
<1> HIDE DEF what
<1> QED
  BY <1>2, <1>3, <1>4, RequestServing

(* The request goes on to another step, or ends. *)
LEMMA OnwardServing ==
  ASSUME ServingInv, NEW c \in Entry!Requests, NEW from, NEW to, request[c].at = from,
         from \notin Reading, to \notin Reading, to \in BeforeRow => from \in BeforeRow,
         Entry!Then(c, [request[c] EXCEPT !.at = to]), UNCHANGED <<active, assigned, sessions, now>>
  PROVE  ServingInv'
<1> DEFINE what == [request[c] EXCEPT !.at = to]
<1>1. Opens(request[c])
  BY DEF ServingInv, Opens, Reads
<1>2. DOMAIN what = DOMAIN request[c]
  OBVIOUS
<1>3. what.at \in {to, from}
  BY DEF Opens
<1>4. Opens(what)
  BY <1>1, <1>2, <1>3 DEF Opens
<1>5. what.at \in BeforeRow => request[c].at \in BeforeRow
  BY <1>3
<1> HIDE DEF what
<1> QED
  BY <1>4, <1>5, RequestServing DEF what

LEMMA EndServing ==
  ASSUME ServingInv, NEW c \in Entry!Requests, Entry!Then(c, Entry!Done),
         UNCHANGED <<active, assigned, sessions, now>>
  PROVE  ServingInv'
BY DoneOpens, RequestServing

LEMMA CredentialsServing ==
  ASSUME ServingInv, NEW c \in Entry!Requests, Entry!Verify(c) \/ Entry!FailRead(c) \/ Entry!FailWrite(c)
  PROVE  ServingInv'
<1>1. CASE Entry!Verify(c)
  <2>1. PICK to \in {"user", "fail"} : Entry!Then(c, [request[c] EXCEPT !.at = to])
    BY <1>1 DEF Entry!Verify
  <2>2. request[c].at = "verify" /\ UNCHANGED <<active, assigned, sessions, now>>
    BY <1>1 DEF Entry!Verify
  <2> QED
    BY <2>1, <2>2, OnwardServing DEF Reading, BeforeRow
<1>2. CASE Entry!FailRead(c)
  <2> DEFINE row == counters[request[c].audience]
             what == [at |-> "count", audience |-> request[c].audience,
                      attempts |-> Entry!Attempts(row) + 1, time |-> now]
  <2>1. Opens(what) /\ what.at \notin BeforeRow
    BY DEF Opens, Reading, BeforeRow
  <2>2. Entry!Then(c, Entry!Done) \/ Entry!Then(c, what)
    BY <1>2 DEF Entry!FailRead
  <2>3. UNCHANGED <<active, assigned, sessions, now>>
    BY <1>2 DEF Entry!FailRead
  <2> HIDE DEF what
  <2> QED
    BY <2>1, <2>2, <2>3, EndServing, RequestServing
<1>3. CASE Entry!FailWrite(c)
  BY <1>3, EndServing DEF Entry!FailWrite
<1> QED
  BY <1>1, <1>2, <1>3

LEMMA IssueServing ==
  ASSUME ServingInv, NEW c \in Entry!Requests, Entry!IssueUser(c) \/ Entry!IssueRole(c) \/ Entry!Clear(c)
  PROVE  ServingInv'
<1>1. CASE Entry!IssueUser(c)
  <2>1. request[c].at = "user" /\ UNCHANGED <<active, assigned, sessions, now>>
    BY <1>1 DEF Entry!IssueUser
  <2>2. Entry!Then(c, [request[c] EXCEPT !.at = "role"]) \/ Entry!Then(c, Entry!Done)
    BY <1>1 DEF Entry!IssueUser
  <2> QED
    BY <2>1, <2>2, EndServing, OnwardServing DEF Reading, BeforeRow
<1>2. CASE Entry!IssueRole(c)
  <2>1. request[c].at = "role" /\ UNCHANGED <<active, assigned, sessions, now>>
    BY <1>2 DEF Entry!IssueRole
  <2>2. CASE \E ro \in assigned :
               Entry!Then(c, [at |-> "insert", audience |-> request[c].audience, role |-> ro])
    <3>1. PICK ro \in assigned :
            Entry!Then(c, [at |-> "insert", audience |-> request[c].audience, role |-> ro])
      BY <2>2
    <3> DEFINE what == [at |-> "insert", audience |-> request[c].audience, role |-> ro]
    <3>2. Opens(what) /\ request[c].at \in BeforeRow
      BY <2>1 DEF Opens, Reading, BeforeRow
    <3> HIDE DEF what
    <3> QED
      BY <2>1, <3>1, <3>2, RequestServing DEF what
  <2> QED
    BY <1>2, <2>1, <2>2, EndServing DEF Entry!IssueRole
<1>3. CASE Entry!Clear(c)
  BY <1>3, EndServing DEF Entry!Clear
<1> QED
  BY <1>1, <1>2, <1>3

(* A session is opened once, so nobody reads the row it gets. *)
LEMMA InsertServing ==
  ASSUME ServingInv, NEW c \in Entry!Requests, Entry!Insert(c)
  PROVE  ServingInv'
<1> DEFINE what == [at |-> "clear", audience |-> request[c].audience]
<1>1. c \notin DOMAIN sessions
  BY DEF Entry!Insert, ServingInv, BeforeRow
<1>2. /\ sessions' = [s \in DOMAIN sessions \cup {c} |->
           IF s = c THEN [role |-> request[c].role, expires |-> now + TTL, revoked |-> FALSE]
           ELSE sessions[s]]
      /\ UNCHANGED <<active, assigned, now>>
      /\ request' = [d \in Entry!Requests |-> IF d = c THEN what ELSE request[d]]
  BY DEF Entry!Insert, Entry!Then
<1>3. DOMAIN sessions' = DOMAIN sessions \cup {c} /\ \A s \in DOMAIN sessions : sessions'[s] = sessions[s]
  BY <1>1, <1>2
<1>4. Opens(what) /\ what.at \notin BeforeRow
  BY DEF Opens, Reading, BeforeRow
<1> HIDE DEF what
<1>5. ASSUME NEW d \in Entry!Requests, Reads(request[d]), request'[d] = request[d]
      PROVE  Reads(request[d])'
  <2>1. request[d].session \in DOMAIN sessions
    BY <1>5 DEF Reads
  <2>2. Entry!Held(request[d].session)' = Entry!Held(request[d].session)
    BY <1>2, <1>3, <1>5, <2>1 DEF Entry!Held, Entry!Row
  <2>3. /\ request[d] \in [at : Reading, session : DOMAIN sessions', audience : DOMAIN Audiences, held : SUBSET Bases]
        /\ sessions'[request[d].session] = sessions[request[d].session]
    BY <1>3, <1>5, <2>1 DEF Reads
  <2> QED
    BY <1>5, <2>2, <2>3 DEF Reads, Entry!Fits
<1>6. ASSUME NEW d \in Entry!Requests PROVE (Opens(request[d]) \/ Reads(request[d]))'
  <2>1. CASE d = c
    BY <1>2, <1>4, <2>1 DEF Opens
  <2>2. CASE d # c
    <3>1. request'[d] = request[d]
      BY <1>2, <2>2
    <3> QED
      BY <1>5, <3>1 DEF ServingInv, Opens
  <2> QED
    BY <2>1, <2>2
<1>7. \A d \in Entry!Requests : request'[d].at \in BeforeRow => d \notin DOMAIN sessions'
  BY <1>2, <1>3, <1>4 DEF ServingInv
<1>8. SessionsAreRows'
  <2> SUFFICES ASSUME NEW s \in DOMAIN sessions'
               PROVE  \E roles, times :
                        sessions'[s] \in [role : roles, expires : times, revoked : BOOLEAN]
    BY DEF SessionsAreRows
  <2>1. CASE s \in DOMAIN sessions
    BY <1>3, <2>1 DEF ServingInv, SessionsAreRows
  <2>2. CASE s = c
    <3>1. sessions'[s] \in [role : {request[c].role}, expires : {now + TTL}, revoked : BOOLEAN]
      BY <1>2, <2>2
    <3> QED
      BY <3>1
  <2> QED
    BY <1>3, <2>1, <2>2
<1> QED
  BY <1>2, <1>6, <1>7, <1>8 DEF ServingInv, Opens

-----------------------------------------------------------------------------
(* Being served.                                                               *)

LEMMA AskServing ==
  ASSUME ServingInv, NEW c \in Entry!Requests, Entry!Ask(c)
  PROVE  ServingInv'
<1>1. PICK s \in DOMAIN sessions, a \in DOMAIN Audiences :
        Entry!Begin(c, [at |-> "row", session |-> s, audience |-> a, held |-> Entry!Held(s)])
  BY DEF Entry!Ask
<1> DEFINE what == [at |-> "row", session |-> s, audience |-> a, held |-> Entry!Held(s)]
<1>2. Entry!Then(c, what)
  BY <1>1 DEF Entry!Begin
<1>3. Entry!Held(s) \in SUBSET Bases
  BY DEF Entry!Held, Bases
<1>4. Reads(what) /\ what.at \notin BeforeRow
  BY <1>3 DEF Reads, Reading, BeforeRow
<1>5. UNCHANGED <<active, assigned, sessions, now>>
  BY DEF Entry!Ask
<1> HIDE DEF what
<1> QED
  BY <1>2, <1>4, <1>5, RequestServing

LEMMA ReadServing ==
  ASSUME ServingInv, NEW c \in Entry!Requests, Entry!ReadRow(c) \/ Entry!ReadUser(c) \/ Entry!ReadRole(c)
  PROVE  ServingInv'
<1> DEFINE r == request[c]
<1>1. Reads(r) /\ UNCHANGED <<active, assigned, sessions, now>>
  BY DEF Entry!ReadRow, Entry!ReadUser, Entry!ReadRole, Entry!ReadStep, ServingInv, Opens, Reading
<1>2. ASSUME NEW to, Entry!Then(c, [r EXCEPT !.at = to]), Reads([r EXCEPT !.at = to]), to \notin BeforeRow
      PROVE  ServingInv'
  <2>1. [r EXCEPT !.at = to].at = to
    BY <1>1 DEF Reads
  <2> QED
    BY <1>1, <1>2, <2>1, RequestServing
<1>3. CASE Entry!ReadRow(c)
  <2>1. r.at = "row" /\ (Entry!Then(c, Entry!Done) \/ (/\ Entry!Row(r.session) /\ Entry!Fits(sessions[r.session].role, r.audience)
                                           /\ Entry!Then(c, [r EXCEPT !.at = "account"])))
    BY <1>3 DEF Entry!ReadRow, Entry!ReadStep
  <2>2. Entry!Row(r.session) => "row" \in r.held
    BY <1>1 DEF Reads, Entry!Held
  <2>3. Entry!Row(r.session) /\ Entry!Fits(sessions[r.session].role, r.audience) => Reads([r EXCEPT !.at = "account"])
    BY <1>1, <2>2 DEF Reads, Reading
  <2> QED
    BY <1>1, <1>2, <2>1, <2>3, EndServing DEF BeforeRow
<1>4. CASE Entry!ReadUser(c)
  <2>1. r.at = "account" /\ (Entry!Then(c, Entry!Done) \/ (active /\ Entry!Then(c, [r EXCEPT !.at = "scope"])))
    BY <1>4 DEF Entry!ReadUser, Entry!ReadStep
  <2>2. active => "user" \in r.held
    BY <1>1 DEF Reads, Entry!Held
  <2>3. active => Reads([r EXCEPT !.at = "scope"])
    BY <1>1, <2>1, <2>2 DEF Reads, Reading
  <2> QED
    BY <1>1, <1>2, <2>1, <2>3, EndServing DEF BeforeRow
<1>5. CASE Entry!ReadRole(c)
  <2>1. r.at = "scope" /\ (Entry!Then(c, Entry!Done) \/ (/\ sessions[r.session].role \in assigned
                                             /\ Entry!Then(c, [r EXCEPT !.at = "served"])))
    BY <1>5 DEF Entry!ReadRole, Entry!ReadStep, Entry!StillAssigned
  <2>2. sessions[r.session].role \in assigned => "role" \in r.held
    BY <1>1 DEF Reads, Entry!Held
  <2>3. sessions[r.session].role \in assigned => Reads([r EXCEPT !.at = "served"])
    BY <1>1, <2>1, <2>2 DEF Reads, Reading
  <2> QED
    BY <1>1, <1>2, <2>1, <2>3, EndServing DEF BeforeRow
<1> QED
  BY <1>3, <1>4, <1>5

-----------------------------------------------------------------------------
(* What others do: every request that is read takes note of it.                *)

LEMMA KeepServing ==
  ASSUME ServingInv, Entry!Keep, DOMAIN sessions' = DOMAIN sessions, SessionsAreRows',
         \A s \in DOMAIN sessions : sessions'[s].role = sessions[s].role
  PROVE  ServingInv'
<1> DEFINE News(s) == {n \in Bases : /\ n = "row" => ~sessions'[s].revoked /\ sessions'[s].expires > now'
                                     /\ n = "user" => active'
                                     /\ n = "role" => sessions'[s].role \in assigned'}
<1>1. request' = [c \in Entry!Requests |-> IF "held" \in DOMAIN request[c]
                    THEN [request[c] EXCEPT !.held = @ \cup News(request[c].session)]
                    ELSE request[c]]
  BY DEF ServingInv, Entry!Keep, Bases
<1>2. ASSUME NEW c \in Entry!Requests, Reads(request[c])
      PROVE  Reads(request[c])' /\ request'[c].at = request[c].at
  <2> DEFINE r == request[c]
  <2>1. r \in [at : Reading, session : DOMAIN sessions, audience : DOMAIN Audiences, held : SUBSET Bases]
    BY <1>2 DEF Reads
  <2>2. request'[c] = [r EXCEPT !.held = @ \cup News(r.session)]
    BY <1>1, <2>1
  <2>3. News(r.session) \subseteq Bases
    OBVIOUS
  <2>4. Entry!Held(request[c].session)' = News(request'[c].session)
    BY DEF Entry!Held, Entry!Row, Bases
  <2> HIDE DEF News
  <2>5. /\ request'[c].at = r.at /\ request'[c].session = r.session
        /\ request'[c].audience = r.audience /\ request'[c].held = r.held \cup News(r.session)
    BY <2>1, <2>2
  <2>6. request'[c] \in [at : Reading, session : DOMAIN sessions', audience : DOMAIN Audiences, held : SUBSET Bases]
    BY <2>1, <2>2, <2>3
  <2>7. sessions'[r.session].role = sessions[r.session].role
    BY <2>1
  <2> QED
    BY <1>2, <2>4, <2>5, <2>6, <2>7 DEF Reads, Entry!Fits
<1> HIDE DEF News
<1>3. ASSUME NEW c \in Entry!Requests
      PROVE  /\ (Opens(request[c]) \/ Reads(request[c]))'
             /\ request'[c].at = request[c].at
  <2>1. CASE Opens(request[c])
    BY <1>1, <2>1 DEF Opens
  <2>2. CASE Reads(request[c])
    BY <1>2, <2>2
  <2> QED
    BY <2>1, <2>2 DEF ServingInv
<1>4. \A c \in Entry!Requests : request'[c].at \in BeforeRow => c \notin DOMAIN sessions'
  BY <1>3 DEF ServingInv
<1> QED
  BY <1>1, <1>3, <1>4 DEF ServingInv, Opens

LEMMA ChangeServing ==
  ASSUME ServingInv, Entry!Change
  PROVE  ServingInv'
<1>1. CASE sessions' = sessions
  <2>1. SessionsAreRows'
    BY <1>1 DEF ServingInv, SessionsAreRows
  <2> QED
    BY <1>1, <2>1, KeepServing DEF Entry!Change
<1>2. CASE \E set \in {DOMAIN sessions} \cup {{s} : s \in DOMAIN sessions} :
             sessions' = [s \in DOMAIN sessions |->
                            IF s \in set THEN [sessions[s] EXCEPT !.revoked = TRUE] ELSE sessions[s]]
  <2>1. PICK set : sessions' = [s \in DOMAIN sessions |->
                     IF s \in set THEN [sessions[s] EXCEPT !.revoked = TRUE] ELSE sessions[s]]
    BY <1>2
  <2>2. DOMAIN sessions' = DOMAIN sessions
    BY <2>1
  <2>3. ASSUME NEW s \in DOMAIN sessions
        PROVE  /\ sessions'[s].role = sessions[s].role
               /\ \E roles, times :
                    sessions'[s] \in [role : roles, expires : times, revoked : BOOLEAN]
    <3>1. PICK roles, times : sessions[s] \in [role : roles, expires : times, revoked : BOOLEAN]
      BY DEF ServingInv, SessionsAreRows
    <3> DEFINE row == [sessions[s] EXCEPT !.revoked = TRUE]
    <3>2. row \in [role : roles, expires : times, revoked : BOOLEAN] /\ row.role = sessions[s].role
      BY <3>1
    <3> QED
      BY <2>1, <3>1, <3>2
  <2>4. SessionsAreRows'
    BY <2>2, <2>3 DEF SessionsAreRows
  <2> QED
    BY <2>2, <2>3, <2>4, KeepServing DEF Entry!Change
<1> QED
  BY <1>1, <1>2 DEF Entry!Change

LEMMA NextServing == ServingInv /\ [Entry!Next]_(Entry!vars) => ServingInv'
<1> SUFFICES ASSUME ServingInv, [Entry!Next]_(Entry!vars) PROVE ServingInv'
  OBVIOUS
<1>1. CASE Entry!Tick
  <2>1. SessionsAreRows'
    BY <1>1 DEF Entry!Tick, ServingInv, SessionsAreRows
  <2> QED
    BY <1>1, <2>1, KeepServing DEF Entry!Tick
<1>2. CASE Entry!Sweep \/ UNCHANGED Entry!vars
  <2>1. UNCHANGED <<active, assigned, sessions, request, now>>
    BY <1>2 DEF Entry!Sweep, Entry!vars
  <2>2. \A c \in Entry!Requests : (Opens(request[c]) \/ Reads(request[c]))'
    BY <2>1 DEF ServingInv, Opens, Reads, Entry!Held, Entry!Row, Entry!Fits
  <2> QED
    BY <2>1, <2>2 DEF ServingInv, SessionsAreRows, Opens
<1> QED
  BY <1>1, <1>2, LoginServing, CredentialsServing, IssueServing, InsertServing, AskServing,
     ReadServing, ChangeServing DEF Entry!Next

-----------------------------------------------------------------------------
(* What was taken away before a request came in refuses it, for any number of  *)
(* requests, audiences, roles and changes.                                     *)
THEOREM ServedInForceHolds == Entry!Spec => []Entry!ServedInForce
<1>1. ServingInv => Entry!ServedInForce
  <2> SUFFICES ASSUME ServingInv, NEW c \in Entry!Requests, request[c].at = "served"
               PROVE  request[c].held = {"row", "user", "role"}
    BY DEF Entry!ServedInForce, Entry!Served
  <2>1. Reads(request[c])
    BY DEF ServingInv, Opens, Reading
  <2> QED
    BY <2>1 DEF Reads, Bases
<1> QED
  BY <1>1, InitServing, NextServing, PTL DEF Entry!Spec

(* A session never serves a request of another audience than its own. *)
THEOREM AudiencesApartHolds == Entry!Spec => []Entry!AudiencesApart
<1>1. ServingInv => Entry!AudiencesApart
  <2> SUFFICES ASSUME ServingInv, NEW c \in Entry!Requests, request[c].at = "served"
               PROVE  sessions[request[c].session].role \in Audiences[request[c].audience]
    BY DEF Entry!AudiencesApart, Entry!Served
  <2>1. Reads(request[c])
    BY DEF ServingInv, Opens, Reading
  <2> QED
    BY <2>1 DEF Reads, Entry!Fits
<1> QED
  BY <1>1, InitServing, NextServing, PTL DEF Entry!Spec

-----------------------------------------------------------------------------
(***************************************************************************)
(* Accounts.  However many processes create accounts at once: a phone has  *)
(* one, and every session and every request under way is about one that    *)
(* exists.                                                                 *)
(***************************************************************************)

AccountShape(u) ==
  u \in [phone : {u.phone}, by : {u.by}, status : {u.status}, secret : {u.secret}, must : {u.must}]
UserIds == {u.by : u \in users}
AboutAccount(c) ==
  LET w == request[c] IN
  /\ w.at \in {"issue", "open", "secret", "must", "revoke"} => w.user \in UserIds
  /\ w.at \in {"issue", "must"} => w \in [at : {w.at}, user : {w.user}, keep : {w.keep}]

OneEach ==
  /\ \A u \in users : AccountShape(u) /\ u.by \in Login!Requests /\ request[u.by].at # "create"
                      /\ request[u.by].at # "idle"
  /\ \A u, v \in users : u.by = v.by \/ u.phone = v.phone => u = v

AccountsInv ==
  /\ DOMAIN request = Login!Requests /\ OneEach
  /\ \A s \in DOMAIN sessions : sessions[s].user \in UserIds
  /\ \A c \in Login!Requests : AboutAccount(c)

LEMMA InitAccounts == Login!Init => AccountsInv
BY DEF Login!Init, Login!Idle, AccountsInv, OneEach, AboutAccount

LEMMA ByItsId ==
  ASSUME OneEach, NEW u \in users
  PROVE  Login!User_(u.by) = u
BY DEF OneEach, Login!User_

LEMMA HasId ==
  ASSUME OneEach, NEW id \in UserIds
  PROVE  \E u \in users : u.by = id /\ Login!User_(id) = u
BY ByItsId DEF UserIds

\* One request goes on, to something about an account that exists; the accounts keep their ids.
AccountMoves(c, what) ==
  /\ c \in Login!Requests /\ Login!Then(c, what) /\ what.at \notin {"create", "idle"}
  /\ what.at \in {"issue", "open", "secret", "must", "revoke"} => what.user \in UserIds
  /\ what.at \in {"issue", "must"} => what \in [at : {what.at}, user : {what.user}, keep : {what.keep}]

LEMMA MovesAbout ==
  ASSUME AccountsInv, NEW c, NEW what, AccountMoves(c, what), UserIds \subseteq UserIds'
  PROVE  /\ DOMAIN request' = Login!Requests /\ request'[c] = what
         /\ \A d \in Login!Requests : d # c => request'[d] = request[d]
         /\ \A d \in Login!Requests : AboutAccount(d)'
<1>1. /\ DOMAIN request' = Login!Requests /\ request'[c] = what
      /\ \A d \in Login!Requests : d # c => request'[d] = request[d]
  BY DEF AccountsInv, AccountMoves, Login!Then
<1>2. ASSUME NEW d \in Login!Requests PROVE AboutAccount(d)'
  <2>1. CASE d = c
    BY <1>1, <2>1 DEF AboutAccount, AccountMoves
  <2>2. CASE d # c
    BY <1>1, <2>2 DEF AboutAccount, AccountsInv
  <2> QED
    BY <2>1, <2>2
<1> QED
  BY <1>1, <1>2

\* A step that leaves the accounts alone; the sessions are of accounts.
LEMMA AccountsRest ==
  ASSUME AccountsInv, NEW c, NEW what, AccountMoves(c, what), users' = users,
         \A s \in DOMAIN sessions' : sessions'[s].user \in UserIds
  PROVE  AccountsInv'
<1>1. UserIds' = UserIds
  BY DEF UserIds
<1> QED
  BY <1>1, MovesAbout DEF AccountsInv, OneEach, AccountMoves

\* A step that changes an account, but for its phone.
LEMMA AccountChanges ==
  ASSUME AccountsInv, NEW c, NEW what, AccountMoves(c, what), sessions' = sessions,
         NEW u \in users, NEW v, AccountShape(v), v.by = u.by, v.phone = u.phone,
         users' = Login!Change(u.by, v)
  PROVE  AccountsInv'
<1>1. users' = (users \ {u}) \cup {v}
  BY ByItsId DEF AccountsInv, Login!Change
<1>2. UserIds' = UserIds
  BY <1>1 DEF UserIds
<1>3. OneEach'
  <2>1. \A x \in users' : \E y \in users : x.by = y.by /\ x.phone = y.phone
    BY <1>1
  <2>2. \A x \in users' : AccountShape(x)
    BY <1>1 DEF AccountsInv, OneEach
  <2>3. \A x, y \in users' : x.by = y.by \/ x.phone = y.phone => x = y
    BY <1>1 DEF AccountsInv, OneEach
  <2>4. \A d \in Login!Requests : request[d].at \notin {"create", "idle"} =>
          request'[d].at \notin {"create", "idle"}
    BY <1>2, MovesAbout DEF AccountMoves
  <2> QED
    BY <2>1, <2>2, <2>3, <2>4 DEF AccountsInv, OneEach
<1> QED
  BY <1>2, <1>3, MovesAbout DEF AccountsInv

\* The index on the phone lets one row in.
LEMMA AccountCreated ==
  ASSUME AccountsInv, NEW c \in Login!Requests, Login!Create(c)
  PROVE  AccountsInv'
<1>1. AccountMoves(c, Login!Done) /\ request[c].at = "create" /\ sessions' = sessions
  BY DEF Login!Create, Login!Done, AccountMoves
<1> DEFINE v == [phone |-> request[c].phone, by |-> c, status |-> "active", secret |-> 1, must |-> TRUE]
<1>2. CASE ~Login!Free(request[c].phone)
  BY <1>1, <1>2, AccountsRest DEF Login!Create, AccountsInv
<1>3. CASE Login!Free(request[c].phone)
  <2>1. users' = users \cup {v}
    BY <1>3 DEF Login!Create
  <2>2. AccountShape(v) /\ v.by = c /\ v.phone = request[c].phone
    BY DEF AccountShape
  <2>3. \A u \in users : u.by # c /\ u.phone # request[c].phone
    BY <1>1, <1>3 DEF AccountsInv, OneEach, Login!Free
  <2> HIDE DEF v
  <2>4. UserIds \subseteq UserIds'
    BY <2>1 DEF UserIds
  <2>5. \A d \in Login!Requests : d = c \/ request'[d] = request[d]
    BY <1>1, <2>4, MovesAbout
  <2>6. request'[c].at = "done"
    BY <1>1, <2>4, MovesAbout DEF Login!Done
  <2>7. OneEach'
    <3>1. \A u \in users' : /\ AccountShape(u) /\ u.by \in Login!Requests
                            /\ request'[u.by].at # "create" /\ request'[u.by].at # "idle"
      BY <2>1, <2>2, <2>5, <2>6 DEF AccountsInv, OneEach
    <3>2. \A u, x \in users' : u.by = x.by \/ u.phone = x.phone => u = x
      BY <2>1, <2>2, <2>3 DEF AccountsInv, OneEach
    <3> QED
      BY <3>1, <3>2 DEF OneEach
  <2> QED
    BY <1>1, <2>4, <2>7, MovesAbout DEF AccountsInv
<1> QED
  BY <1>2, <1>3

LEMMA AccountBegins ==
  ASSUME AccountsInv, NEW c \in Login!Requests, Login!CreateRead(c)
  PROVE  AccountsInv'
<1>1. PICK p : Login!Begin(c, [at |-> "create", phone |-> p])
  BY DEF Login!CreateRead
<1>2. /\ request[c].at = "idle" /\ DOMAIN request' = Login!Requests /\ request'[c].at = "create"
      /\ \A d \in Login!Requests : d # c => request'[d] = request[d]
  BY <1>1 DEF Login!Begin, Login!Idle, Login!Then, AccountsInv
<1>3. users' = users /\ sessions' = sessions /\ UserIds' = UserIds
  BY DEF Login!CreateRead, UserIds
<1>4. \A u \in users : u.by # c
  BY <1>2 DEF AccountsInv, OneEach
<1>5. ASSUME NEW d \in Login!Requests PROVE AboutAccount(d)'
  BY <1>2, <1>3 DEF AccountsInv, AboutAccount
<1> QED
  BY <1>2, <1>3, <1>4, <1>5 DEF AccountsInv, OneEach

\* Who signs in, and who changes or resets a password.
LEMMA AccountUsed ==
  ASSUME AccountsInv, NEW c \in Login!Requests,
         \/ Login!Login(c) \/ Login!IssueRead(c) \/ Login!ChangeRead(c) \/ Login!ResetRead(c)
         \/ Login!Arrive(c) \/ Login!Consume(c)
  PROVE  AccountsInv'
<1>1. users' = users /\ sessions' = sessions
  BY DEF Login!Login, Login!IssueRead, Login!ChangeRead, Login!ResetRead, Login!Arrive, Login!Consume
<1>2. \E what : AccountMoves(c, what)
  <2>1. CASE Login!Login(c)
    <3>1. PICK u \in users : Login!Begin(c, [at |-> "issue", user |-> u.by, keep |-> None])
      BY <2>1 DEF Login!Login
    <3>2. u.by \in UserIds
      BY DEF UserIds
    <3> QED
      BY <3>1, <3>2 DEF Login!Begin, AccountMoves
  <2>2. CASE Login!IssueRead(c)
    <3>1. /\ request[c].at = "issue" /\ request[c].user \in UserIds
          /\ request[c] \in [at : {"issue"}, user : {request[c].user}, keep : {request[c].keep}]
      BY <2>2 DEF Login!IssueRead, AccountsInv, AboutAccount
    <3>2. Login!Then(c, Login!Done) \/ Login!Then(c, [request[c] EXCEPT !.at = "open"])
      BY <2>2 DEF Login!IssueRead
    <3>3. [request[c] EXCEPT !.at = "open"].at = "open"
          /\ [request[c] EXCEPT !.at = "open"].user = request[c].user
      BY <3>1
    <3> QED
      BY <3>1, <3>2, <3>3 DEF AccountMoves, Login!Done
  <2>3. CASE Login!ChangeRead(c)
    <3>1. PICK s \in DOMAIN sessions :
            Login!Begin(c, [at |-> "secret", user |-> sessions[s].user, keep |-> s, reset |-> FALSE])
      BY <2>3 DEF Login!ChangeRead
    <3>2. sessions[s].user \in UserIds
      BY DEF AccountsInv
    <3> QED
      BY <3>1, <3>2 DEF Login!Begin, AccountMoves
  <2>4. CASE Login!ResetRead(c)
    <3>1. PICK u \in users :
            Login!Begin(c, [at |-> "secret", user |-> u.by, keep |-> None, reset |-> TRUE])
      BY <2>4 DEF Login!ResetRead
    <3>2. u.by \in UserIds
      BY DEF UserIds
    <3> QED
      BY <3>1, <3>2 DEF Login!Begin, AccountMoves
  <2>5. CASE Login!Arrive(c)
    BY <2>5 DEF Login!Arrive, Login!Begin, AccountMoves
  <2>6. CASE Login!Consume(c)
    BY <2>6 DEF Login!Consume, Login!Done, AccountMoves
  <2> QED
    BY <2>1, <2>2, <2>3, <2>4, <2>5, <2>6
<1> QED
  BY <1>1, <1>2, AccountsRest DEF AccountsInv

LEMMA AccountWritten ==
  ASSUME AccountsInv, NEW c \in Login!Requests,
         Login!SetSecret(c) \/ Login!SetMust(c) \/ Login!Suspend(c)
  PROVE  AccountsInv'
<1>0. sessions' = sessions /\ OneEach
  BY DEF Login!SetSecret, Login!SetMust, Login!Suspend, AccountsInv
<1>1. CASE Login!SetSecret(c)
  <2>1. request[c].at = "secret" /\ request[c].user \in UserIds
    BY <1>1 DEF Login!SetSecret, AccountsInv, AboutAccount
  <2>2. PICK u \in users : u.by = request[c].user /\ Login!User_(request[c].user) = u
    BY <1>0, <2>1, HasId
  <2>3. CASE ~Login!Active(request[c].user)
    <3>1. AccountMoves(c, Login!Done) /\ users' = users
      BY <1>1, <2>3 DEF Login!SetSecret, AccountMoves, Login!Done
    <3> QED
      BY <1>0, <3>1, AccountsRest DEF AccountsInv
  <2>4. CASE Login!Active(request[c].user)
    <3> DEFINE v == [u EXCEPT !.secret = @ + 1, !.must = FALSE]
    <3>1. users' = Login!Change(u.by, v)
      BY <1>1, <2>2, <2>4 DEF Login!SetSecret
    <3>2. AccountShape(v) /\ v.by = u.by /\ v.phone = u.phone
      BY DEF AccountsInv, OneEach, AccountShape
    <3>3. \E a \in {"must", "revoke"} :
            Login!Then(c, [at |-> a, user |-> request[c].user, keep |-> request[c].keep])
      BY <1>1, <2>4 DEF Login!SetSecret
    <3>4. \E what : AccountMoves(c, what)
      BY <2>1, <3>3 DEF AccountMoves
    <3> HIDE DEF v
    <3> QED
      BY <1>0, <3>1, <3>2, <3>4, AccountChanges
  <2> QED
    BY <2>3, <2>4
<1>2. CASE Login!SetMust(c)
  <2>1. /\ request[c].at = "must" /\ request[c].user \in UserIds
        /\ request[c] \in [at : {"must"}, user : {request[c].user}, keep : {request[c].keep}]
    BY <1>2 DEF Login!SetMust, AccountsInv, AboutAccount
  <2>2. PICK u \in users : u.by = request[c].user /\ Login!User_(request[c].user) = u
    BY <1>0, <2>1, HasId
  <2> DEFINE v == [u EXCEPT !.must = TRUE]
             what == [request[c] EXCEPT !.at = "revoke"]
  <2>3. users' = Login!Change(u.by, v) /\ Login!Then(c, what)
    BY <1>2, <2>2 DEF Login!SetMust
  <2>4. AccountShape(v) /\ v.by = u.by /\ v.phone = u.phone
    BY DEF AccountsInv, OneEach, AccountShape
  <2>5. what.at = "revoke" /\ what.user = request[c].user
    BY <2>1
  <2> HIDE DEF v, what
  <2>6. AccountMoves(c, what)
    BY <2>1, <2>3, <2>5 DEF AccountMoves
  <2> QED
    BY <1>0, <2>3, <2>4, <2>6, AccountChanges
<1>3. CASE Login!Suspend(c)
  <2>1. PICK u \in users :
          /\ users' = Login!Change(u.by, [u EXCEPT !.status = IF @ = "active" THEN "suspended" ELSE "active"])
          /\ Login!Begin(c, IF u.status = "active" THEN [at |-> "revoke", user |-> u.by, keep |-> None]
                            ELSE Login!Done)
    BY <1>3 DEF Login!Suspend
  <2> DEFINE v == [u EXCEPT !.status = IF @ = "active" THEN "suspended" ELSE "active"]
  <2>2. AccountShape(v) /\ v.by = u.by /\ v.phone = u.phone
    BY DEF AccountsInv, OneEach, AccountShape
  <2>3. u.by \in UserIds
    BY DEF UserIds
  <2>4. \E what : AccountMoves(c, what)
    BY <2>1, <2>3 DEF Login!Begin, Login!Done, AccountMoves
  <2>5. users' = Login!Change(u.by, v)
    BY <2>1
  <2> HIDE DEF v
  <2> QED
    BY <1>0, <2>2, <2>4, <2>5, AccountChanges
<1> QED
  BY <1>1, <1>2, <1>3

LEMMA AccountSessions ==
  ASSUME AccountsInv, NEW c \in Login!Requests,
         Login!Open(c) \/ Login!Revoke(c) \/ Login!Logout(c)
  PROVE  AccountsInv'
<1>1. AccountMoves(c, Login!Done) /\ users' = users
  BY DEF Login!Open, Login!Revoke, Login!Logout, Login!Begin, AccountMoves, Login!Done
<1>2. ASSUME NEW s \in DOMAIN sessions' PROVE sessions'[s].user \in UserIds
  <2>1. CASE Login!Open(c)
    <3>1. request[c].user \in UserIds
      BY <2>1 DEF Login!Open, AccountsInv, AboutAccount
    <3> QED
      BY <1>2, <2>1, <3>1 DEF Login!Open, AccountsInv
  <2>2. CASE Login!Revoke(c)
    BY <1>2, <2>2 DEF Login!Revoke, AccountsInv
  <2>3. CASE Login!Logout(c)
    BY <1>2, <2>3 DEF Login!Logout, AccountsInv
  <2> QED
    BY <2>1, <2>2, <2>3
<1> QED
  BY <1>1, <1>2, AccountsRest

LEMMA AccountsStep == AccountsInv /\ [Login!Next]_(Login!vars) => AccountsInv'
<1> SUFFICES ASSUME AccountsInv, [Login!Next]_(Login!vars) PROVE AccountsInv'
  OBVIOUS
<1>1. CASE UNCHANGED <<users, sessions, request>>
  BY <1>1 DEF AccountsInv, OneEach, AboutAccount, UserIds
<1>2. Login!Sweep \/ Login!Tick \/ UNCHANGED Login!vars => UNCHANGED <<users, sessions, request>>
  BY DEF Login!Sweep, Login!Tick, Login!vars
<1> QED
  BY <1>1, <1>2, AccountBegins, AccountCreated, AccountUsed, AccountWritten, AccountSessions
     DEF Login!Next

\* However many processes find the table of users empty, or a phone free, at once, a phone has one
\* account.
THEOREM OneAccountPerPhoneHolds == Login!Spec => []Login!OneAccountPerPhone
<1>1. AccountsInv => Login!OneAccountPerPhone
  BY DEF AccountsInv, OneEach, Login!OneAccountPerPhone
<1> QED
  BY <1>1, InitAccounts, AccountsStep, PTL DEF Login!Spec

-----------------------------------------------------------------------------
(***************************************************************************)
(* Network.  Whatever edits, closures, creations and changes of staff      *)
(* overlap: an edit keeps the status it does not name, sites have codes of *)
(* their own without a gap, a member one role at most.                     *)
(***************************************************************************)

\* A stamp is nobody's or that of a request that is done, so that no request to come has it.
Past == {s \in Net!Requests : request[s].at = "done"} \cup {None}
EditWaits(c) ==
  request[c].at = "edit" =>
    /\ request[c].stamp \in Past
    /\ request[c].stamp = site.stamp /\ ~request[c].named => request[c].accepts = site.accepts
NumberWaits(c) ==
  request[c].at = "create" =>
    request[c].number \in Nat \ {0} /\ 1..(request[c].number - 1) \subseteq Net!Taken

CodesCounted ==
  /\ DOMAIN codes \subseteq {c \in Net!Requests : request[c].at = "done"}
  /\ IsFiniteSet(DOMAIN codes) /\ Net!CodesApart
GrantedOnce == grants = {} \/ \E g : grants = {g}

NetInv ==
  /\ DOMAIN request = Net!Requests
  /\ site \in [status : {site.status}, accepts : {site.accepts}, stamp : {site.stamp}] /\ site.stamp \in Past
  /\ CodesCounted /\ GrantedOnce
  /\ \A c \in Net!Requests : EditWaits(c) /\ NumberWaits(c)

LEMMA NetCounts == \A S : Net!Cardinality(S) = Cardinality(S)
BY DEF Net!Cardinality, Cardinality

LEMMA InitNet == Net!Init => NetInv
<1> SUFFICES ASSUME Net!Init PROVE NetInv
  OBVIOUS
<1>1. DOMAIN codes = {} /\ Net!Taken = {}
  BY DEF Net!Init, Net!Taken
<1>2. IsFiniteSet(DOMAIN codes) /\ Cardinality(DOMAIN codes) = 0 /\ 1..0 = {}
  BY <1>1, FS_EmptySet
<1>3. CodesCounted
  BY <1>1, <1>2, NetCounts DEF CodesCounted, Net!CodesApart
<1> QED
  BY <1>3 DEF Net!Init, Net!Idle, NetInv, GrantedOnce, EditWaits, NumberWaits, Past

LEMMA PastStays ==
  ASSUME NetInv, NEW c \in Net!Requests, NEW what, request[c].at # "done", Net!Then(c, what)
  PROVE  /\ DOMAIN request' = Net!Requests /\ request'[c] = what
         /\ \A d \in Net!Requests : d # c => request'[d] = request[d]
         /\ DOMAIN codes \subseteq {d \in Net!Requests : request'[d].at = "done"} \ {c}
BY DEF NetInv, Net!Then, CodesCounted

LEMMA StillPast ==
  ASSUME SitesAreCounted, NetInv, NEW c \in Net!Requests, NEW what, request[c].at # "done",
         Net!Then(c, what)
  PROVE  Past \subseteq Past' /\ c \notin Past
BY PastStays DEF Past, SitesAreCounted

\* What waits still waits, also when the site is written by the request that goes on.
LEMMA EditsWait ==
  ASSUME SitesAreCounted, NetInv, NEW c \in Net!Requests, NEW what, request[c].at # "done",
         Net!Then(c, what), site' = site \/ site'.stamp = c,
         NEW d \in Net!Requests, d # c
  PROVE  EditWaits(d)'
<1>1. request'[d] = request[d]
  BY PastStays
<1>2. CASE request[d].at = "edit"
  <2>1. request[d].stamp \in Past' /\ request[d].stamp # c
    BY <1>2, StillPast DEF NetInv, EditWaits
  <2> QED
    BY <1>1, <1>2, <2>1 DEF NetInv, EditWaits
<1> QED
  BY <1>1, <1>2 DEF EditWaits

\* A step that leaves the site, the codes and the grants alone.
LEMMA NetAtRest ==
  ASSUME SitesAreCounted, NetInv, NEW c \in Net!Requests, NEW what, request[c].at # "done",
         Net!Then(c, what), EditWaits(c)', NumberWaits(c)',
         UNCHANGED <<site, codes, grants>>
  PROVE  NetInv'
<1>1. ASSUME NEW d \in Net!Requests PROVE EditWaits(d)' /\ NumberWaits(d)'
  BY EditsWait, PastStays DEF NetInv, NumberWaits, Net!Taken
<1>2. site'.stamp \in Past'
  BY StillPast DEF NetInv
<1>3. CodesCounted' /\ GrantedOnce'
  BY PastStays DEF NetInv, CodesCounted, GrantedOnce, Net!CodesApart, Net!Taken
<1> QED
  BY <1>1, <1>2, <1>3, PastStays DEF NetInv

\* A step that writes the site.
LEMMA NetWrites ==
  ASSUME SitesAreCounted, NetInv, NEW c \in Net!Requests, request[c].at # "done",
         Net!Then(c, Net!Done), UNCHANGED <<codes, grants>>, NEW s, NEW a,
         site' = site \/ site' = [status |-> s, accepts |-> a, stamp |-> c]
  PROVE  NetInv'
<1>0. Net!Done.at = "done"
  BY DEF Net!Done
<1>1. site' = site \/ site'.stamp = c
  OBVIOUS
<1>2. ASSUME NEW d \in Net!Requests PROVE EditWaits(d)' /\ NumberWaits(d)'
  <2>1. CASE d = c
    BY <1>0, <2>1, PastStays DEF EditWaits, NumberWaits
  <2>2. CASE d # c
    BY <1>1, <2>2, EditsWait, PastStays DEF NetInv, NumberWaits, Net!Taken
  <2> QED
    BY <2>1, <2>2
<1>3. site'.stamp \in Past'
  <2>1. CASE site' = site
    BY <2>1, StillPast DEF NetInv
  <2>2. CASE site'.stamp = c
    BY <1>0, <2>2, PastStays DEF Past
  <2> QED
    BY <1>1, <2>1, <2>2
<1>4. CodesCounted'
  BY PastStays DEF NetInv, CodesCounted, Net!CodesApart, Net!Taken
<1>5. site' \in [status : {site'.status}, accepts : {site'.accepts}, stamp : {site'.stamp}]
  BY DEF NetInv
<1> QED
  BY <1>2, <1>3, <1>4, <1>5, PastStays DEF NetInv, GrantedOnce

\* A step that begins or ends something else.
LEMMA NetCalls ==
  ASSUME SitesAreCounted, NetInv, NEW c \in Net!Requests, NEW what, request[c].at # "done",
         Net!Then(c, what), what.at \notin {"edit", "create"}, UNCHANGED <<site, codes, grants>>
  PROVE  NetInv'
BY NetAtRest, PastStays DEF EditWaits, NumberWaits

LEMMA NetEdits ==
  ASSUME SitesAreCounted, NetInv, NEW c \in Net!Requests,
         Net!EditRead(c) \/ Net!Edit(c) \/ Net!SetStatus(c) \/ Net!CountOrder(c)
  PROVE  NetInv'
<1>1. CASE Net!EditRead(c)
  <2>1. PICK a \in BOOLEAN, named \in BOOLEAN :
          /\ ~named => a = site.accepts
          /\ Net!Begin(c, [at |-> "edit", accepts |-> a, named |-> named, stamp |-> site.stamp])
    BY <1>1 DEF Net!EditRead
  <2> DEFINE what == [at |-> "edit", accepts |-> a, named |-> named, stamp |-> site.stamp]
  <2>2. Net!Then(c, what) /\ request[c].at # "done"
    BY <2>1 DEF Net!Begin, Net!Idle
  <2>3. what.at = "edit" /\ what.stamp = site.stamp /\ (~what.named => what.accepts = site.accepts)
    BY <2>1
  <2>4. site' = site /\ codes' = codes /\ grants' = grants
    BY <1>1 DEF Net!EditRead
  <2> HIDE DEF what
  <2>5. request'[c] = what /\ site.stamp \in Past'
    BY <2>2, PastStays, StillPast DEF NetInv
  <2>6. EditWaits(c)' /\ NumberWaits(c)'
    BY <2>3, <2>4, <2>5 DEF EditWaits, NumberWaits
  <2> QED
    BY <2>2, <2>4, <2>6, NetAtRest
<1>2. CASE Net!Edit(c)
  <2>1. /\ request[c].at # "done" /\ Net!Then(c, Net!Done) /\ UNCHANGED <<codes, grants>>
        /\ site' = site \/ site' = [site EXCEPT !.accepts = request[c].accepts, !.stamp = c]
    BY <1>2 DEF Net!Edit
  <2>2. site' = site \/ site' = [status |-> site.status, accepts |-> request[c].accepts, stamp |-> c]
    BY <2>1 DEF NetInv
  <2> QED
    BY <2>1, <2>2, NetWrites
<1>3. CASE Net!SetStatus(c)
  <2>1. /\ request[c].at # "done" /\ Net!Then(c, Net!Done) /\ UNCHANGED <<codes, grants>>
        /\ \E s, a : site' = site \/ site' = [status |-> s, accepts |-> a, stamp |-> c]
    BY <1>3 DEF Net!SetStatus
  <2> QED
    BY <2>1, NetWrites
<1>4. CASE Net!CountOrder(c)
  <2>1. /\ request[c].at # "done" /\ Net!Then(c, Net!Done) /\ UNCHANGED <<codes, grants>>
        /\ site' = [site EXCEPT !.stamp = c]
    BY <1>4 DEF Net!CountOrder, Net!Begin, Net!Idle
  <2>2. site' = [status |-> site.status, accepts |-> site.accepts, stamp |-> c]
    BY <2>1 DEF NetInv
  <2> QED
    BY <2>1, <2>2, NetWrites
<1> QED
  BY <1>1, <1>2, <1>3, <1>4

\* The number that was free when it was read is the next one, or no longer free.
LEMMA NetCreates ==
  ASSUME SitesAreCounted, NetInv, NEW c \in Net!Requests, Net!CreateRead(c) \/ Net!Create(c)
  PROVE  NetInv'
<1>1. CASE Net!CreateRead(c)
  <2>1. PICK n \in Net!Unused : Net!Begin(c, [at |-> "create", number |-> n])
    BY <1>1 DEF Net!CreateRead
  <2>2. n \in Nat \ {0} /\ 1..(n - 1) \subseteq Net!Taken
    BY DEF Net!Unused, SitesAreCounted
  <2> DEFINE what == [at |-> "create", number |-> n]
  <2>3. Net!Then(c, what) /\ request[c].at # "done" /\ what.at = "create" /\ what.number = n
    BY <2>1 DEF Net!Begin, Net!Idle
  <2>4. site' = site /\ codes' = codes /\ grants' = grants
    BY <1>1 DEF Net!CreateRead
  <2> HIDE DEF what
  <2>5. EditWaits(c)' /\ NumberWaits(c)'
    BY <2>2, <2>3, <2>4, PastStays DEF EditWaits, NumberWaits, Net!Taken
  <2> QED
    BY <2>3, <2>4, <2>5, NetAtRest
<1>2. CASE Net!Create(c)
  <2> DEFINE n == request[c].number
  <2>1. /\ request[c].at = "create" /\ Net!Then(c, Net!Done) /\ UNCHANGED <<site, grants>>
        /\ Net!Done.at = "done"
    BY <1>2 DEF Net!Create, Net!Done
  <2>2. CASE ~Net!CodeFree(c)
    BY <1>2, <2>1, <2>2, NetCalls DEF Net!Create
  <2>3. CASE Net!CodeFree(c)
    <3>1. c \notin DOMAIN codes
      BY <2>1 DEF NetInv, CodesCounted
    <3>2. /\ DOMAIN codes' = DOMAIN codes \cup {c} /\ codes'[c] = n
          /\ \A d \in DOMAIN codes : codes'[d] = codes[d]
      BY <1>2, <2>3, <3>1 DEF Net!Create
    <3>3. Net!Taken' = Net!Taken \cup {n}
      BY <3>1, <3>2 DEF Net!Taken
    <3>4. /\ IsFiniteSet(DOMAIN codes') /\ Cardinality(DOMAIN codes) \in Nat
          /\ Cardinality(DOMAIN codes') = Cardinality(DOMAIN codes) + 1
      BY <3>1, <3>2, FS_AddElement, FS_CardinalityType DEF NetInv, CodesCounted
    <3>5. n \in Nat \ {0} /\ 1..(n - 1) \subseteq Net!Taken /\ n \notin Net!Taken
      BY <2>1, <2>3 DEF NetInv, NumberWaits, Net!CodeFree
    <3>6. Net!Taken = 1..Cardinality(DOMAIN codes)
      BY NetCounts DEF NetInv, CodesCounted, Net!CodesApart
    <3> DEFINE k == Cardinality(DOMAIN codes)
    <3> HIDE DEF n, k
    <3>7. n = k + 1
      <4>1. n \notin 1..k /\ k \in Nat /\ n \in Nat \ {0} /\ 1..(n - 1) \subseteq 1..k
        BY <3>4, <3>5, <3>6 DEF k
      <4>2. n > k
        BY <4>1
      <4>3. CASE n = 1
        BY <4>1, <4>2, <4>3
      <4>4. CASE n # 1
        <5>1. n - 1 \in 1..(n - 1)
          BY <4>1, <4>4
        <5> QED
          BY <4>1, <4>2, <5>1
      <4> QED
        BY <4>3, <4>4
    <3>8. Net!Taken' = 1..Cardinality(DOMAIN codes')
      BY <3>3, <3>4, <3>6, <3>7 DEF k
    <3>9. \A d \in DOMAIN codes : codes[d] # n
      BY <3>5 DEF Net!Taken
    <3>10. \A d, e \in DOMAIN codes' : codes'[d] = codes'[e] => d = e
      BY <3>2, <3>9 DEF NetInv, CodesCounted, Net!CodesApart
    <3>11. CodesCounted'
      <4>1. DOMAIN codes' \subseteq {d \in Net!Requests : request'[d].at = "done"}
        BY <2>1, <3>2, PastStays
      <4> QED
        BY <3>4, <3>8, <3>10, <4>1, NetCounts DEF CodesCounted, Net!CodesApart
    <3>12. ASSUME NEW d \in Net!Requests PROVE EditWaits(d)' /\ NumberWaits(d)'
      <4>1. CASE d = c
        BY <2>1, <4>1, PastStays DEF EditWaits, NumberWaits
      <4>2. CASE d # c
        BY <2>1, <3>3, <4>2, EditsWait, PastStays DEF NetInv, NumberWaits
      <4> QED
        BY <4>1, <4>2
    <3>13. site'.stamp \in Past' /\ GrantedOnce'
      BY <2>1, StillPast DEF NetInv, GrantedOnce
    <3> QED
      BY <2>1, <3>11, <3>12, <3>13, PastStays DEF NetInv
  <2> QED
    BY <2>2, <2>3
<1> QED
  BY <1>1, <1>2

\* A change of role keeps the grant of that role, or makes it.
LEMMA NetGrants ==
  ASSUME SitesAreCounted, NetInv, NEW c \in Net!Requests,
         Net!Invite(c) \/ Net!UpdateMember(c) \/ Net!Leave(c)
  PROVE  NetInv'
<1>1. /\ request[c].at # "done" /\ Net!Then(c, Net!Done) /\ UNCHANGED <<site, codes>>
      /\ Net!Done.at = "done"
  BY DEF Net!Invite, Net!UpdateMember, Net!Leave, Net!Done
<1>2. GrantedOnce'
  <2>1. CASE Net!Invite(c)
    BY <2>1 DEF Net!Invite, NetInv, GrantedOnce
  <2>2. CASE Net!UpdateMember(c)
    BY <2>2 DEF Net!UpdateMember, Net!Granted, NetInv, GrantedOnce
  <2>3. CASE Net!Leave(c)
    BY <2>3 DEF Net!Leave, GrantedOnce
  <2> QED
    BY <2>1, <2>2, <2>3
<1>3. ASSUME NEW d \in Net!Requests PROVE EditWaits(d)' /\ NumberWaits(d)'
  <2>1. CASE d = c
    BY <1>1, <2>1, PastStays DEF EditWaits, NumberWaits
  <2>2. CASE d # c
    BY <1>1, <2>2, EditsWait, PastStays DEF NetInv, NumberWaits, Net!Taken
  <2> QED
    BY <2>1, <2>2
<1>4. site'.stamp \in Past' /\ CodesCounted'
  BY <1>1, StillPast, PastStays DEF NetInv, CodesCounted, Net!CodesApart, Net!Taken
<1> QED
  BY <1>1, <1>2, <1>3, <1>4, PastStays DEF NetInv

LEMMA NetStarts ==
  ASSUME SitesAreCounted, NetInv, NEW c \in Net!Requests,
         \/ Net!StatusRead(c) \/ Net!AddClosure(c) \/ Net!InviteRead(c) \/ Net!MemberRead(c)
         \/ Net!LeaveRead(c)
  PROVE  NetInv'
<1>1. site' = site /\ codes' = codes /\ grants' = grants
  BY DEF Net!StatusRead, Net!AddClosure, Net!InviteRead, Net!MemberRead, Net!LeaveRead
<1>2. \E what : Net!Begin(c, what) /\ what.at \in {"status", "done", "invite", "member", "leave"}
  <2>1. CASE Net!StatusRead(c)
    BY <2>1 DEF Net!StatusRead
  <2>2. CASE Net!AddClosure(c)
    BY <2>2 DEF Net!AddClosure, Net!Done
  <2>3. CASE Net!InviteRead(c)
    BY <2>3 DEF Net!InviteRead
  <2>4. CASE Net!MemberRead(c)
    BY <2>4 DEF Net!MemberRead
  <2>5. CASE Net!LeaveRead(c)
    BY <2>5 DEF Net!LeaveRead
  <2> QED
    BY <2>1, <2>2, <2>3, <2>4, <2>5
<1> QED
  BY <1>1, <1>2, NetCalls DEF Net!Begin, Net!Idle

LEMMA NetStep == SitesAreCounted /\ NetInv /\ [Net!Next]_(Net!vars) => NetInv'
<1> SUFFICES ASSUME SitesAreCounted, NetInv, [Net!Next]_(Net!vars) PROVE NetInv'
  OBVIOUS
<1>1. CASE UNCHANGED Net!vars
  BY <1>1 DEF Net!vars, NetInv, CodesCounted, GrantedOnce, Net!CodesApart, Net!Taken, EditWaits,
     NumberWaits, Past
<1> QED
  BY <1>1, NetEdits, NetCreates, NetGrants, NetStarts DEF Net!Next

LEMMA NetHolds == ASSUME SitesAreCounted PROVE Net!Spec => []NetInv
<1>1. NetInv /\ [Net!Next]_(Net!vars) => NetInv'
  BY NetStep
<1> QED
  BY <1>1, InitNet, PTL DEF Net!Spec

\* Two sites never share a code and their numbers leave no gap, although the number is looked up
\* before the site is there.
THEOREM CodesApartHolds == ASSUME SitesAreCounted PROVE Net!Spec => []Net!CodesApart
<1>1. NetInv => Net!CodesApart
  BY DEF NetInv, CodesCounted
<1> QED
  BY <1>1, NetHolds, PTL

\* Edits of one member that overlap leave his account with one role at most.
THEOREM OneRoleHolds == ASSUME SitesAreCounted PROVE Net!Spec => []Net!OneRole
<1>1. ASSUME NEW g PROVE Cardinality({g}) = 1
  BY FS_Singleton
<1>2. Cardinality({}) = 0
  BY FS_EmptySet
<1>3. NetInv => Cardinality(grants) \in {0, 1}
  BY <1>1, <1>2 DEF NetInv, GrantedOnce
<1>4. NetInv => Net!OneRole
  BY <1>3, NetCounts DEF Net!OneRole
<1> QED
  BY <1>4, NetHolds, PTL

\* Who edits without saying so leaves the site as it is: what it writes back is what is there.
LEMMA SiteEditsKeep ==
  ASSUME NetInv, [Net!Next]_(Net!vars)
  PROVE  Net!EditsKeepStatus
<1> SUFFICES ASSUME NEW c \in Net!Requests, request[c].at = "edit", request'[c] = Net!Done,
                    ~request[c].named
             PROVE  site'.accepts = site.accepts
  BY DEF Net!EditsKeepStatus
<1>1. Net!Done.at = "done"
  BY DEF Net!Done
<1>2. ASSUME NEW d \in Net!Requests, request[d].at # "edit", NEW what, Net!Then(d, what)
      PROVE  FALSE
  BY <1>1, <1>2 DEF Net!Then, NetInv
<1>3. ASSUME Net!Edit(c) PROVE site'.accepts = site.accepts
  <2>1. CASE Net!EditWins(c)
    <3>1. request[c].accepts = site.accepts
      BY <2>1 DEF NetInv, EditWaits, Net!EditWins
    <3> QED
      BY <1>3, <2>1, <3>1 DEF Net!Edit, NetInv
  <2>2. CASE ~Net!EditWins(c)
    BY <1>3, <2>2 DEF Net!Edit
  <2> QED
    BY <2>1, <2>2
<1>4. ASSUME NEW d \in Net!Requests, Net!Edit(d) PROVE site'.accepts = site.accepts
  <2>1. d = c
    BY <1>1, <1>4 DEF Net!Edit, Net!Then, NetInv
  <2> QED
    BY <1>3, <1>4, <2>1
<1>5. UNCHANGED Net!vars => site'.accepts = site.accepts
  BY DEF Net!vars
<1>6. ASSUME NEW d \in Net!Requests,
             \/ Net!EditRead(d) \/ Net!StatusRead(d) \/ Net!CountOrder(d) \/ Net!AddClosure(d)
             \/ Net!CreateRead(d) \/ Net!InviteRead(d) \/ Net!MemberRead(d) \/ Net!LeaveRead(d)
      PROVE  FALSE
  <2>1. \E what : Net!Begin(d, what)
    BY <1>6 DEF Net!EditRead, Net!StatusRead, Net!CountOrder, Net!AddClosure, Net!CreateRead,
       Net!InviteRead, Net!MemberRead, Net!LeaveRead
  <2> QED
    BY <1>2, <2>1 DEF Net!Begin, Net!Idle
<1>7. ASSUME NEW d \in Net!Requests,
             \/ Net!SetStatus(d) \/ Net!Create(d) \/ Net!Invite(d) \/ Net!UpdateMember(d)
             \/ Net!Leave(d)
      PROVE  FALSE
  BY <1>2, <1>7 DEF Net!SetStatus, Net!Create, Net!Invite, Net!UpdateMember, Net!Leave
<1> QED
  BY <1>4, <1>5, <1>6, <1>7 DEF Net!Next

\* An edit of a site that says nothing of it never opens a site again that somebody closed.
THEOREM EditsKeepStatusHolds ==
  ASSUME SitesAreCounted PROVE Net!Spec => [][Net!EditsKeepStatus]_(Net!vars)
<1>1. NetInv /\ [Net!Next]_(Net!vars) => [Net!EditsKeepStatus]_(Net!vars)
  BY SiteEditsKeep
<1> QED
  BY <1>1, NetHolds, PTL DEF Net!Spec

-----------------------------------------------------------------------------
(***************************************************************************)
(* PersonalData.  Whatever orders, erasures and lists overlap: what was    *)
(* erased comes back only with a later order, in the profile and in the    *)
(* order's details alike, and no list goes out that is not in the log.     *)
(***************************************************************************)

PersonShape(p) ==
  p \in [status : {p.status}, user : {p.user}, named : {p.named}, phone : {p.phone}]
TicketShape(o) ==
  o \in [customer : {o.customer}, named : BOOLEAN, details : BOOLEAN] /\ o.named = o.details
ListShape(w) == w.at \in {"list", "log"} => w \in [at : {"list", "log"}, shown : {w.shown}]

\* Who is erased and has his name or number again has ordered since.
Returned(p) ==
  customers[p].status = "deleted" /\ (customers[p].named \/ customers[p].phone) =>
    \E o \in DOMAIN orders : orders[o].customer = p /\ orders[o].named
ReadOf(c) == ListShape(request[c]) /\ (request[c].at = "answered" => c \in logged)

PrivacyInv ==
  /\ DOMAIN request = Secret!Requests
  /\ DOMAIN orders \subseteq {c \in Secret!Requests : request[c].at = "done"}
  /\ \A o \in DOMAIN orders : TicketShape(orders[o])
  /\ \A p \in DOMAIN customers : PersonShape(customers[p]) /\ Returned(p)
  /\ \A c \in Secret!Requests : ReadOf(c)

LEMMA InitPrivacy == Secret!Init => PrivacyInv
BY DEF Secret!Init, Secret!Idle, PrivacyInv, ReadOf, ListShape

\* One request goes on, and what it becomes is a list that is logged before it is answered.
ReadsOn(c, what) ==
  /\ c \in Secret!Requests /\ request[c].at # "done" /\ Secret!Then(c, what)
  /\ ListShape(what) /\ (what.at = "answered" => c \in logged')
  /\ logged \subseteq logged'

LEMMA ReadsStay ==
  ASSUME PrivacyInv, NEW c, NEW what, ReadsOn(c, what)
  PROVE  /\ DOMAIN request' = Secret!Requests /\ request'[c] = what
         /\ DOMAIN orders \subseteq {d \in Secret!Requests : request'[d].at = "done"} \ {c}
         /\ \A d \in Secret!Requests : ReadOf(d)'
<1>1. /\ DOMAIN request' = Secret!Requests /\ request'[c] = what /\ c \in Secret!Requests
      /\ \A d \in Secret!Requests : d # c => request'[d] = request[d]
  BY DEF PrivacyInv, ReadsOn, Secret!Then
<1>2. ASSUME NEW d \in Secret!Requests PROVE ReadOf(d)'
  BY <1>1 DEF PrivacyInv, ReadsOn, ReadOf
<1> QED
  BY <1>1, <1>2 DEF PrivacyInv, ReadsOn

\* A step that leaves the orders and the customers alone.
LEMMA PrivacyAtRest ==
  ASSUME PrivacyInv, NEW c, NEW what, ReadsOn(c, what), UNCHANGED <<orders, customers>>
  PROVE  PrivacyInv'
BY ReadsStay DEF PrivacyInv, Returned

LEMMA BeginReads ==
  ASSUME PrivacyInv, NEW c \in Secret!Requests, NEW what, Secret!Begin(c, what), UNCHANGED logged,
         what.at \notin {"list", "log", "answered"}
  PROVE  ReadsOn(c, what)
BY DEF Secret!Begin, Secret!Idle, ReadsOn, ListShape

LEMMA PrivacyRegister ==
  ASSUME PrivacyInv, NEW c \in Secret!Requests, Secret!Register(c)
  PROVE  PrivacyInv'
<1>1. ReadsOn(c, Secret!Done) /\ orders' = orders
  <2>1. Secret!Begin(c, Secret!Done) /\ orders' = orders /\ UNCHANGED logged
    BY DEF Secret!Register
  <2>2. Secret!Done.at = "done"
    BY DEF Secret!Done
  <2> QED
    BY <2>1, <2>2, BeginReads
<1>2. PICK p \in DOMAIN customers :
        customers[p].status = "active" /\ customers' = [customers EXCEPT ![p].user = p]
  BY DEF Secret!Register
<1>3. /\ DOMAIN customers' = DOMAIN customers
      /\ \A q \in DOMAIN customers : q # p => customers'[q] = customers[q]
      /\ customers'[p] = [customers[p] EXCEPT !.user = p]
  BY <1>2
<1>4. PersonShape(customers'[p]) /\ customers'[p].status = "active"
  BY <1>2, <1>3 DEF PrivacyInv, PersonShape
<1>5. ASSUME NEW q \in DOMAIN customers PROVE PersonShape(customers'[q]) /\ Returned(q)'
  <2>1. CASE q = p
    BY <1>4, <2>1 DEF Returned
  <2>2. CASE q # p
    BY <1>1, <1>3, <2>2 DEF PrivacyInv, Returned
  <2> QED
    BY <2>1, <2>2
<1> QED
  BY <1>1, <1>3, <1>5, ReadsStay DEF PrivacyInv

\* Who orders is named in the order too.
LEMMA PrivacyOrder ==
  ASSUME PrivacyInv, NEW c \in Secret!Requests, Secret!OrderBatch(c)
  PROVE  PrivacyInv'
<1> DEFINE p == request[c].phone
           row == [customer |-> p, named |-> TRUE, details |-> TRUE]
<1>1. ReadsOn(c, Secret!Done) /\ Secret!Done.at = "done"
  BY DEF Secret!OrderBatch, Secret!Done, ReadsOn, ListShape
<1>2. c \notin DOMAIN orders
  BY DEF PrivacyInv, Secret!OrderBatch
<1>3. /\ DOMAIN orders' = DOMAIN orders \cup {c} /\ orders'[c] = row
      /\ \A o \in DOMAIN orders : orders'[o] = orders[o]
  BY <1>2 DEF Secret!OrderBatch, Secret!With
<1>4. /\ DOMAIN customers' = DOMAIN customers \cup {p} /\ customers'[p] = Secret!Profile(c)
      /\ \A q \in DOMAIN customers : q # p => customers'[q] = customers[q]
  BY DEF Secret!OrderBatch, Secret!With
<1>5. PersonShape(Secret!Profile(c))
  BY DEF Secret!Profile, PrivacyInv, PersonShape
<1>6. TicketShape(row) /\ row.customer = p /\ row.named
  BY DEF TicketShape
<1> HIDE DEF row, p
<1>7. ASSUME NEW q \in DOMAIN customers' PROVE PersonShape(customers'[q]) /\ Returned(q)'
  <2>1. CASE q = p
    BY <1>3, <1>4, <1>5, <1>6, <2>1 DEF Returned
  <2>2. CASE q # p
    BY <1>3, <1>4, <2>2 DEF PrivacyInv, Returned
  <2> QED
    BY <2>1, <2>2
<1>8. \A o \in DOMAIN orders' : TicketShape(orders'[o])
  BY <1>3, <1>6 DEF PrivacyInv
<1> QED
  BY <1>1, <1>3, <1>7, <1>8, ReadsStay DEF PrivacyInv

\* An erasure takes the name out of the orders it takes it out of the profile for, and no others.
LEMMA PrivacyErase ==
  ASSUME PrivacyInv, NEW c \in Secret!Requests, Secret!EraseBatch(c)
  PROVE  PrivacyInv'
<1> DEFINE p == request[c].phone
<1>1. ReadsOn(c, Secret!Done) /\ Secret!Done.at = "done"
  BY DEF Secret!EraseBatch, Secret!Done, ReadsOn, ListShape
<1>2. /\ DOMAIN orders' = DOMAIN orders
      /\ \A o \in DOMAIN orders :
           orders'[o] = IF orders[o].customer = p THEN Secret!Erased(orders[o]) ELSE orders[o]
  BY DEF Secret!EraseBatch
<1>3. ASSUME NEW o \in DOMAIN orders
      PROVE  TicketShape(Secret!Erased(orders[o]))
  BY DEF PrivacyInv, TicketShape, Secret!Erased
<1>4. \A o \in DOMAIN orders' : TicketShape(orders'[o])
  BY <1>2, <1>3 DEF PrivacyInv
<1>5. /\ DOMAIN customers' = DOMAIN customers
      /\ \A q \in DOMAIN customers : q # p => customers'[q] = customers[q]
      /\ p \in DOMAIN customers =>
           customers'[p] = [customers[p] EXCEPT !.status = "deleted", !.named = FALSE, !.phone = FALSE]
  BY DEF Secret!EraseBatch
<1>6. p \in DOMAIN customers =>
        PersonShape(customers'[p]) /\ ~customers'[p].named /\ ~customers'[p].phone
  BY <1>5 DEF PrivacyInv, PersonShape
<1> HIDE DEF p
<1>7. ASSUME NEW q \in DOMAIN customers PROVE PersonShape(customers'[q]) /\ Returned(q)'
  <2>1. CASE q = p
    BY <1>6, <2>1 DEF Returned
  <2>2. CASE q # p
    BY <1>2, <1>5, <2>2 DEF PrivacyInv, Returned
  <2> QED
    BY <2>1, <2>2
<1> QED
  BY <1>1, <1>2, <1>4, <1>5, <1>7, ReadsStay DEF PrivacyInv

LEMMA PrivacyLists ==
  ASSUME PrivacyInv, NEW c \in Secret!Requests,
         Secret!ListRead(c) \/ Secret!ListLog(c) \/ Secret!ListAnswer(c)
  PROVE  PrivacyInv'
<1>1. CASE Secret!ListRead(c)
  <2>1. PICK shown : Secret!Begin(c, [at |-> "list", shown |-> shown])
    BY <1>1 DEF Secret!ListRead
  <2>2. ReadsOn(c, [at |-> "list", shown |-> shown])
    BY <1>1, <2>1 DEF Secret!ListRead, Secret!Begin, Secret!Idle, ReadsOn, ListShape
  <2> QED
    BY <1>1, <2>2, PrivacyAtRest DEF Secret!ListRead
<1>2. CASE Secret!ListLog(c)
  <2> DEFINE w == [request[c] EXCEPT !.at = "log"]
  <2>1. w \in [at : {"log"}, shown : {request[c].shown}]
    BY <1>2 DEF Secret!ListLog, PrivacyInv, ReadOf, ListShape
  <2>2. ListShape(w) /\ w.at = "log"
    BY <2>1 DEF ListShape
  <2>3. Secret!Then(c, w) /\ request[c].at = "list" /\ logged \subseteq logged'
    BY <1>2 DEF Secret!ListLog
  <2> HIDE DEF w
  <2>4. ReadsOn(c, w)
    BY <2>2, <2>3 DEF ReadsOn
  <2> QED
    BY <1>2, <2>4, PrivacyAtRest DEF Secret!ListLog
<1>3. CASE Secret!ListAnswer(c)
  <2> DEFINE w == [request[c] EXCEPT !.at = "answered"]
             what == IF Secret!LogFirst(c) THEN w ELSE Secret!Done
  <2>1. w \in [at : {"answered"}, shown : {request[c].shown}]
    BY <1>3 DEF Secret!ListAnswer, PrivacyInv, ReadOf, ListShape
  <2>2. Secret!Then(c, what) /\ request[c].at = "log" /\ logged = logged'
    BY <1>3 DEF Secret!ListAnswer
  <2>3. ListShape(what) /\ (what.at = "answered" => c \in logged)
    BY <2>1 DEF ListShape, Secret!Done, Secret!LogFirst
  <2> HIDE DEF w, what
  <2>4. ReadsOn(c, what)
    BY <2>2, <2>3 DEF ReadsOn
  <2> QED
    BY <1>3, <2>4, PrivacyAtRest DEF Secret!ListAnswer
<1> QED
  BY <1>1, <1>2, <1>3

LEMMA PrivacyStep == PrivacyInv /\ [Secret!Next]_(Secret!vars) => PrivacyInv'
<1> SUFFICES ASSUME PrivacyInv, [Secret!Next]_(Secret!vars) PROVE PrivacyInv'
  OBVIOUS
<1>1. CASE UNCHANGED Secret!vars
  BY <1>1 DEF Secret!vars, PrivacyInv, Returned, ReadOf
<1>2. ASSUME NEW c \in Secret!Requests, Secret!SaveAddress(c) PROVE PrivacyInv'
  <2>1. ReadsOn(c, Secret!Done)
    BY <1>2, BeginReads DEF Secret!SaveAddress, Secret!Done
  <2> QED
    BY <1>2, <2>1, PrivacyAtRest DEF Secret!SaveAddress
<1>3. ASSUME NEW c \in Secret!Requests, Secret!OrderRead(c) PROVE PrivacyInv'
  <2>1. PICK p, b, k : Secret!Begin(c, [at |-> "order", phone |-> p, signedIn |-> b, known |-> k])
    BY <1>3 DEF Secret!OrderRead
  <2>2. ReadsOn(c, [at |-> "order", phone |-> p, signedIn |-> b, known |-> k])
    BY <1>3, <2>1, BeginReads DEF Secret!OrderRead
  <2> QED
    BY <1>3, <2>2, PrivacyAtRest DEF Secret!OrderRead
<1>4. ASSUME NEW c \in Secret!Requests, Secret!EraseRead(c) PROVE PrivacyInv'
  <2>1. PICK p, u : Secret!Begin(c, [at |-> "erase", phone |-> p, user |-> u])
    BY <1>4 DEF Secret!EraseRead
  <2>2. ReadsOn(c, [at |-> "erase", phone |-> p, user |-> u])
    BY <1>4, <2>1, BeginReads DEF Secret!EraseRead
  <2> QED
    BY <1>4, <2>2, PrivacyAtRest DEF Secret!EraseRead
<1>5. ASSUME NEW c \in Secret!Requests, Secret!Die(c) PROVE PrivacyInv'
  <2>1. ReadsOn(c, Secret!Done)
    BY <1>5 DEF Secret!Die, Secret!Done, ReadsOn, ListShape
  <2> QED
    BY <1>5, <2>1, PrivacyAtRest DEF Secret!Die
<1> QED
  BY <1>1, <1>2, <1>3, <1>4, <1>5, PrivacyRegister, PrivacyOrder, PrivacyErase, PrivacyLists
     DEF Secret!Next

LEMMA PrivacyHolds == Secret!Spec => []PrivacyInv
BY InitPrivacy, PrivacyStep, PTL DEF Secret!Spec

\* Personal data comes back to an erased profile only with a later order of the same person, and
\* an order and its details lose it together, whatever was read before the erasure.
THEOREM ErasedStaysErasedHolds == Secret!Spec => []Secret!ErasedStaysErased
<1>1. PrivacyInv => Secret!ErasedStaysErased
  BY DEF PrivacyInv, TicketShape, Returned, Secret!ErasedStaysErased
<1> QED
  BY <1>1, PrivacyHolds, PTL

\* Whoever has received a list with personal data is in the log, though the log may refuse the row.
THEOREM AnsweredIsLoggedHolds == Secret!Spec => []Secret!AnsweredIsLogged
<1>1. PrivacyInv => Secret!AnsweredIsLogged
  BY DEF PrivacyInv, ReadOf, Secret!AnsweredIsLogged
<1> QED
  BY <1>1, PrivacyHolds, PTL

-----------------------------------------------------------------------------
(***************************************************************************)
(* Settings.  A copy is dated when its answer came, a tick at most after   *)
(* it was read, and is served for TTL ticks from then.                     *)
(***************************************************************************)

\* The row stood for this value at a moment of a tick between the two.
InForce(row, from, to) ==
  \E t \in Tiers!Times : from <= t /\ t <= to /\ Tiers!Valued(row) \in past[t]

LoadIsFresh(p) ==
  request[p].at = "store" =>
    /\ request[p].begun \in Tiers!Times /\ now - 1 <= request[p].begun /\ request[p].begun <= now
    /\ Tiers!Valued(request[p].row) \in past[request[p].begun]
CopyIsDated(p) ==
  cache[p] # None =>
    /\ cache[p].at \in Tiers!Times /\ cache[p].at <= now
    /\ InForce(cache[p].row, cache[p].at - 1, cache[p].at)

SettingsInv ==
  /\ DOMAIN request = Processes /\ DOMAIN cache = Processes /\ DOMAIN past = Tiers!Times
  /\ now \in Tiers!Times /\ Tiers!Valued(stored) \in past[now]
  /\ \A p \in Processes : LoadIsFresh(p) /\ CopyIsDated(p)
  /\ served.at \in Tiers!Times /\ served.at <= now /\ Tiers!StaleAtMostTTL

LEMMA InitSettings == SettingsAreTimed /\ Tiers!Init => SettingsInv
<1> SUFFICES ASSUME SettingsAreTimed, Tiers!Init PROVE SettingsInv
  OBVIOUS
<1>1. 0 \in Tiers!Times /\ past[0] = {Default["tiers"]} /\ DOMAIN past = Tiers!Times /\ now = 0
  BY DEF Tiers!Init, Tiers!Times, SettingsAreTimed
<1>2. served.at = 0 /\ served.value = Default["tiers"] /\ Tiers!Valued(stored) = Default["tiers"]
  BY DEF Tiers!Init, Tiers!Valued
<1>3. Tiers!StaleAtMostTTL
  BY <1>1, <1>2 DEF Tiers!StaleAtMostTTL, SettingsAreTimed
<1> QED
  BY <1>1, <1>2, <1>3 DEF Tiers!Init, Tiers!Idle, SettingsInv, LoadIsFresh, CopyIsDated

\* What was in force at a tick stays on record.
Remembered == \A t \in Tiers!Times : t <= now => past[t] \subseteq past'[t]

LEMMA LoadStaysFresh ==
  ASSUME SettingsAreTimed, SettingsInv, Remembered, now' = now,
         NEW p \in Processes, request'[p] = request[p]
  PROVE  LoadIsFresh(p)'
BY DEF SettingsInv, Remembered, LoadIsFresh, Tiers!Times, Tiers!Valued

LEMMA CopyStaysDated ==
  ASSUME SettingsAreTimed, SettingsInv, Remembered, now' \in Tiers!Times, now <= now',
         NEW p \in Processes, cache'[p] = cache[p]
  PROVE  CopyIsDated(p)'
<1> SUFFICES ASSUME cache[p] # None PROVE CopyIsDated(p)'
  BY DEF CopyIsDated
<1>1. PICK t \in Tiers!Times : /\ cache[p].at - 1 <= t /\ t <= cache[p].at /\ cache[p].at <= now
                               /\ Tiers!Valued(cache[p].row) \in past[t] /\ cache[p].at \in Tiers!Times
  BY DEF SettingsInv, CopyIsDated, InForce
<1>2. t <= now /\ cache[p].at <= now' /\ now \in Tiers!Times
  BY <1>1 DEF SettingsInv, Tiers!Times, SettingsAreTimed
<1>3. Tiers!Valued(cache[p].row) \in past'[t]
  BY <1>1, <1>2 DEF Remembered
<1> QED
  BY <1>1, <1>2, <1>3 DEF CopyIsDated, InForce, Tiers!Valued

LEMMA ServedStays ==
  ASSUME SettingsAreTimed, SettingsInv, Remembered, now' \in Tiers!Times, now <= now', served' = served
  PROVE  served'.at <= now' /\ Tiers!StaleAtMostTTL'
<1>1. PICK t \in Tiers!Times : served.at - TTL <= t /\ t <= served.at /\ served.value \in past[t]
  BY DEF SettingsInv, Tiers!StaleAtMostTTL
<1>2. t <= now /\ served.at <= now'
  BY <1>1 DEF SettingsInv, Tiers!Times, SettingsAreTimed
<1> QED
  BY <1>1, <1>2 DEF Remembered, Tiers!StaleAtMostTTL

LEMMA Loads ==
  ASSUME SettingsAreTimed, SettingsInv, NEW p \in Processes,
         Tiers!LoadRead(p) \/ Tiers!LoadStore(p) \/ Tiers!Forget(p) \/ Tiers!ChangeRead(p)
  PROVE  SettingsInv'
<1>1. UNCHANGED <<stored, past, served, now>>
  BY DEF Tiers!LoadRead, Tiers!LoadStore, Tiers!Forget, Tiers!ChangeRead
<1>2. /\ Remembered /\ now' = now /\ now' \in Tiers!Times /\ now <= now' /\ now \in Int
      /\ Tiers!StaleAtMostTTL'
  BY <1>1 DEF Remembered, SettingsInv, SettingsAreTimed, Tiers!Times, Tiers!StaleAtMostTTL
<1>3. PICK what : Tiers!Then(p, what) /\ (what.at = "store" => what.row = stored /\ what.begun = now)
  <2>1. CASE Tiers!LoadRead(p)
    BY <2>1 DEF Tiers!LoadRead
  <2>2. CASE Tiers!LoadStore(p) \/ Tiers!Forget(p)
    BY <2>2 DEF Tiers!LoadStore, Tiers!Forget, Tiers!Idle
  <2>3. CASE Tiers!ChangeRead(p)
    BY <2>3 DEF Tiers!ChangeRead
  <2> QED
    BY <2>1, <2>2, <2>3
<1>4. /\ DOMAIN request' = Processes /\ request'[p] = what
      /\ \A q \in Processes : q # p => request'[q] = request[q]
  BY <1>3 DEF Tiers!Then, SettingsInv
<1>5. LoadIsFresh(p)'
  BY <1>1, <1>2, <1>3, <1>4 DEF LoadIsFresh, SettingsInv, Tiers!Valued
<1>6. DOMAIN cache' = Processes /\ \A q \in Processes : q # p => cache'[q] = cache[q]
  BY DEF Tiers!LoadRead, Tiers!LoadStore, Tiers!Forget, Tiers!ChangeRead, SettingsInv
<1>7. CopyIsDated(p)'
  <2>1. CASE Tiers!LoadStore(p)
    <3> DEFINE copy == [row |-> request[p].row, at |-> now]
    <3>1. cache'[p] = copy /\ copy.row = request[p].row /\ copy.at = now
      BY <2>1 DEF Tiers!LoadStore, SettingsInv
    <3>2. /\ request[p].begun \in Tiers!Times /\ now - 1 <= request[p].begun /\ request[p].begun <= now
          /\ Tiers!Valued(request[p].row) \in past[request[p].begun]
      BY <2>1 DEF Tiers!LoadStore, SettingsInv, LoadIsFresh
    <3> HIDE DEF copy
    <3> QED
      BY <1>1, <1>2, <3>1, <3>2 DEF CopyIsDated, InForce, Tiers!Valued
  <2>2. CASE Tiers!Forget(p)
    BY <2>2 DEF Tiers!Forget, SettingsInv, CopyIsDated
  <2>3. CASE Tiers!LoadRead(p) \/ Tiers!ChangeRead(p)
    <3>1. cache' = cache
      BY <2>3 DEF Tiers!LoadRead, Tiers!ChangeRead
    <3> QED
      BY <1>2, <3>1, CopyStaysDated
  <2> QED
    BY <2>1, <2>2, <2>3
<1>8. ASSUME NEW q \in Processes PROVE LoadIsFresh(q)' /\ CopyIsDated(q)'
  BY <1>2, <1>4, <1>5, <1>6, <1>7, LoadStaysFresh, CopyStaysDated
<1>9. Tiers!Valued(stored)' = Tiers!Valued(stored)
  BY <1>1 DEF Tiers!Valued
<1> QED
  BY <1>1, <1>2, <1>4, <1>6, <1>8, <1>9 DEF SettingsInv

LEMMA Serves ==
  ASSUME SettingsAreTimed, SettingsInv, NEW p \in Processes, Tiers!Serve(p)
  PROVE  SettingsInv'
<1>1. /\ UNCHANGED <<stored, cache, past, now, request>>
      /\ cache[p] # None /\ now - cache[p].at < TTL
      /\ served'.at = now /\ served'.value = Tiers!Valued(cache[p].row)
  BY DEF Tiers!Serve, Tiers!Fresh
<1>2. PICK t \in Tiers!Times : /\ cache[p].at - 1 <= t /\ t <= cache[p].at /\ cache[p].at <= now
                               /\ Tiers!Valued(cache[p].row) \in past[t] /\ cache[p].at \in Tiers!Times
  BY <1>1 DEF SettingsInv, CopyIsDated, InForce
<1>3. now - TTL <= t /\ t <= now /\ now \in Tiers!Times
  BY <1>1, <1>2 DEF SettingsInv, SettingsAreTimed, Tiers!Times
<1>4. Tiers!StaleAtMostTTL'
  BY <1>1, <1>2, <1>3 DEF Tiers!StaleAtMostTTL
<1>5. Remembered /\ now <= now' /\ now' \in Tiers!Times
  BY <1>1, <1>3 DEF Remembered, SettingsAreTimed, Tiers!Times
<1>6. \A q \in Processes : LoadIsFresh(q)' /\ CopyIsDated(q)'
  BY <1>1, <1>5, LoadStaysFresh, CopyStaysDated
<1> QED
  BY <1>1, <1>3, <1>4, <1>5, <1>6 DEF SettingsInv, Tiers!Valued

LEMMA Changes ==
  ASSUME SettingsAreTimed, SettingsInv, NEW p \in Processes, Tiers!Change(p)
  PROVE  SettingsInv'
<1>1. /\ UNCHANGED <<cache, served, now>> /\ stored' = request[p].new
      /\ past' = [past EXCEPT ![now] = @ \cup {Tiers!Valued(request[p].new)}]
      /\ Tiers!Then(p, [at |-> "forget"])
  BY DEF Tiers!Change
<1>2. Remembered /\ DOMAIN past' = Tiers!Times /\ now' \in Tiers!Times /\ now <= now' /\ now' = now
  BY <1>1 DEF Remembered, SettingsInv, SettingsAreTimed, Tiers!Times
<1>3. Tiers!Valued(stored)' \in past'[now]
  BY <1>1 DEF SettingsInv, Tiers!Valued
<1>4. /\ DOMAIN request' = Processes /\ request'[p].at = "forget"
      /\ \A q \in Processes : q # p => request'[q] = request[q]
  BY <1>1 DEF Tiers!Then, SettingsInv
<1>5. ASSUME NEW q \in Processes PROVE LoadIsFresh(q)' /\ CopyIsDated(q)'
  <2>1. CopyIsDated(q)'
    BY <1>1, <1>2, CopyStaysDated
  <2>2. LoadIsFresh(q)'
    BY <1>2, <1>4, LoadStaysFresh DEF LoadIsFresh
  <2> QED
    BY <2>1, <2>2
<1> QED
  BY <1>1, <1>2, <1>3, <1>4, <1>5, ServedStays DEF SettingsInv

\* A tick passes only when every load under way began in the one that ends.
LEMMA TimePasses ==
  ASSUME SettingsAreTimed, SettingsInv, Tiers!Tick
  PROVE  SettingsInv'
<1>1. /\ now' = now + 1 /\ UNCHANGED <<stored, cache, served, request>>
      /\ past' = [past EXCEPT ![now + 1] = {Tiers!Valued(stored)}]
      /\ \A p \in Processes : request[p].at = "store" => request[p].begun = now
  BY DEF Tiers!Tick
<1>2. now' \in Tiers!Times /\ now \in Tiers!Times /\ now <= now'
  BY <1>1 DEF Tiers!Tick, SettingsInv, SettingsAreTimed, Tiers!Times
<1>3. /\ DOMAIN past' = Tiers!Times /\ past'[now'] = {Tiers!Valued(stored)}
      /\ \A t \in Tiers!Times : t <= now => past'[t] = past[t]
  BY <1>1, <1>2 DEF SettingsInv, SettingsAreTimed, Tiers!Times
<1>4. Remembered
  BY <1>3 DEF Remembered
<1>5. ASSUME NEW q \in Processes PROVE LoadIsFresh(q)'
  <2>1. request[q].at = "store" =>
          /\ request[q].begun = now /\ Tiers!Valued(request[q].row) \in past'[now]
          /\ now' - 1 <= now
    BY <1>1, <1>2, <1>3 DEF SettingsInv, LoadIsFresh, Tiers!Times
  <2> QED
    BY <1>1, <1>2, <2>1 DEF LoadIsFresh, Tiers!Valued
<1>6. \A q \in Processes : CopyIsDated(q)'
  BY <1>1, <1>2, <1>4, CopyStaysDated
<1>7. Tiers!Valued(stored)' = Tiers!Valued(stored)
  BY <1>1 DEF Tiers!Valued
<1> QED
  BY <1>1, <1>2, <1>3, <1>4, <1>5, <1>6, <1>7, ServedStays DEF SettingsInv

LEMMA SettingsStep == SettingsAreTimed /\ SettingsInv /\ [Tiers!Next]_(Tiers!vars) => SettingsInv'
<1> SUFFICES ASSUME SettingsAreTimed, SettingsInv, [Tiers!Next]_(Tiers!vars) PROVE SettingsInv'
  OBVIOUS
<1>1. CASE UNCHANGED Tiers!vars
  BY <1>1 DEF Tiers!vars, SettingsInv, LoadIsFresh, CopyIsDated, InForce, Tiers!Valued,
     Tiers!StaleAtMostTTL
<1> QED
  BY <1>1, Loads, Serves, Changes, TimePasses DEF Tiers!Next

\* Whatever loads and changes cross in whatever process, a request is given a value that was in
\* force within the last TTL, and the tick a query takes.
THEOREM StaleAtMostTTLHolds == ASSUME SettingsAreTimed PROVE Tiers!Spec => []Tiers!StaleAtMostTTL
<1>1. Tiers!Init => SettingsInv
  BY InitSettings
<1>2. SettingsInv /\ [Tiers!Next]_(Tiers!vars) => SettingsInv'
  BY SettingsStep
<1>3. SettingsInv => Tiers!StaleAtMostTTL
  BY DEF SettingsInv
<1> QED
  BY <1>1, <1>2, <1>3, PTL DEF Tiers!Spec

-----------------------------------------------------------------------------
(***************************************************************************)
(* Incidents.  Whatever checks overlap and die: the stamp of the incident  *)
(* only grows, and by more than a window; who has set it posts the alert,  *)
(* or is dead.                                                             *)
(***************************************************************************)

CheckShape(w) ==
  w.at \notin {"idle", "done"} =>
    /\ w \in [at : {w.at}, time : Watch!Time, active : SUBSET Keys, left : SUBSET Keys]
    /\ w.at \in {"insert", "claim", "post"} => w.left # {}
At(c, k, ats) ==
  request[c].at \in ats /\ request[c].left # {} /\ Watch!Least(request[c].left) = k
Far(s, t) == s - t > Window["watch"] \/ t - s > Window["watch"]

Known(k) == incidents[k] # None
StampedAt(k, t) == Known(k) /\ incidents[k].notified \in Watch!Time /\ t <= incidents[k].notified

\* The alerts that are posted or will be are apart, and none is later than the stamp.
PostedApart(k) ==
  /\ \A i \in DOMAIN alerts[k] : StampedAt(k, alerts[k][i])
  /\ \A i, j \in DOMAIN alerts[k] : i # j => Far(alerts[k][i], alerts[k][j])
PostsApart(k) ==
  \A c \in Watch!Requests : At(c, k, {"post"}) =>
    /\ StampedAt(k, request[c].time)
    /\ \A i \in DOMAIN alerts[k] : Far(request[c].time, alerts[k][i])
    /\ \A d \in Watch!Requests : d # c /\ At(d, k, {"post"}) => Far(request[c].time, request[d].time)

\* The stamp is that of an alert, or of a check that was to post it.
StampIsPosted(k) ==
  Known(k) /\ incidents[k].notified # None =>
    \/ \E i \in DOMAIN alerts[k] : alerts[k][i] = incidents[k].notified
    \/ \E c \in Watch!Requests : At(c, k, {"post", "dead"}) /\ request[c].time = incidents[k].notified
\* Who saw the incident last is still at it, or found it stamped within the window.
SeenIsStamped(k) ==
  Known(k) /\ incidents[k].status = "open" =>
    \/ \E c \in Watch!Requests : At(c, k, {"claim", "post", "dead"}) /\ request[c].time = incidents[k].last
    \/ incidents[k].notified \in Watch!Time /\ incidents[k].notified >= incidents[k].last - Window["watch"]
ClaimIsKnown(k) == \A c \in Watch!Requests : At(c, k, {"claim", "post"}) => Known(k)

KeyInv(k) ==
  /\ alerts[k] \in Seq(Watch!Time) /\ incidents[k] \in Watch!Incident \cup {None}
  /\ PostedApart(k) /\ PostsApart(k) /\ StampIsPosted(k) /\ SeenIsStamped(k) /\ ClaimIsKnown(k)

WatchInv ==
  /\ DOMAIN request = Watch!Requests /\ DOMAIN incidents = Keys /\ DOMAIN alerts = Keys
  /\ now \in Watch!Time
  /\ \A c \in Watch!Requests : CheckShape(request[c])
  /\ \A k \in Keys : KeyInv(k)

LEMMA InitWatch == AlertsAreTimed /\ Watch!Init => WatchInv
<1> SUFFICES ASSUME AlertsAreTimed, Watch!Init PROVE WatchInv
  OBVIOUS
<1>1. \A c \in Watch!Requests : request[c].at = "idle"
  BY DEF Watch!Init, Watch!Idle
<1>2. ASSUME NEW k \in Keys PROVE KeyInv(k)
  <2>1. alerts[k] = <<>> /\ incidents[k] = None
    BY DEF Watch!Init
  <2>2. DOMAIN alerts[k] = {} /\ alerts[k] \in Seq(Watch!Time)
    BY <2>1
  <2> QED
    BY <1>1, <2>1, <2>2 DEF KeyInv, PostedApart, PostsApart, StampIsPosted, SeenIsStamped,
       ClaimIsKnown, Known, At
<1> QED
  BY <1>1, <1>2 DEF Watch!Init, WatchInv, CheckShape, AlertsAreTimed, Watch!Time

\* One check goes on; the others are where they were.
Goes(c, what) ==
  c \in Watch!Requests /\ Watch!Then(c, what) /\ CheckShape(what)

LEMMA OthersStay ==
  ASSUME WatchInv, NEW c, NEW what, Goes(c, what)
  PROVE  /\ DOMAIN request' = Watch!Requests /\ request'[c] = what
         /\ \A d \in Watch!Requests : d # c => request'[d] = request[d]
         /\ \A d \in Watch!Requests : CheckShape(request'[d])
BY DEF WatchInv, Goes, Watch!Then, CheckShape

\* A key whose row and alerts stay: nobody comes to claim or post it, and who leaves it has no part
\* in it.
Leaves(c, what, k) ==
  /\ what.at \in {"claim", "post"} => ~(what.left # {} /\ Watch!Least(what.left) = k)
  /\ At(c, k, {"post", "dead"}) =>
       what.at = "dead" /\ what.left = request[c].left /\ what.time = request[c].time
  /\ At(c, k, {"claim"}) =>
       \/ what.at = "dead" /\ what.left = request[c].left /\ what.time = request[c].time
       \/ /\ Known(k) /\ incidents[k].notified \in Watch!Time
          /\ incidents[k].notified >= request[c].time - Window["watch"]

LEMMA KeyRests ==
  ASSUME WatchInv, NEW c, NEW what, Goes(c, what), NEW k \in Keys, Leaves(c, what, k),
         alerts'[k] = alerts[k], incidents'[k] = incidents[k]
  PROVE  KeyInv(k)'
<1>1. \A d \in Watch!Requests : d # c => request'[d] = request[d]
  BY OthersStay
<1>2. request'[c] = what /\ c \in Watch!Requests
  BY OthersStay DEF Goes
<1>3. \A d \in Watch!Requests : At(d, k, {"post"})' => d # c /\ At(d, k, {"post"})
  BY <1>1, <1>2 DEF At, Leaves
<1>4. \A d \in Watch!Requests : At(d, k, {"claim", "post"})' => d # c /\ At(d, k, {"claim", "post"})
  BY <1>1, <1>2 DEF At, Leaves
<1>5. \A d \in Watch!Requests : At(d, k, {"post", "dead"}) =>
        At(d, k, {"post", "dead"})' /\ request'[d].time = request[d].time
  BY <1>1, <1>2 DEF At, Leaves
<1>6. \A d \in Watch!Requests : At(d, k, {"claim", "post", "dead"}) =>
        \/ At(d, k, {"claim", "post", "dead"})' /\ request'[d].time = request[d].time
        \/ /\ Known(k) /\ incidents[k].notified \in Watch!Time
           /\ incidents[k].notified >= request[d].time - Window["watch"]
  BY <1>1, <1>2 DEF At, Leaves
<1>7. PostedApart(k)' /\ ClaimIsKnown(k)'
  BY <1>4 DEF WatchInv, KeyInv, PostedApart, StampedAt, Known, ClaimIsKnown
<1>8. PostsApart(k)'
  BY <1>1, <1>3 DEF WatchInv, KeyInv, PostsApart, StampedAt, Known
<1>9. StampIsPosted(k)'
  BY <1>5 DEF WatchInv, KeyInv, StampIsPosted, Known
<1>10. SeenIsStamped(k)'
  BY <1>6 DEF WatchInv, KeyInv, SeenIsStamped, Known
<1> QED
  BY <1>7, <1>8, <1>9, <1>10 DEF WatchInv, KeyInv

\* A key that neither the check that goes on nor its next step is at.
LEMMA OtherKeys ==
  ASSUME WatchInv, NEW c, NEW what, Goes(c, what), NEW k \in Keys,
         request[c].at \in {"claim", "post"} => Watch!Least(request[c].left) # k,
         what.at \in {"claim", "post"} => Watch!Least(what.left) # k,
         request[c].at # "dead",
         alerts'[k] = alerts[k], incidents'[k] = incidents[k]
  PROVE  KeyInv(k)'
BY KeyRests DEF Leaves, At

LEMMA CheckIsShaped ==
  ASSUME WatchInv, NEW c \in Watch!Requests, request[c].at \notin {"idle", "done"}
  PROVE  /\ request[c] \in [at : {request[c].at}, time : Watch!Time, active : SUBSET Keys, left : SUBSET Keys]
         /\ request[c].at \in {"insert", "claim", "post"} => request[c].left # {}
BY DEF WatchInv, CheckShape

LEMMA OnwardIs ==
  ASSUME NEW r, r \in [at : {r.at}, time : Watch!Time, active : SUBSET Keys, left : SUBSET Keys],
         NEW left \in SUBSET Keys
  PROVE  /\ CheckShape(Watch!Onward(r, left))
         /\ Watch!Onward(r, left).at \in {"insert", "done", "resolve"}
BY DEF Watch!Onward, CheckShape

\* A step that touches no row and no alert.
LEMMA WatchRests ==
  ASSUME WatchInv, NEW c, NEW what, Goes(c, what), UNCHANGED <<alerts, incidents, now>>,
         request[c].at \notin {"claim", "post", "dead"}, what.at \notin {"claim", "post"}
  PROVE  WatchInv'
BY OthersStay, OtherKeys DEF WatchInv

LEMMA WatchBegins ==
  ASSUME AlertsAreTimed, WatchInv, NEW c \in Watch!Requests, Watch!Health(c) \/ Watch!Count(c)
  PROVE  WatchInv'
<1>1. CASE Watch!Health(c)
  <2>1. \E what : /\ Watch!Then(c, what) /\ CheckShape(what) /\ what.at \in {"count", "done"}
    BY <1>1 DEF Watch!Health, WatchInv, CheckShape, Watch!Done
  <2>2. UNCHANGED <<alerts, incidents, now>> /\ request[c].at = "idle"
    BY <1>1 DEF Watch!Health, Watch!Idle
  <2> QED
    BY <2>1, <2>2, WatchRests DEF Goes
<1>2. CASE Watch!Count(c)
  <2>1. request[c].at = "count" /\ UNCHANGED <<alerts, incidents, now>>
    BY <1>2 DEF Watch!Count
  <2>2. request[c] \in [at : {"count"}, time : Watch!Time, active : SUBSET Keys, left : SUBSET Keys]
    BY <2>1, CheckIsShaped
  <2>3. PICK k \in request[c].left :
          LET r == [request[c] EXCEPT !.active = IF Watch!Over(k) THEN @ \cup {k} ELSE @, !.left = @ \ {k}] IN
          Watch!Then(c, IF r.left = {} THEN Watch!Onward(r, r.active) ELSE r)
    BY <1>2 DEF Watch!Count
  <2> DEFINE r == [request[c] EXCEPT !.active = IF Watch!Over(k) THEN @ \cup {k} ELSE @, !.left = @ \ {k}]
             what == IF r.left = {} THEN Watch!Onward(r, r.active) ELSE r
  <2>4. r \in [at : {"count"}, time : Watch!Time, active : SUBSET Keys, left : SUBSET Keys]
    BY <2>2
  <2>5. Watch!Then(c, what)
    BY <2>3
  <2> HIDE DEF r
  <2>6. CheckShape(what) /\ what.at \in {"insert", "done", "resolve", "count"}
    <3>1. r \in [at : {r.at}, time : Watch!Time, active : SUBSET Keys, left : SUBSET Keys]
          /\ r.at = "count" /\ r.active \in SUBSET Keys
      BY <2>4
    <3>2. CheckShape(r)
      BY <3>1 DEF CheckShape
    <3> QED
      BY <3>1, <3>2, OnwardIs
  <2> HIDE DEF what
  <2> QED
    BY <2>1, <2>5, <2>6, WatchRests DEF Goes
<1> QED
  BY <1>1, <1>2

\* The check that saw the incident is at its alert now.
LEMMA WatchOpens ==
  ASSUME AlertsAreTimed, WatchInv, NEW c \in Watch!Requests, Watch!Open(c)
  PROVE  WatchInv'
<1> DEFINE r == request[c]
           k == Watch!Least(r.left)
           what == [r EXCEPT !.at = "claim"]
           row == [status |-> "open", notified |-> IF incidents[k] = None THEN None ELSE incidents[k].notified,
                   last |-> r.time]
<1>1. /\ r.at = "insert" /\ Watch!Then(c, what) /\ incidents' = [incidents EXCEPT ![k] = row]
      /\ UNCHANGED <<alerts, now>>
  BY DEF Watch!Open
<1>2. r \in [at : {"insert"}, time : Watch!Time, active : SUBSET Keys, left : SUBSET Keys] /\ r.left # {}
  BY <1>1, CheckIsShaped
<1>3. /\ what \in [at : {"claim"}, time : Watch!Time, active : SUBSET Keys, left : SUBSET Keys]
      /\ what.left = r.left /\ what.time = r.time
  BY <1>2
<1>4. what.at = "claim" /\ what.left = r.left /\ what.left # {} /\ what.time = r.time
  BY <1>2, <1>3
<1> HIDE DEF what
<1>5. Goes(c, what)
  BY <1>1, <1>2, <1>3, <1>4 DEF Goes, CheckShape
<1>6. DOMAIN incidents' = Keys /\ \A q \in Keys : q # k => incidents'[q] = incidents[q]
  BY <1>1 DEF WatchInv
<1>7. ASSUME NEW q \in Keys, q # k PROVE KeyInv(q)'
  BY <1>1, <1>4, <1>5, <1>6, <1>7, OtherKeys
<1>8. ASSUME NEW q \in Keys, q = k PROVE KeyInv(q)'
  <2>1. incidents'[q] = row
    BY <1>1, <1>8 DEF WatchInv
  <2>2. KeyInv(q)
    BY <1>8 DEF WatchInv
  <2>3. /\ row \in Watch!Incident /\ row # None /\ row.last = r.time /\ row.status = "open"
        /\ Known(q) => row.notified = incidents[q].notified
        /\ ~Known(q) => row.notified = None
    <3>1. row.notified = IF Known(q) THEN incidents[q].notified ELSE None
      BY <1>8 DEF Known
    <3>2. row.notified \in Watch!Time \cup {None}
      BY <2>2, <3>1 DEF KeyInv, Known, Watch!Incident
    <3>3. row.status = "open" /\ row.last = r.time /\ r.time \in Watch!Time
      BY <1>2
    <3>4. row \in Watch!Incident
      BY <3>2, <3>3 DEF Watch!Incident
    <3> QED
      BY <3>1, <3>3, <3>4 DEF AlertsAreTimed
  <2> HIDE DEF row, k, r
  <2>4. Known(q)' /\ \A t : StampedAt(q, t) => Known(q) /\ row.notified \in Watch!Time /\ t <= row.notified
    BY <2>1, <2>3 DEF Known, StampedAt
  <2>5. /\ request'[c] = what /\ request[c].at = "insert"
        /\ \A d \in Watch!Requests : d # c => request'[d] = request[d]
    BY <1>1, <1>5, OthersStay DEF r
  <2>6. \A d \in Watch!Requests :
          /\ At(d, q, {"post"})' => d # c /\ At(d, q, {"post"})
          /\ At(d, q, {"post", "dead"}) =>
               At(d, q, {"post", "dead"})' /\ request'[d].time = request[d].time
    BY <1>4, <2>5 DEF At
  <2>7. PostedApart(q)'
    BY <1>1, <2>1, <2>2, <2>4 DEF KeyInv, PostedApart, StampedAt
  <2>8. PostsApart(q)'
    BY <1>1, <2>1, <2>2, <2>4, <2>5, <2>6 DEF KeyInv, PostsApart, StampedAt
  <2>9. StampIsPosted(q)'
    BY <1>1, <2>1, <2>2, <2>3, <2>6 DEF KeyInv, StampIsPosted
  <2>10. SeenIsStamped(q)'
    <3>1. At(c, q, {"claim", "post", "dead"})' /\ request'[c].time = incidents'[q].last
      BY <1>4, <1>8, <2>1, <2>3, <2>5 DEF At, k, r
    <3> QED
      BY <3>1 DEF SeenIsStamped
  <2> QED
    BY <1>1, <2>1, <2>2, <2>3, <2>4, <2>7, <2>8, <2>9, <2>10 DEF KeyInv, ClaimIsKnown
<1> QED
  BY <1>1, <1>5, <1>6, <1>7, <1>8, OthersStay DEF WatchInv

\* The stamp is set by a check that is to post the alert: more than a window after the last.
LEMMA WatchClaims ==
  ASSUME AlertsAreTimed, WatchInv, NEW c \in Watch!Requests, Watch!Claim(c)
  PROVE  WatchInv'
<1> DEFINE r == request[c]
           k == Watch!Least(r.left)
<1>1. r.at = "claim" /\ UNCHANGED <<alerts, now>>
  BY DEF Watch!Claim
<1>2. r \in [at : {"claim"}, time : Watch!Time, active : SUBSET Keys, left : SUBSET Keys] /\ r.left # {}
  BY <1>1, CheckIsShaped
<1>3. CASE ~Watch!Claimable(incidents[k], r.time)
  <2> DEFINE what == Watch!Onward(r, r.left \ {k})
  <2>1. Watch!Then(c, what) /\ incidents' = incidents
    BY <1>3 DEF Watch!Claim
  <2>2. CheckShape(what) /\ what.at \in {"insert", "done", "resolve"}
    BY <1>2, OnwardIs
  <2> HIDE DEF what
  <2>3. Goes(c, what)
    BY <2>1, <2>2 DEF Goes
  <2>4. ASSUME NEW q \in Keys PROVE KeyInv(q)'
    <3>1. CASE q # k
      BY <1>1, <2>1, <2>2, <2>3, <3>1, OtherKeys
    <3>2. CASE q = k
      <4>1. Known(q)
        BY <1>1, <1>2, <3>2 DEF WatchInv, KeyInv, ClaimIsKnown, At
      <4>2. incidents[q].notified \in Watch!Time /\ ~(incidents[q].notified < r.time - Window["watch"])
        BY <1>3, <3>2, <4>1 DEF Watch!Claimable, WatchInv, KeyInv, Known, Watch!Incident
      <4>3. incidents[q].notified >= r.time - Window["watch"]
        BY <1>2, <4>2 DEF AlertsAreTimed, Watch!Time
      <4>4. Leaves(c, what, q)
        BY <1>1, <2>2, <4>1, <4>2, <4>3 DEF Leaves, At
      <4> QED
        BY <1>1, <2>1, <2>3, <4>4, KeyRests
    <3> QED
      BY <3>1, <3>2
  <2> QED
    BY <1>1, <2>1, <2>3, <2>4, OthersStay DEF WatchInv
<1>4. CASE Watch!Claimable(incidents[k], r.time)
  <2> DEFINE what == [r EXCEPT !.at = "post"]
  <2>1. Watch!Then(c, what) /\ incidents' = [incidents EXCEPT ![k].notified = r.time]
    BY <1>4 DEF Watch!Claim
  <2>2. what \in [at : {"post"}, time : Watch!Time, active : SUBSET Keys, left : SUBSET Keys]
    BY <1>2
  <2>3. what.at = "post" /\ what.left = r.left /\ what.time = r.time
    BY <1>2, <2>2
  <2> HIDE DEF what
  <2>4. Goes(c, what)
    BY <1>2, <2>1, <2>2, <2>3 DEF Goes, CheckShape
  <2>5. DOMAIN incidents' = Keys /\ \A q \in Keys : q # k => incidents'[q] = incidents[q]
    BY <2>1 DEF WatchInv
  <2>6. /\ request'[c] = what /\ request[c].at = "claim"
        /\ \A d \in Watch!Requests : d # c => request'[d] = request[d]
    BY <1>1, <2>4, OthersStay
  <2>7. ASSUME NEW q \in Keys, q # k PROVE KeyInv(q)'
    BY <1>1, <2>3, <2>4, <2>5, <2>7, OtherKeys
  <2>8. ASSUME NEW q \in Keys, q = k PROVE KeyInv(q)'
    <3>1. KeyInv(q) /\ Known(q) /\ At(c, q, {"claim"}) /\ r.time \in Watch!Time
      BY <1>1, <1>2, <2>8 DEF WatchInv, KeyInv, ClaimIsKnown, At
    <3>2. incidents'[q] = [incidents[q] EXCEPT !.notified = r.time]
      BY <2>1, <2>8 DEF WatchInv
    <3>3. /\ incidents'[q] \in Watch!Incident /\ incidents'[q].notified = r.time
          /\ incidents'[q].last = incidents[q].last /\ incidents'[q].status = incidents[q].status
      BY <3>1, <3>2 DEF KeyInv, Known, Watch!Incident
    <3>4. Known(q)'
      BY <3>3 DEF Known, AlertsAreTimed
    <3>5. incidents[q].notified # None => incidents[q].notified < r.time - Window["watch"]
      BY <1>4, <2>8 DEF Watch!Claimable
    <3>6. \A t \in Watch!Time : StampedAt(q, t) => r.time - t > Window["watch"] /\ t <= r.time
      BY <3>1, <3>5 DEF StampedAt, AlertsAreTimed, Watch!Time
    <3>7. \A i \in DOMAIN alerts[q] :
            alerts[q][i] \in Watch!Time /\ r.time - alerts[q][i] > Window["watch"] /\ alerts[q][i] <= r.time
      BY <3>1, <3>6 DEF KeyInv, PostedApart
    <3>8. \A d \in Watch!Requests : At(d, q, {"post"}) =>
            /\ d # c /\ request[d].time \in Watch!Time
            /\ r.time - request[d].time > Window["watch"] /\ request[d].time <= r.time
      <4>1. \A d \in Watch!Requests : At(d, q, {"post"}) => d # c /\ request[d].time \in Watch!Time
        BY <1>1, CheckIsShaped DEF At
      <4> QED
        BY <3>1, <3>6, <4>1 DEF KeyInv, PostsApart
    <3> HIDE DEF r, k
    <3>9. \A d \in Watch!Requests : At(d, q, {"post"})' => d = c \/ At(d, q, {"post"})
      BY <2>6 DEF At
    <3>10. PostedApart(q)'
      BY <1>1, <3>1, <3>3, <3>4, <3>7 DEF KeyInv, PostedApart, StampedAt
    <3>11. PostsApart(q)'
      <4>1. \A d \in Watch!Requests : At(d, q, {"post"})' =>
              request'[d].time \in Watch!Time /\ request'[d].time <= r.time
        BY <2>3, <2>6, <3>1, <3>8, <3>9 DEF Watch!Time
      <4>2. \A d \in Watch!Requests : At(d, q, {"post"})' => StampedAt(q, request[d].time)'
        BY <3>1, <3>3, <3>4, <4>1 DEF StampedAt
      <4>3. \A d \in Watch!Requests : At(d, q, {"post"})' =>
              \A i \in DOMAIN alerts[q] : Far(request'[d].time, alerts[q][i])
        BY <2>3, <2>6, <3>1, <3>7, <3>9 DEF KeyInv, PostsApart, Far
      <4>4. \A d, e \in Watch!Requests : At(d, q, {"post"})' /\ At(e, q, {"post"})' /\ d # e =>
              Far(request'[d].time, request'[e].time)
        BY <2>3, <2>6, <3>1, <3>8, <3>9 DEF KeyInv, PostsApart, Far
      <4> QED
        BY <1>1, <4>2, <4>3, <4>4 DEF PostsApart
    <3>12. At(c, q, {"post", "dead"})' /\ request'[c].time = r.time
      BY <2>3, <2>6, <3>1 DEF At, r
    <3>13. StampIsPosted(q)'
      BY <3>3, <3>12 DEF StampIsPosted
    <3>14. SeenIsStamped(q)'
      <4>1. \A d \in Watch!Requests : At(d, q, {"claim", "post", "dead"}) =>
              At(d, q, {"claim", "post", "dead"})' /\ request'[d].time = request[d].time
        BY <2>3, <2>6 DEF At, r
      <4>2. incidents[q].notified \in Watch!Time => incidents[q].notified <= r.time
        BY <3>1, <3>5 DEF AlertsAreTimed, Watch!Time
      <4>3. CASE \E d \in Watch!Requests : /\ At(d, q, {"claim", "post", "dead"})
                                          /\ request[d].time = incidents[q].last
        BY <3>3, <4>1, <4>3 DEF SeenIsStamped
      <4>4. CASE incidents[q].notified \in Watch!Time /\ incidents[q].notified >= incidents[q].last - Window["watch"]
        <5>1. r.time >= incidents[q].last - Window["watch"]
          <6>1. /\ incidents[q].notified \in Int /\ r.time \in Int /\ incidents[q].last \in Int
                /\ Window["watch"] \in Int /\ incidents[q].notified <= r.time
            BY <3>1, <3>5, <4>4 DEF AlertsAreTimed, Watch!Time, KeyInv, Known, Watch!Incident
          <6> QED
            BY <4>4, <6>1
        <5> QED
          BY <3>1, <3>3, <5>1 DEF SeenIsStamped
      <4> QED
        BY <3>1, <3>3, <4>3, <4>4 DEF KeyInv, SeenIsStamped
    <3> QED
      BY <1>1, <3>1, <3>3, <3>4, <3>10, <3>11, <3>13, <3>14 DEF KeyInv, ClaimIsKnown
  <2> QED
    BY <1>1, <2>4, <2>5, <2>7, <2>8, OthersStay DEF WatchInv
<1> QED
  BY <1>3, <1>4

LEMMA WatchPosts ==
  ASSUME AlertsAreTimed, WatchInv, NEW c \in Watch!Requests, Watch!Post(c)
  PROVE  WatchInv'
<1> DEFINE r == request[c]
           k == Watch!Least(r.left)
           what == Watch!Onward(r, r.left \ {k})
<1>1. /\ r.at = "post" /\ UNCHANGED <<incidents, now>> /\ Watch!Then(c, what)
      /\ alerts' = [alerts EXCEPT ![k] = Append(@, r.time)]
  BY DEF Watch!Post
<1>2. r \in [at : {"post"}, time : Watch!Time, active : SUBSET Keys, left : SUBSET Keys] /\ r.left # {}
  BY <1>1, CheckIsShaped
<1>3. CheckShape(what) /\ what.at \in {"insert", "done", "resolve"}
  BY <1>2, OnwardIs
<1> HIDE DEF what
<1>4. Goes(c, what)
  BY <1>1, <1>3 DEF Goes
<1>5. DOMAIN alerts' = Keys /\ \A q \in Keys : q # k => alerts'[q] = alerts[q]
  BY <1>1 DEF WatchInv
<1>6. /\ request'[c] = what /\ request[c].at = "post"
      /\ \A d \in Watch!Requests : d # c => request'[d] = request[d]
  BY <1>1, <1>4, OthersStay
<1>7. ASSUME NEW q \in Keys, q # k PROVE KeyInv(q)'
  BY <1>1, <1>3, <1>4, <1>5, <1>7, OtherKeys
<1>8. ASSUME NEW q \in Keys, q = k PROVE KeyInv(q)'
  <2>1. KeyInv(q) /\ At(c, q, {"post"}) /\ r.time \in Watch!Time
    BY <1>1, <1>2, <1>8 DEF WatchInv, At
  <2>2. alerts'[q] = Append(alerts[q], r.time) /\ incidents'[q] = incidents[q]
    BY <1>1, <1>8 DEF WatchInv
  <2>3. /\ StampedAt(q, r.time)
        /\ \A i \in DOMAIN alerts[q] : Far(r.time, alerts[q][i])
        /\ \A d \in Watch!Requests : d # c /\ At(d, q, {"post"}) => Far(r.time, request[d].time)
    BY <2>1 DEF KeyInv, PostsApart
  <2> DEFINE n == Len(alerts[q])
  <2>4. /\ alerts'[q] \in Seq(Watch!Time) /\ n \in Nat
        /\ DOMAIN alerts[q] = 1..n /\ DOMAIN alerts'[q] = 1..(n + 1)
        /\ \A i \in 1..n : alerts'[q][i] = alerts[q][i]
        /\ alerts'[q][n + 1] = r.time /\ n + 1 \in 1..(n + 1)
    BY <2>1, <2>2 DEF KeyInv
  <2> HIDE DEF n, r, k
  <2>5. \A i \in DOMAIN alerts'[q] : i \in DOMAIN alerts[q] \/ (i = n + 1 /\ alerts'[q][i] = r.time)
    BY <2>4
  <2>6. \A i \in DOMAIN alerts[q] : i \in DOMAIN alerts'[q] /\ alerts'[q][i] = alerts[q][i]
    BY <2>4
  <2>7. \A s, t \in Watch!Time : Far(s, t) => Far(t, s)
    BY DEF Far
  <2>8. \A i \in DOMAIN alerts[q] : alerts[q][i] \in Watch!Time
    BY <2>1 DEF KeyInv
  <2>9. PostedApart(q)'
    <3>1. \A i \in DOMAIN alerts'[q] : StampedAt(q, alerts[q][i])'
      BY <2>1, <2>2, <2>3, <2>5, <2>6 DEF KeyInv, PostedApart, StampedAt, Known
    <3>2. \A i, j \in DOMAIN alerts'[q] : i # j => Far(alerts'[q][i], alerts'[q][j])
      BY <2>1, <2>3, <2>5, <2>6, <2>7, <2>8 DEF KeyInv, PostedApart
    <3> QED
      BY <3>1, <3>2 DEF PostedApart
  <2>10. \A d \in Watch!Requests : At(d, q, {"post"})' => d # c /\ At(d, q, {"post"})
    BY <1>3, <1>6 DEF At
  <2>11. PostsApart(q)'
    <3>1. \A d \in Watch!Requests : At(d, q, {"post"})' =>
            StampedAt(q, request[d].time)' /\ request[d].time \in Watch!Time
      <4>1. \A d \in Watch!Requests : At(d, q, {"post"}) => request[d].time \in Watch!Time
        BY CheckIsShaped DEF At
      <4> QED
        BY <1>6, <2>1, <2>2, <2>10, <4>1 DEF KeyInv, PostsApart, StampedAt, Known
    <3>2. \A d \in Watch!Requests : At(d, q, {"post"})' =>
            \A i \in DOMAIN alerts'[q] : Far(request'[d].time, alerts'[q][i])
      BY <1>6, <2>1, <2>3, <2>5, <2>6, <2>7, <2>10, <3>1 DEF KeyInv, PostsApart
    <3>3. \A d, e \in Watch!Requests : At(d, q, {"post"})' /\ At(e, q, {"post"})' /\ d # e =>
            Far(request'[d].time, request'[e].time)
      BY <1>6, <2>1, <2>10 DEF KeyInv, PostsApart
    <3> QED
      BY <3>1, <3>2, <3>3 DEF PostsApart
  <2>12. StampIsPosted(q)'
    <3> SUFFICES ASSUME incidents[q].notified # None
                 PROVE  \/ \E i \in DOMAIN alerts'[q] : alerts'[q][i] = incidents[q].notified
                        \/ \E d \in Watch!Requests : /\ At(d, q, {"post", "dead"})'
                                                       /\ request'[d].time = incidents[q].notified
      BY <2>2 DEF StampIsPosted
    <3>1. CASE \E i \in DOMAIN alerts[q] : alerts[q][i] = incidents[q].notified
      BY <2>6, <3>1
    <3>2. CASE r.time = incidents[q].notified
      BY <2>4, <3>2
    <3>3. ASSUME NEW d \in Watch!Requests, d # c, At(d, q, {"post", "dead"})
          PROVE  At(d, q, {"post", "dead"})' /\ request'[d].time = request[d].time
      BY <1>6, <3>3 DEF At
    <3>4. Known(q) /\ (request[c].time = r.time)
      BY <2>3 DEF StampedAt, r
    <3> QED
      BY <2>1, <3>1, <3>2, <3>3, <3>4 DEF KeyInv, StampIsPosted
  <2>13. SeenIsStamped(q)'
    <3> SUFFICES ASSUME incidents[q].status = "open"
                 PROVE  \/ \E d \in Watch!Requests : /\ At(d, q, {"claim", "post", "dead"})'
                                                       /\ request'[d].time = incidents[q].last
                        \/ /\ incidents[q].notified \in Watch!Time
                           /\ incidents[q].notified >= incidents[q].last - Window["watch"]
      BY <2>2 DEF SeenIsStamped
    <3>1. ASSUME NEW d \in Watch!Requests, d # c, At(d, q, {"claim", "post", "dead"})
          PROVE  At(d, q, {"claim", "post", "dead"})' /\ request'[d].time = request[d].time
      BY <1>6, <3>1 DEF At
    <3>2. CASE r.time = incidents[q].last
      BY <2>1, <2>3, <3>2 DEF StampedAt, AlertsAreTimed, Watch!Time
    <3>3. Known(q) /\ request[c].time = r.time
      BY <2>3 DEF StampedAt, r
    <3> QED
      BY <2>1, <3>1, <3>2, <3>3 DEF KeyInv, SeenIsStamped
  <2> QED
    BY <2>1, <2>2, <2>3, <2>4, <2>9, <2>11, <2>12, <2>13 DEF KeyInv, ClaimIsKnown, StampedAt, Known
<1> QED
  BY <1>1, <1>4, <1>5, <1>7, <1>8, OthersStay DEF WatchInv

LEMMA WatchResolves ==
  ASSUME AlertsAreTimed, WatchInv, NEW c \in Watch!Requests, Watch!Resolve(c)
  PROVE  WatchInv'
<1> DEFINE r == request[c]
           k == Watch!Least(r.left)
           what == IF r.left = {k} THEN Watch!Done ELSE [r EXCEPT !.left = @ \ {k}]
<1>1. r.at = "resolve" /\ UNCHANGED <<alerts, now>> /\ Watch!Then(c, what)
  BY DEF Watch!Resolve
<1>2. r \in [at : {"resolve"}, time : Watch!Time, active : SUBSET Keys, left : SUBSET Keys]
  BY <1>1, CheckIsShaped
<1>3. CheckShape(what) /\ what.at \in {"done", "resolve"}
  BY <1>2 DEF CheckShape, Watch!Done
<1>4. incidents' = incidents \/ incidents' = [incidents EXCEPT ![k].status = "resolved"]
  BY DEF Watch!Resolve
<1> HIDE DEF what
<1>5. Goes(c, what)
  BY <1>1, <1>3 DEF Goes
<1>6. DOMAIN incidents' = Keys
  BY <1>4 DEF WatchInv
<1>7. /\ request'[c] = what /\ request[c].at = "resolve"
      /\ \A d \in Watch!Requests : d # c => request'[d] = request[d]
  BY <1>1, <1>5, OthersStay
<1>8. ASSUME NEW q \in Keys, incidents'[q] = incidents[q] PROVE KeyInv(q)'
  BY <1>1, <1>3, <1>5, <1>8, OtherKeys
<1>9. ASSUME NEW q \in Keys, incidents'[q] # incidents[q] PROVE KeyInv(q)'
  <2>1. /\ q = k /\ incidents'[q] = [incidents[q] EXCEPT !.status = "resolved"] /\ KeyInv(q)
        /\ Known(q)
    BY <1>4, <1>9 DEF WatchInv, Watch!Resolve, Known
  <2>2. /\ incidents'[q] \in Watch!Incident /\ incidents'[q].notified = incidents[q].notified
        /\ incidents'[q].status = "resolved"
    BY <2>1 DEF KeyInv, Known, Watch!Incident
  <2>3. Known(q)'
    BY <2>2 DEF Known, AlertsAreTimed
  <2>4. /\ \A d \in Watch!Requests : At(d, q, {"post"})' => d # c /\ At(d, q, {"post"})
        /\ \A d \in Watch!Requests : At(d, q, {"post", "dead"}) =>
             At(d, q, {"post", "dead"})' /\ request'[d].time = request[d].time
    BY <1>3, <1>7 DEF At
  <2>5. PostedApart(q)' /\ StampIsPosted(q)' /\ SeenIsStamped(q)'
    BY <1>1, <2>1, <2>2, <2>3, <2>4 DEF KeyInv, PostedApart, StampedAt, StampIsPosted, SeenIsStamped
  <2>6. PostsApart(q)'
    BY <1>1, <1>7, <2>1, <2>2, <2>3, <2>4 DEF KeyInv, PostsApart, StampedAt
  <2> QED
    BY <1>1, <2>1, <2>2, <2>3, <2>5, <2>6 DEF KeyInv, ClaimIsKnown
<1> QED
  BY <1>1, <1>5, <1>6, <1>8, <1>9, OthersStay DEF WatchInv

\* Who dies stays at the key where it was.
LEMMA WatchDies ==
  ASSUME WatchInv, NEW c \in Watch!Requests, Watch!Die(c)
  PROVE  WatchInv'
<1> DEFINE what == [request[c] EXCEPT !.at = "dead"]
<1>1. /\ request[c].at \notin {"idle", "done", "dead"} /\ Watch!Then(c, what)
      /\ UNCHANGED <<alerts, incidents, now>>
  BY DEF Watch!Die
<1>2. request[c] \in [at : {request[c].at}, time : Watch!Time, active : SUBSET Keys, left : SUBSET Keys]
  BY <1>1, CheckIsShaped
<1>3. /\ what \in [at : {"dead"}, time : Watch!Time, active : SUBSET Keys, left : SUBSET Keys]
      /\ what.left = request[c].left /\ what.time = request[c].time
  BY <1>2
<1>4. what.at = "dead" /\ what.left = request[c].left /\ what.time = request[c].time
  BY <1>3
<1> HIDE DEF what
<1>5. Goes(c, what) /\ \A k \in Keys : Leaves(c, what, k)
  BY <1>1, <1>3, <1>4 DEF Goes, CheckShape, Leaves
<1> QED
  BY <1>1, <1>5, KeyRests, OthersStay DEF WatchInv

LEMMA WatchStep == AlertsAreTimed /\ WatchInv /\ [Watch!Next]_(Watch!vars) => WatchInv'
<1> SUFFICES ASSUME AlertsAreTimed, WatchInv, [Watch!Next]_(Watch!vars) PROVE WatchInv'
  OBVIOUS
<1>1. CASE UNCHANGED <<incidents, alerts, request, now>>
  BY <1>1 DEF WatchInv, KeyInv, PostedApart, PostsApart, StampedAt, StampIsPosted, SeenIsStamped,
     ClaimIsKnown, Known, At, CheckShape
<1>2. CASE Watch!Tick
  <2>1. UNCHANGED <<incidents, alerts, request>> /\ now' \in Watch!Time
    BY <1>2 DEF Watch!Tick, WatchInv, Watch!Time, AlertsAreTimed
  <2> QED
    BY <2>1 DEF WatchInv, KeyInv, PostedApart, PostsApart, StampedAt, StampIsPosted, SeenIsStamped,
       ClaimIsKnown, Known, At, CheckShape
<1>3. Watch!Change \/ UNCHANGED Watch!vars => UNCHANGED <<incidents, alerts, request, now>>
  BY DEF Watch!Change, Watch!vars
<1> QED
  BY <1>1, <1>2, <1>3, WatchBegins, WatchOpens, WatchClaims, WatchPosts, WatchResolves, WatchDies
     DEF Watch!Next

LEMMA WatchHolds == ASSUME AlertsAreTimed PROVE Watch!Spec => []WatchInv
<1>1. WatchInv /\ [Watch!Next]_(Watch!vars) => WatchInv'
  BY WatchStep
<1>2. Watch!Init => WatchInv
  BY InitWatch
<1> QED
  BY <1>1, <1>2, PTL DEF Watch!Spec

\* Whichever checks overlap, and whichever die, two alerts of one incident are more than a window
\* apart.
THEOREM AlertsApartHolds == ASSUME AlertsAreTimed PROVE Watch!Spec => []Watch!AlertsApart
<1>1. WatchInv => Watch!AlertsApart
  <2> SUFFICES ASSUME WatchInv, NEW k \in Keys, NEW i \in DOMAIN alerts[k], NEW j \in DOMAIN alerts[k],
                      i < j
               PROVE  \/ alerts[k][j] - alerts[k][i] > Window["watch"]
                      \/ alerts[k][i] - alerts[k][j] > Window["watch"]
    BY DEF Watch!AlertsApart
  <2>1. alerts[k] \in Seq(Watch!Time) /\ (i # j => Far(alerts[k][i], alerts[k][j]))
    BY DEF WatchInv, KeyInv, PostedApart
  <2>2. i # j
    BY <2>1
  <2> QED
    BY <2>1, <2>2 DEF Far
<1> QED
  BY <1>1, WatchHolds, PTL

\* An open incident that no check is at was alerted no longer than a window before it was last seen.
THEOREM OpenIsAlertedHolds == ASSUME AlertsAreTimed PROVE Watch!Spec => []Watch!OpenIsAlerted
<1>1. WatchInv => Watch!OpenIsAlerted
  <2> SUFFICES ASSUME WatchInv, NEW k \in Keys, incidents[k] # None, incidents[k].status = "open",
                      ~Watch!AtAlert(k)
               PROVE  \E i \in DOMAIN alerts[k] : alerts[k][i] >= incidents[k].last - Window["watch"]
    BY DEF Watch!OpenIsAlerted
  <2>1. \A c \in Watch!Requests : ~At(c, k, {"claim", "post", "dead"}) /\ ~At(c, k, {"post", "dead"})
    BY DEF Watch!AtAlert, At
  <2>2. incidents[k].notified \in Watch!Time /\ incidents[k].notified >= incidents[k].last - Window["watch"]
    BY <2>1 DEF WatchInv, KeyInv, SeenIsStamped, Known
  <2>3. \E i \in DOMAIN alerts[k] : alerts[k][i] = incidents[k].notified
    BY <2>1, <2>2 DEF WatchInv, KeyInv, StampIsPosted, Known, AlertsAreTimed
  <2> QED
    BY <2>2, <2>3
<1> QED
  BY <1>1, WatchHolds, PTL

-----------------------------------------------------------------------------
(***************************************************************************)
(* PortalPage.  What the page shows is told from what the last request      *)
(* begun has read: whatever changed since has a timer, an event or a gap    *)
(* of the stream to it.  A request is made in the name of the cookie, and   *)
(* the cookie changes with the session only, while there is one.            *)
(***************************************************************************)

FlightRow ==
  [n : Nat, kind : {"load", "command"}, of : PortalUsers \cup {None}, read : Nat \cup {None},
   served : BOOLEAN]
ShownRow == [of : PortalUsers \cup {None}, version : Nat \cup {None}, load : Nat]
PageCall == [kind : {"in", "out", "read"}, who : PortalUsers \cup {None}, served : BOOLEAN]

PageIsTyped ==
  /\ latest \in Nat /\ begun \in Nat /\ mark \in 0..begun /\ cookie \in PortalUsers \cup {None}
  /\ flights \subseteq FlightRow /\ calls \subseteq PageCall
  /\ snapshot # None => snapshot \in ShownRow
  /\ unseen \in BOOLEAN
  /\ stream.at = "open" => {"at", "seen"} \subseteq DOMAIN stream /\ stream.seen \in 0..latest

\* Every request has its number, and what it read it has until the page shows it.
Numbered ==
  /\ \A f \in flights : f.n <= begun /\ (~f.served => f.read = None)
  /\ \A f, g \in flights : f.n = g.n => f = g
  /\ snapshot # None => snapshot.load <= begun /\ \A f \in flights : f.n # snapshot.load

\* What the last request begun has read, be it on its way or shown.
LastRead(v) ==
  \/ \E f \in flights : f.n = begun /\ f.served /\ f.read = v /\ v # None
  \/ snapshot # None /\ snapshot.load = begun /\ snapshot.version = v

DataKnown(v) ==
  \/ v = latest \/ unseen \/ session = None \/ "refresh" \in timers
  \/ stream.at = "open" /\ stream.seen < latest

ReadIsKnown == \A v : LastRead(v) => DataKnown(v)

AskedByOwner ==
  session # None =>
    /\ \A f \in flights : f.n > mark => f.of = cookie
    /\ snapshot # None /\ snapshot.load > mark => snapshot.of = cookie

\* A sign-in is the only call there is, and nobody is signed in.
SignInAlone == \A c \in calls : c.kind = "in" => calls = {c} /\ session = None

PageInv == PageIsTyped /\ Numbered /\ ReadIsKnown /\ AskedByOwner /\ SignInAlone

LEMMA InitPage == Page!Init => PageInv
<1> SUFFICES ASSUME Page!Init PROVE PageInv
  OBVIOUS
<1>1. unseen \in BOOLEAN
  BY DEF Page!Init
<1>2. PageIsTyped
  BY <1>1 DEF Page!Init, Page!Closed, PageIsTyped
<1>3. Numbered /\ ReadIsKnown /\ AskedByOwner /\ SignInAlone
  BY DEF Page!Init, Numbered, ReadIsKnown, LastRead, AskedByOwner, SignInAlone
<1> QED
  BY <1>2, <1>3 DEF PageInv

\* A change is announced on the stream, or there is none to announce it.
LEMMA StreamSteps ==
  ASSUME PageInv,
         \/ Page!Change \/ Page!Connected \/ Page!Event \/ Page!StreamError
         \/ Page!Reconnect \/ Page!Hide \/ \E u \in PortalUsers : Page!Revoke(u)
  PROVE  PageInv'
<1>1. UNCHANGED <<cookie, session, snapshot, flights, begun, calls, mark>>
  BY DEF Page!Change, Page!Connected, Page!Event, Page!StreamError, Page!Reconnect, Page!Hide,
     Page!Revoke, Page!page
<1>2. /\ latest' \in Nat
      /\ stream'.at = "open" =>
           {"at", "seen"} \subseteq DOMAIN stream' /\ stream'.seen \in 0..latest'
      /\ \/ latest' = latest
         \/ latest' = latest + 1 /\ stream' = stream /\ (unseen' \/ stream.at = "open")
      /\ unseen' \in BOOLEAN /\ (unseen => unseen')
      /\ "refresh" \in timers => "refresh" \in timers'
      /\ stream.at = "open" /\ stream.seen < latest =>
           \/ unseen' \/ "refresh" \in timers'
           \/ stream'.at = "open" /\ stream'.seen < latest'
  <2>1. CASE Page!Change
    <3>1. /\ latest' = latest + 1 /\ UNCHANGED <<stream, timers>>
          /\ unseen' \in BOOLEAN /\ (unseen' <=> unseen \/ stream.at # "open")
      BY <2>1 DEF Page!Change, Page!page, Page!Missing
    <3> QED
      BY <3>1 DEF PageInv, PageIsTyped
  <2>2. CASE Page!Connected
    <3>1. /\ latest' = latest /\ unseen' = unseen /\ stream.at = "connecting"
          /\ \/ stream' = [at |-> "open", of |-> stream.of, seen |-> latest]
             \/ stream' = [at |-> "closed"]
          /\ "refresh" \in timers => "refresh" \in timers'
      BY <2>2 DEF Page!Connected, Page!Closed
    <3> QED
      BY <3>1 DEF PageInv, PageIsTyped
  <2>3. CASE Page!Event
    <3>1. /\ latest' = latest /\ unseen' = unseen /\ "refresh" \in timers'
          /\ stream' = [stream EXCEPT !.seen = latest]
      BY <2>3 DEF Page!Event
    <3>2. {"at", "seen"} \subseteq DOMAIN stream' /\ stream'.seen \in 0..latest
      BY <2>3, <3>1 DEF Page!Event, PageInv, PageIsTyped
    <3> QED
      BY <3>1, <3>2 DEF PageInv, PageIsTyped
  <2>4. CASE Page!StreamError \/ Page!Hide
    <3>1. /\ latest' = latest /\ stream' = [at |-> "closed"]
          /\ "refresh" \in timers => "refresh" \in timers'
          /\ unseen' \in BOOLEAN
          /\ unseen' <=> unseen \/ (stream.at = "open" /\ stream.seen < latest)
      BY <2>4 DEF Page!StreamError, Page!Hide, Page!Closed, Page!Unsent
    <3> QED
      BY <3>1 DEF PageInv, PageIsTyped
  <2>5. CASE Page!Reconnect
    <3>1. /\ latest' = latest /\ unseen' = unseen
          /\ "refresh" \in timers => "refresh" \in timers'
          /\ \/ stream' = stream
             \/ stream.at = "closed" /\ stream' = [at |-> "connecting", of |-> cookie]
      BY <2>5 DEF Page!Reconnect, Page!Closed
    <3> QED
      BY <3>1 DEF PageInv, PageIsTyped
  <2>6. CASE \E u \in PortalUsers : Page!Revoke(u)
    BY <2>6 DEF Page!Revoke, Page!page, PageInv, PageIsTyped
  <2> QED
    BY <2>1, <2>2, <2>3, <2>4, <2>5, <2>6
<1>3. PageIsTyped' /\ Numbered' /\ AskedByOwner' /\ SignInAlone'
  BY <1>1, <1>2 DEF PageInv, PageIsTyped, Numbered, AskedByOwner, SignInAlone
<1>4. ASSUME NEW v, LastRead(v)' PROVE DataKnown(v)'
  <2>1. LastRead(v)
    BY <1>1, <1>4 DEF LastRead
  <2>2. DataKnown(v)
    BY <2>1 DEF PageInv, ReadIsKnown
  <2>3. CASE latest' = latest
    BY <1>1, <1>2, <2>2, <2>3 DEF DataKnown
  <2>4. CASE latest' = latest + 1 /\ stream' = stream /\ (unseen' \/ stream.at = "open")
    <3>1. stream.at = "open" => stream.seen < latest'
      BY <2>4 DEF PageInv, PageIsTyped
    <3> QED
      BY <2>4, <3>1 DEF DataKnown
  <2> QED
    BY <1>2, <2>3, <2>4
<1> QED
  BY <1>3, <1>4 DEF PageInv, ReadIsKnown

\* Only the last request begun brings the page up to date.
LEMMA Served ==
  ASSUME PageInv, NEW f \in flights, Page!Serve(f)
  PROVE  PageInv'
<1>1. UNCHANGED <<cookie, session, snapshot, stream, timers, begun, calls, mark>> /\ ~f.served
  BY DEF Page!Serve, Page!page
<1>2. f \in FlightRow /\ f.n <= begun /\ f.read = None
  BY <1>1 DEF PageInv, PageIsTyped, Numbered
<1>3. PICK g :
        /\ flights' = (flights \ {f}) \cup {g}
        /\ g \in FlightRow /\ g.n = f.n /\ g.of = f.of /\ g.served
        /\ unseen' \in BOOLEAN
        /\ \/ latest' = latest /\ unseen' = unseen /\ g.read = None
           \/ /\ latest' \in {latest, latest + 1} /\ g.read = latest'
              /\ f.n # begun =>
                   (unseen' <=> unseen \/ (latest' # latest /\ stream.at # "open"))
  <2>1. CASE f.of \notin live
    <3> DEFINE g == [f EXCEPT !.served = TRUE]
    <3>1. g \in FlightRow /\ g.n = f.n /\ g.of = f.of /\ g.served /\ g.read = None
      BY <1>2 DEF FlightRow
    <3>2. latest' = latest /\ unseen' = unseen /\ flights' = (flights \ {f}) \cup {g}
      BY <2>1 DEF Page!Serve
    <3>3. unseen' \in BOOLEAN
      BY <3>2 DEF PageInv, PageIsTyped
    <3> HIDE DEF g
    <3> QED
      BY <3>1, <3>2, <3>3
  <2>2. CASE f.of \in live
    <3>1. /\ latest' \in {latest, latest + 1}
          /\ unseen' \in BOOLEAN
          /\ unseen' <=> f.n # begun /\ (unseen \/ (latest' # latest /\ stream.at # "open"))
          /\ flights' = (flights \ {f}) \cup {[f EXCEPT !.served = TRUE, !.read = latest']}
      BY <2>2 DEF Page!Serve, Page!Missing
    <3>2. latest' \in Nat
      BY <3>1 DEF PageInv, PageIsTyped
    <3> DEFINE g == [f EXCEPT !.served = TRUE, !.read = latest']
    <3>3. g \in FlightRow /\ g.n = f.n /\ g.of = f.of /\ g.served /\ g.read = latest'
      BY <1>2, <3>2 DEF FlightRow
    <3>4. flights' = (flights \ {f}) \cup {g}
      BY <3>1
    <3>5. f.n # begun => (unseen' <=> unseen \/ (latest' # latest /\ stream.at # "open"))
      BY <3>1
    <3> HIDE DEF g
    <3> QED
      BY <3>1, <3>3, <3>4, <3>5
  <2> QED
    BY <2>1, <2>2
<1>4. PageIsTyped' /\ SignInAlone'
  BY <1>1, <1>3 DEF PageInv, PageIsTyped, SignInAlone
<1>5. Numbered' /\ AskedByOwner'
  BY <1>1, <1>2, <1>3 DEF PageInv, PageIsTyped, Numbered, AskedByOwner, FlightRow
<1>6. ASSUME NEW v, LastRead(v)' PROVE DataKnown(v)'
  <2>1. CASE f.n = begun
    <3>1. v = latest'
      BY <1>1, <1>3, <1>6, <2>1 DEF LastRead, PageInv, Numbered
    <3> QED
      BY <3>1 DEF DataKnown
  <2>2. CASE f.n # begun
    <3>1. LastRead(v)
      BY <1>1, <1>3, <1>6, <2>2 DEF LastRead
    <3>2. DataKnown(v)
      BY <3>1 DEF PageInv, ReadIsKnown
    <3>3. stream.at = "open" => stream.seen \in 0..latest
      BY DEF PageInv, PageIsTyped
    <3>4. latest \in Nat
      BY DEF PageInv, PageIsTyped
    <3> QED
      BY <1>1, <1>3, <2>2, <3>2, <3>3, <3>4 DEF DataKnown
  <2> QED
    BY <2>1, <2>2
<1> QED
  BY <1>4, <1>5, <1>6 DEF PageInv, ReadIsKnown

\* A request that is begun has read nothing yet.
LEMMA Begins ==
  ASSUME PageInv, NEW kind \in {"load", "command"}, Page!Request(kind),
         UNCHANGED <<latest, cookie, session, snapshot, calls, unseen, mark>>,
         stream'.at = "open" => stream' = stream
  PROVE  PageInv'
<1> DEFINE f == [n |-> begun', kind |-> kind, of |-> cookie, read |-> None, served |-> FALSE]
<1>1. begun' = begun + 1 /\ flights' = flights \cup {f}
  BY DEF Page!Request
<1>2. f \in FlightRow /\ f.n = begun' /\ f.of = cookie /\ ~f.served /\ f.read = None
  BY <1>1 DEF FlightRow, PageInv, PageIsTyped
<1> HIDE DEF f
<1>3. PageIsTyped' /\ SignInAlone'
  BY <1>1, <1>2 DEF PageInv, PageIsTyped, SignInAlone
<1>4. \A g \in flights : g.n \in Nat /\ g.n <= begun
  BY DEF PageInv, PageIsTyped, Numbered, FlightRow
<1>5. snapshot # None => snapshot.load \in Nat /\ snapshot.load <= begun
  BY DEF PageInv, PageIsTyped, Numbered, ShownRow
<1>6. Numbered'
  BY <1>1, <1>2, <1>4, <1>5 DEF PageInv, PageIsTyped, Numbered
<1>7. AskedByOwner'
  BY <1>1, <1>2 DEF PageInv, AskedByOwner
<1>8. \A v : ~LastRead(v)'
  BY <1>1, <1>2, <1>4, <1>5 DEF LastRead, PageInv, PageIsTyped
<1> QED
  BY <1>3, <1>6, <1>7, <1>8 DEF PageInv, ReadIsKnown

LEMMA Requests ==
  ASSUME PageInv, Page!Load \/ Page!Command \/ Page!Show
  PROVE  PageInv'
<1>1. CASE Page!Load
  BY <1>1, Begins DEF Page!Load
<1>2. CASE Page!Command
  BY <1>2, Begins DEF Page!Command, Page!page
<1>3. CASE Page!Show /\ session # None
  <2>1. \/ stream' = stream
        \/ stream' = [at |-> "connecting", of |-> cookie]
    BY <1>3 DEF Page!Show
  <2>2. stream'.at = "open" => stream' = stream
    BY <2>1
  <2> QED
    BY <1>3, <2>2, Begins DEF Page!Show
<1>4. CASE Page!Show /\ session = None
  BY <1>4 DEF Page!Show, PageInv, PageIsTyped, Numbered, ReadIsKnown, LastRead, DataKnown,
     AskedByOwner, SignInAlone
<1> QED
  BY <1>1, <1>2, <1>3, <1>4

\* An answer is shown whatever the page shows by then, and was asked by the same cookie.
LEMMA Answers ==
  ASSUME PageInv, NEW f \in flights, Page!Answered(f) \/ Page!Lost(f)
  PROVE  PageInv'
<1>1. /\ UNCHANGED <<latest, cookie, session, stream, timers, begun, calls, unseen, mark>>
      /\ flights' = flights \ {f}
      /\ \/ snapshot' = snapshot
         \/ /\ f.served /\ f.read # None
            /\ snapshot' = [of |-> f.of, version |-> f.read, load |-> f.n]
  BY DEF Page!Answered, Page!Lost
<1>2. f \in FlightRow
  BY DEF PageInv, PageIsTyped
<1>3. \/ snapshot' = snapshot
      \/ /\ f.served /\ f.read # None
         /\ snapshot' \in ShownRow
         /\ snapshot'.of = f.of /\ snapshot'.version = f.read /\ snapshot'.load = f.n
  BY <1>1, <1>2 DEF FlightRow, ShownRow
<1>4. PageIsTyped' /\ SignInAlone'
  BY <1>1, <1>3 DEF PageInv, PageIsTyped, SignInAlone
<1>5. Numbered'
  BY <1>1, <1>3 DEF PageInv, Numbered
<1>6. AskedByOwner'
  BY <1>1, <1>3 DEF PageInv, AskedByOwner
<1>7. ASSUME NEW v, LastRead(v)' PROVE LastRead(v)
  BY <1>1, <1>3, <1>7 DEF LastRead
<1>8. ReadIsKnown'
  BY <1>1, <1>7 DEF PageInv, ReadIsKnown, DataKnown
<1> QED
  BY <1>4, <1>5, <1>6, <1>8 DEF PageInv

\* A session that comes brings a timer, and makes what is under way that of another time.
LEMMA Sessions ==
  ASSUME PageInv, UNCHANGED latest, begun' = begun,
         flights' \subseteq flights, snapshot' = snapshot \/ snapshot' = None,
         cookie' \in PortalUsers \cup {None}, session' = session /\ session # None => cookie' = cookie,
         mark' = IF session' = session THEN mark ELSE begun,
         session' # session => session' = None \/ "refresh" \in timers',
         session' # session => stream'.at # "open",
         session' = session => UNCHANGED <<stream, timers>>,
         unseen' \in BOOLEAN, unseen => unseen',
         calls' \subseteq PageCall, SignInAlone'
  PROVE  PageInv'
<1>1. PageIsTyped'
  BY DEF PageInv, PageIsTyped
<1>2. Numbered'
  BY DEF PageInv, Numbered
<1>3. AskedByOwner'
  <2>1. CASE session' = session
    BY <2>1 DEF PageInv, AskedByOwner
  <2>2. CASE session' # session
    <3>1. \A f \in flights : f.n \in Nat /\ f.n <= begun
      BY DEF PageInv, PageIsTyped, Numbered, FlightRow
    <3>2. snapshot # None => snapshot.load \in Nat /\ snapshot.load <= begun
      BY DEF PageInv, PageIsTyped, Numbered, ShownRow
    <3>3. begun \in Nat
      BY DEF PageInv, PageIsTyped
    <3> QED
      BY <2>2, <3>1, <3>2, <3>3 DEF AskedByOwner
  <2> QED
    BY <2>1, <2>2
<1>4. ASSUME NEW v, LastRead(v)' PROVE DataKnown(v)'
  <2>1. LastRead(v)
    BY <1>4 DEF LastRead
  <2>2. DataKnown(v)
    BY <2>1 DEF PageInv, ReadIsKnown
  <2> QED
    BY <2>2 DEF DataKnown
<1> QED
  BY <1>1, <1>2, <1>3, <1>4 DEF PageInv, ReadIsKnown

LEMMA CallAnswers ==
  ASSUME PageInv, NEW c \in calls, Page!CallAnswered(c)
  PROVE  PageInv'
<1> DEFINE who == CASE c.kind = "in" -> c.who [] c.kind = "out" -> None
                    [] c.kind = "read" -> IF c.who = None THEN session ELSE c.who
<1>1. c \in PageCall /\ c.kind \in {"in", "out", "read"} /\ c.who \in PortalUsers \cup {None}
  BY DEF PageInv, PageIsTyped, PageCall
<1>2. /\ calls' = calls \ {c} /\ UNCHANGED <<latest, flights, begun>>
      /\ snapshot' = snapshot \/ snapshot' = None
      /\ mark' = IF session' = session THEN mark ELSE begun
      /\ Page!Become(who)
      /\ unseen' = (unseen \/ (session' # session /\ Page!Unsent))
      /\ cookie' = CASE c.kind = "in" -> c.who [] c.kind = "out" -> None
                     [] c.kind = "read" -> cookie
  BY <1>1 DEF Page!CallAnswered
<1>3. unseen' \in BOOLEAN /\ (unseen => unseen')
  BY <1>2 DEF PageInv, PageIsTyped
<1> HIDE DEF who
<1>4. /\ session' = session => UNCHANGED <<stream, timers>>
      /\ session' # session =>
           /\ stream'.at # "open"
           /\ session' = None \/ "refresh" \in timers'
  <2>1. CASE who = session
    BY <1>2, <2>1 DEF Page!Become
  <2>2. CASE who # session
    <3>1. /\ session' = who
          /\ \/ stream' = [at |-> "closed"]
             \/ stream' = [at |-> "connecting", of |-> cookie']
          /\ timers' = IF who = None THEN {} ELSE {"refresh"}
      BY <1>2, <2>2 DEF Page!Become, Page!Effect, Page!Closed
    <3> QED
      BY <2>2, <3>1
  <2> QED
    BY <2>1, <2>2
<1>5. /\ cookie' \in PortalUsers \cup {None}
      /\ session' = session /\ session # None => cookie' = cookie
  <2>1. CASE c.kind = "in"
    BY <1>1, <1>2, <2>1 DEF PageInv, SignInAlone
  <2>2. CASE c.kind = "out"
    <3>1. cookie' = None
      BY <1>2, <2>2
    <3>2. session' = None
      BY <2>2 DEF Page!CallAnswered, Page!Become
    <3> QED
      BY <3>1, <3>2
  <2>3. CASE c.kind = "read"
    BY <1>2, <2>3 DEF PageInv, PageIsTyped
  <2> QED
    BY <1>1, <2>1, <2>2, <2>3
<1>6. calls' \subseteq PageCall /\ SignInAlone'
  BY <1>2 DEF PageInv, PageIsTyped, SignInAlone
<1>7. UNCHANGED latest /\ begun' = begun /\ flights' \subseteq flights
  BY <1>2
<1> QED
  BY <1>2, <1>3, <1>4, <1>5, <1>6, <1>7, Sessions

LEMMA Reloads ==
  ASSUME PageInv, Page!Reload
  PROVE  PageInv'
<1>1. /\ UNCHANGED <<latest, cookie, begun>> /\ session' = None /\ snapshot' = None
      /\ stream' = [at |-> "closed"] /\ flights' = {} /\ mark' = begun
      /\ calls' = {[kind |-> "read", who |-> cookie, served |-> FALSE]}
      /\ unseen' = (unseen \/ Page!Unsent)
  BY DEF Page!Reload, Page!Closed
<1>2. unseen' \in BOOLEAN
  BY <1>1 DEF PageInv, PageIsTyped
<1>3. \A c \in calls' : c \in PageCall /\ c.kind = "read"
  <2>1. cookie \in PortalUsers \cup {None}
    BY DEF PageInv, PageIsTyped
  <2> DEFINE read == [kind |-> "read", who |-> cookie, served |-> FALSE]
  <2>2. read \in PageCall /\ read.kind = "read"
    BY <2>1 DEF PageCall
  <2>3. calls' = {read}
    BY <1>1
  <2> HIDE DEF read
  <2> QED
    BY <2>2, <2>3
<1>4. PageIsTyped' /\ SignInAlone'
  BY <1>1, <1>2, <1>3 DEF PageInv, PageIsTyped, SignInAlone
<1>5. Numbered' /\ ReadIsKnown' /\ AskedByOwner'
  BY <1>1 DEF PageInv, Numbered, ReadIsKnown, LastRead, DataKnown, AskedByOwner
<1> QED
  BY <1>4, <1>5 DEF PageInv

\* A call is begun, served or lost: a sign-in when there is no other, and nobody else.
LEMMA CallSteps ==
  ASSUME PageInv,
         Page!SessionCall \/ \E c \in calls : Page!ServeCall(c) \/ Page!CallLost(c)
  PROVE  PageInv'
<1>1. UNCHANGED <<latest, cookie, session, snapshot, stream, timers, flights, begun, unseen,
                  mark>>
  BY DEF Page!SessionCall, Page!ServeCall, Page!CallLost, Page!page
<1>2. calls' \subseteq PageCall /\ SignInAlone'
  <2>1. CASE Page!SessionCall
    <3>1. PICK kind \in {"in", "out", "read"}, who \in PortalUsers \cup {None} :
            /\ calls' = calls \cup {[kind |-> kind, who |-> who, served |-> FALSE]}
            /\ kind = "in" => session = None /\ calls = {}
            /\ kind # "in" => session # None
      BY <2>1 DEF Page!SessionCall, Page!Ask, PageInv, PageIsTyped
    <3> DEFINE new == [kind |-> kind, who |-> who, served |-> FALSE]
    <3>2. new \in PageCall /\ new.kind = kind
      BY DEF PageCall
    <3> HIDE DEF new
    <3> QED
      BY <1>1, <3>1, <3>2 DEF new, PageInv, PageIsTyped, SignInAlone
  <2>2. ASSUME NEW c \in calls, Page!ServeCall(c)
        PROVE  calls' \subseteq PageCall /\ SignInAlone'
    <3>1. c \in PageCall
      BY DEF PageInv, PageIsTyped
    <3> DEFINE who == IF c.kind = "read" /\ c.who \notin live THEN None ELSE c.who
               d == [c EXCEPT !.served = TRUE, !.who = who]
    <3>2. calls' = (calls \ {c}) \cup {d}
      BY <2>2 DEF Page!ServeCall
    <3>3. who \in PortalUsers \cup {None}
      BY <3>1 DEF PageCall
    <3>4. d \in PageCall /\ d.kind = c.kind
      BY <3>1, <3>3 DEF PageCall
    <3> HIDE DEF d, who
    <3> QED
      BY <1>1, <3>2, <3>4 DEF PageInv, PageIsTyped, SignInAlone
  <2>3. ASSUME NEW c \in calls, Page!CallLost(c)
        PROVE  calls' \subseteq PageCall /\ SignInAlone'
    BY <1>1, <2>3 DEF Page!CallLost, PageInv, PageIsTyped, SignInAlone
  <2> QED
    BY <2>1, <2>2, <2>3
<1>3. PageIsTyped' /\ Numbered' /\ AskedByOwner' /\ ReadIsKnown'
  BY <1>1, <1>2 DEF PageInv, PageIsTyped, Numbered, AskedByOwner, ReadIsKnown, LastRead, DataKnown
<1> QED
  BY <1>2, <1>3 DEF PageInv

LEMMA PageSteps ==
  ASSUME PageInv, [Page!Next]_Page!vars
  PROVE  PageInv'
<1>1. CASE Page!Next
  BY <1>1, StreamSteps, Served, Requests, Answers, CallAnswers, Reloads, CallSteps DEF Page!Next
<1>2. CASE UNCHANGED Page!vars
  BY <1>2 DEF Page!vars, PageInv, PageIsTyped, Numbered, ReadIsKnown, LastRead, DataKnown,
     AskedByOwner, SignInAlone
<1> QED
  BY <1>1, <1>2

LEMMA PageAlways == Page!Spec => []PageInv
  BY InitPage, PageSteps, PTL DEF Page!Spec

\* With the stream open and sent to the end, and nothing left to load, the page
\* shows the data as it is (src/app/portal/page.tsx: every change leads to a load).
THEOREM PageIsFreshHolds == Page!Spec => []Page!PageIsFresh
<1>1. PageInv => Page!PageIsFresh
  <2> SUFFICES ASSUME PageInv, stream.at = "open", stream.seen = latest,
                      "refresh" \notin timers, Page!Shows(begun), ~unseen
               PROVE  snapshot.version = latest
    BY DEF Page!PageIsFresh
  <2>1. LastRead(snapshot.version)
    BY DEF Page!Shows, LastRead
  <2>2. DataKnown(snapshot.version)
    BY <2>1 DEF PageInv, ReadIsKnown
  <2>3. latest \in Nat /\ session # None
    BY DEF PageInv, PageIsTyped, Page!Shows
  <2> QED
    BY <2>2, <2>3 DEF DataKnown
<1> QED
  BY <1>1, PageAlways, PTL

\* What the page asks for after a sign-in is that of the user who signed in
\* (src/app/portal/page.tsx: the cookie and the session change in one answer).
THEOREM DataIsOwnHolds == Page!Spec => []Page!DataIsOwn
<1>1. PageInv => Page!DataIsOwn
  <2> SUFFICES ASSUME PageInv, NEW load \in (mark + 1)..begun, Page!Shows(load),
                      cookie = session
               PROVE  snapshot.of = session
    BY DEF Page!DataIsOwn
  <2>1. mark \in Int /\ load > mark
    BY DEF PageInv, PageIsTyped
  <2> QED
    BY <2>1 DEF PageInv, AskedByOwner, Page!Shows
<1> QED
  BY <1>1, PageAlways, PTL

-----------------------------------------------------------------------------
(***************************************************************************)
(* Portal.  A walk has listed, once, what was in sight all along and is     *)
(* not beyond its cursor; the stream has sent what its cursor has passed,   *)
(* and a poll under way carries what lies between.                          *)
(***************************************************************************)

ListKeys == [at : Int, id : Int]

ListRow == [at : Int, committed : BOOLEAN, status : Screen!Statuses]

OrderRows ==
  /\ now \in Int /\ DOMAIN orders = OrderIds
  /\ \A o \in OrderIds : orders[o] = None \/ orders[o] \in ListRow

HasRow(o) == o \in OrderIds /\ orders[o] # None

\* The list: what is not beyond the cursor was listed.
Walking ==
  /\ {"cursor", "seen", "held", "at"} \subseteq DOMAIN walk
  /\ walk.seen \in [OrderIds -> {0, 1}] /\ walk.held \subseteq OrderIds
  /\ walk.at = "walking" =>
       /\ walk.cursor \in ListKeys \cup {None} /\ walk.held \subseteq Screen!Visible
       /\ \A o \in OrderIds : walk.seen[o] = 1 =>
            /\ HasRow(o) /\ walk.cursor # None /\ ~Screen!Before(Screen!KeyOf(o), walk.cursor)
       /\ \A o \in walk.held : Screen!Beyond(walk.cursor, Screen!KeyOf(o)) \/ walk.seen[o] = 1
  /\ walk.at = "done" => \A o \in walk.held : walk.seen[o] = 1

\* The stream: what a cursor passed was sent, comes with its poll, or was late.
Reached(c, o, ids) ==
  ~Screen!Before(c, Screen!KeyOf(o)) => o \in stream.sent \cup stream.late \cup ids

Streaming ==
  /\ {"cursor", "polls", "sent", "late", "at"} \subseteq DOMAIN stream
  /\ stream.at = "open" => \A o \in Screen!Visible :
       /\ stream.cursor # None => Reached(stream.cursor, o, {})
       /\ \A p \in stream.polls : Reached(p.last, o, p.ids)
  /\ stream.at = "closed" => stream.polls = {}
  /\ \A p \in stream.polls : p.last # None

ScreenInv == OrderRows /\ Walking /\ Streaming

LEMMA KeysAreTyped ==
  ASSUME OrdersAreNumbered, OrderRows, NEW o, HasRow(o)
  PROVE  Screen!KeyOf(o) \in ListKeys
<1>1. orders[o] \in ListRow /\ o \in Int
  BY DEF OrdersAreNumbered, OrderRows, HasRow
<1>2. orders[o].at \in Int
  BY <1>1 DEF ListRow
<1> QED
  BY <1>1, <1>2 DEF Screen!KeyOf, ListKeys

LEMMA KeysOrder ==
  ASSUME NEW a \in ListKeys, NEW b \in ListKeys, NEW c \in ListKeys
  PROVE  Screen!Before(a, b) /\ ~Screen!Before(c, b) => ~Screen!Before(c, a)
BY DEF ListKeys, Screen!Before

LEMMA InitScreen == ASSUME Screen!Init PROVE ScreenInv
<1>1. OrderRows
  BY DEF Screen!Init, OrderRows
<1>2. Walking
  BY DEF Screen!Init, Walking
<1>3. Streaming
  BY DEF Screen!Init, Streaming
<1> QED
  BY <1>1, <1>2, <1>3 DEF ScreenInv

\* An order is recorded, committed or moved on: its key stays, and where the stream has
\* passed it, it is late.
LEMMA OrderMoves ==
  ASSUME OrdersAreNumbered, ScreenInv, NEW o \in OrderIds,
         Screen!Record(o) \/ Screen!Commit(o) \/ Screen!MoveOrder(o)
  PROVE  ScreenInv'
<1>1. PICK row \in ListRow :
        /\ role' = role /\ now' = now /\ orders' = [orders EXCEPT ![o] = row]
        /\ orders[o] # None => row.at = orders[o].at
        /\ orders[o] = None => ~row.committed
  <2>1. CASE Screen!Record(o)
    <3> DEFINE row == [at |-> now, committed |-> FALSE, status |-> Reach[1]]
    <3>1. Reach[1] \in Screen!Statuses
      BY DEF OrdersAreNumbered
    <3>2. row \in ListRow /\ ~row.committed
      BY <3>1 DEF ListRow, ScreenInv, OrderRows
    <3>3. orders[o] = None /\ role' = role /\ now' = now /\ orders' = [orders EXCEPT ![o] = row]
      BY <2>1 DEF Screen!Record
    <3> HIDE DEF row
    <3> QED
      BY <3>2, <3>3
  <2>2. CASE Screen!Commit(o)
    <3> DEFINE row == [orders[o] EXCEPT !.committed = TRUE]
    <3>1. orders[o] # None /\ orders[o] \in ListRow
      BY <2>2 DEF Screen!Commit, ScreenInv, OrderRows
    <3>2. row \in ListRow /\ row.at = orders[o].at
      BY <3>1 DEF ListRow
    <3>3. role' = role /\ now' = now /\ orders' = [orders EXCEPT ![o] = row]
      BY <2>2 DEF Screen!Commit
    <3> HIDE DEF row
    <3> QED
      BY <3>1, <3>2, <3>3
  <2>3. CASE Screen!MoveOrder(o)
    <3>1. PICK i \in 1..(Len(Reach) - 1) : orders' = [orders EXCEPT ![o].status = Reach[i + 1]]
      BY <2>3 DEF Screen!MoveOrder
    <3> DEFINE row == [orders[o] EXCEPT !.status = Reach[i + 1]]
    <3>2. orders[o] # None /\ orders[o] \in ListRow
      BY <2>3 DEF Screen!MoveOrder, Screen!Live, ScreenInv, OrderRows
    <3>3. Reach[i + 1] \in Screen!Statuses
      BY <3>1 DEF OrdersAreNumbered
    <3>4. row \in ListRow /\ row.at = orders[o].at
      BY <3>2, <3>3 DEF ListRow
    <3>5. role' = role /\ now' = now /\ orders' = [orders EXCEPT ![o] = row]
      BY <2>3, <3>1 DEF Screen!MoveOrder
    <3> HIDE DEF row
    <3> QED
      BY <3>2, <3>4, <3>5
  <2> QED
    BY <2>1, <2>2, <2>3
<1>2. row # None /\ DOMAIN orders = OrderIds /\ DOMAIN orders' = OrderIds
  BY <1>1 DEF OrdersAreNumbered, ListRow, ScreenInv, OrderRows
<1>3. OrderRows'
  BY <1>1, <1>2 DEF ScreenInv, OrderRows
<1>4. /\ \A u \in OrderIds \ {o} : orders'[u] = orders[u]
      /\ orders'[o] = row
  BY <1>1, <1>2
<1>5. \A u : HasRow(u) => HasRow(u)' /\ Screen!KeyOf(u)' = Screen!KeyOf(u)
  <2>1. ASSUME NEW u, HasRow(u) PROVE HasRow(u)' /\ orders'[u].at = orders[u].at
    BY <1>1, <1>2, <1>4, <2>1 DEF HasRow
  <2> QED
    BY <2>1 DEF Screen!KeyOf
<1>6. \A u \in OrderIds \ {o} : u \in Screen!Visible' <=> u \in Screen!Visible
  BY <1>1, <1>4 DEF Screen!Visible, Screen!Live, Screen!SeesRow
<1>7. Screen!Visible \subseteq OrderIds /\ \A u \in Screen!Visible : HasRow(u)
  BY DEF Screen!Visible, Screen!Live, HasRow
<1>8. Screen!Visible' \subseteq OrderIds /\ (o \in Screen!Visible' => HasRow(o))
  BY <1>1, <1>2, <1>4 DEF Screen!Visible, Screen!Live, HasRow
<1>9. /\ walk' = walk \/ walk' = [walk EXCEPT !.held = @ \ {o}]
      /\ stream' = stream \/ stream' = [stream EXCEPT !.late = @ \cup {o}]
  BY DEF Screen!Record, Screen!Commit, Screen!MoveOrder, Screen!Appear
<1>10. /\ {"cursor", "seen", "held", "at"} \subseteq DOMAIN walk'
       /\ walk'.cursor = walk.cursor /\ walk'.seen = walk.seen /\ walk'.at = walk.at
       /\ walk'.held \subseteq walk.held
  BY <1>9 DEF ScreenInv, Walking
<1>11. /\ {"cursor", "polls", "sent", "late", "at"} \subseteq DOMAIN stream'
       /\ stream'.cursor = stream.cursor /\ stream'.polls = stream.polls
       /\ stream'.sent = stream.sent /\ stream'.at = stream.at /\ stream.late \subseteq stream'.late
  BY <1>9 DEF ScreenInv, Streaming
<1>12. o \in walk'.held /\ o \in Screen!Visible => o \in Screen!Visible'
  <2>1. CASE Screen!Record(o)
    BY <2>1 DEF Screen!Record, Screen!Visible, Screen!Live
  <2>2. CASE Screen!Commit(o)
    BY <2>2 DEF Screen!Commit, Screen!Visible, Screen!Live
  <2>3. CASE Screen!MoveOrder(o) /\ Screen!SeesRow(orders'[o])
    <3>1. row.committed
      <4>1. PICK status : orders' = [orders EXCEPT ![o].status = status]
        BY <2>3 DEF Screen!MoveOrder
      <4>2. orders[o].committed /\ orders[o] \in ListRow
        BY <2>3 DEF Screen!MoveOrder, Screen!Live, ScreenInv, OrderRows
      <4> QED
        BY <1>2, <1>4, <4>1, <4>2 DEF ListRow
    <3> QED
      BY <1>1, <1>2, <1>4, <2>3, <3>1 DEF Screen!Visible, Screen!Live, Screen!SeesRow
  <2>4. CASE Screen!MoveOrder(o) /\ ~Screen!SeesRow(orders'[o])
    BY <2>4 DEF Screen!MoveOrder, ScreenInv, Walking
  <2> QED
    BY <2>1, <2>2, <2>3, <2>4
<1>13. Walking'
  <2>1. walk'.at = "walking" => walk'.held \subseteq Screen!Visible'
    BY <1>6, <1>10, <1>12 DEF ScreenInv, Walking
  <2>2. ASSUME NEW u \in walk.held, walk.at = "walking" PROVE HasRow(u)
    BY <1>7, <2>2 DEF ScreenInv, Walking
  <2>3. ASSUME NEW u \in OrderIds, walk'.at = "walking", walk'.seen[u] = 1
        PROVE  /\ HasRow(u)' /\ walk'.cursor # None
               /\ ~Screen!Before(Screen!KeyOf(u), walk.cursor)'
    BY <1>5, <1>10, <2>3 DEF ScreenInv, Walking, Screen!Before
  <2>4. ASSUME NEW u \in walk'.held, walk'.at = "walking"
        PROVE  Screen!Beyond(walk.cursor, Screen!KeyOf(u))' \/ walk'.seen[u] = 1
    BY <1>5, <1>10, <2>2, <2>4 DEF ScreenInv, Walking, Screen!Beyond, Screen!Before
  <2> QED
    BY <1>10, <2>1, <2>3, <2>4 DEF ScreenInv, Walking
<1>14. ASSUME stream.at = "open", o \in Screen!Visible', o \notin Screen!Visible
       PROVE  o \in stream'.late \/ ~Screen!Passed(Screen!KeyOf(o))
  BY <1>1, <1>2, <1>4, <1>8, <1>14 DEF Screen!Commit, Screen!MoveOrder, Screen!Record,
     Screen!Appear, HasRow, ScreenInv, Streaming
<1>15. Streaming'
  <2>1. ASSUME NEW u \in Screen!Visible', stream.at = "open",
               NEW c, NEW ids, u \in Screen!Visible => Reached(c, u, ids),
               u = o => (u \in stream'.late \/ Screen!Before(c, Screen!KeyOf(u))
                         \/ u \in Screen!Visible)
        PROVE  ~Screen!Before(c, Screen!KeyOf(u)') => u \in stream'.sent \cup stream'.late \cup ids
    <3>1. HasRow(u)
      BY <1>6, <1>7, <1>8
    <3>2. Screen!KeyOf(u)' = Screen!KeyOf(u)
      BY <1>5, <3>1
    <3> QED
      BY <1>6, <1>8, <1>11, <2>1, <3>2 DEF Reached
  <2>2. ASSUME NEW u \in Screen!Visible', stream.at = "open", stream.cursor # None
        PROVE  Reached(stream.cursor, u, {})'
    <3>1. u \in Screen!Visible => Reached(stream.cursor, u, {})
      BY <2>2 DEF ScreenInv, Streaming
    <3>2. u = o => u \in stream'.late \/ Screen!Before(stream.cursor, Screen!KeyOf(u))
                   \/ u \in Screen!Visible
      BY <1>14, <2>2 DEF Screen!Passed
    <3> QED
      BY <1>11, <2>1, <2>2, <3>1, <3>2 DEF Reached, Screen!Before
  <2>3. ASSUME NEW u \in Screen!Visible', stream.at = "open", NEW p \in stream.polls
        PROVE  ~Screen!Before(p.last, Screen!KeyOf(u)')
                 => u \in stream'.sent \cup stream'.late \cup p.ids
    <3>1. u \in Screen!Visible => Reached(p.last, u, p.ids)
      BY <2>3 DEF ScreenInv, Streaming
    <3>2. u = o => u \in stream'.late \/ Screen!Before(p.last, Screen!KeyOf(u))
                   \/ u \in Screen!Visible
      BY <1>14, <2>3 DEF Screen!Passed, ScreenInv, Streaming
    <3> QED
      BY <2>1, <2>3, <3>1, <3>2
  <2> QED
    BY <1>11, <2>2, <2>3 DEF ScreenInv, Streaming, Reached, Screen!Before
<1> QED
  BY <1>3, <1>13, <1>15 DEF ScreenInv

\* A page lists nothing that was listed, and leaves behind nothing that was not.
LEMMA Walks ==
  ASSUME OrdersAreNumbered, ScreenInv, Screen!StartWalk \/ Screen!ReadPage
  PROVE  ScreenInv'
<1>1. UNCHANGED <<role, orders, stream, now>>
  BY DEF Screen!StartWalk, Screen!ReadPage
<1>2. OrderRows' /\ Streaming' /\ Screen!Visible' = Screen!Visible
  BY <1>1 DEF ScreenInv, OrderRows, Streaming, Reached, Screen!Visible, Screen!Live,
     Screen!SeesRow, Screen!KeyOf, Screen!Before
<1>3. \A u : (HasRow(u)' <=> HasRow(u)) /\ Screen!KeyOf(u)' = Screen!KeyOf(u)
  BY <1>1 DEF HasRow, Screen!KeyOf
<1>4. Screen!Visible \subseteq OrderIds /\ \A u \in Screen!Visible : HasRow(u)
  BY DEF Screen!Visible, Screen!Live, HasRow
<1>5. CASE Screen!StartWalk
  <2>1. walk' = [cursor |-> None, seen |-> [o \in OrderIds |-> 0], held |-> Screen!Visible,
                at |-> "walking"]
    BY <1>5 DEF Screen!StartWalk
  <2>2. Walking'
    BY <1>2, <1>4, <2>1 DEF Walking, Screen!Beyond
  <2> QED
    BY <1>2, <2>2 DEF ScreenInv
<1>6. CASE Screen!ReadPage
  <2> DEFINE rows == {o \in Screen!Visible : Screen!Beyond(walk.cursor, Screen!KeyOf(o))}
  <2>1. walk.at = "walking"
    BY <1>6 DEF Screen!ReadPage
  <2>2. PICK listed \in SUBSET rows :
          /\ \A o \in listed, u \in rows \ listed : Screen!Before(Screen!KeyOf(u), Screen!KeyOf(o))
          /\ \E cursor \in {None} \cup {Screen!KeyOf(o) : o \in listed} :
               /\ cursor = None <=> listed = rows
               /\ cursor # None => \A o \in listed : ~Screen!Before(Screen!KeyOf(o), cursor)
               /\ walk' = [walk EXCEPT !.cursor = cursor,
                             !.seen = [o \in OrderIds |-> IF o \in listed THEN @[o] + 1 ELSE @[o]],
                             !.at = IF cursor = None THEN "done" ELSE "walking"]
    BY <1>6 DEF Screen!ReadPage
  <2>3. PICK cursor \in {None} \cup {Screen!KeyOf(o) : o \in listed} :
               /\ cursor = None <=> listed = rows
               /\ cursor # None => \A o \in listed : ~Screen!Before(Screen!KeyOf(o), cursor)
               /\ walk' = [walk EXCEPT !.cursor = cursor,
                             !.seen = [o \in OrderIds |-> IF o \in listed THEN @[o] + 1 ELSE @[o]],
                             !.at = IF cursor = None THEN "done" ELSE "walking"]
    BY <2>2
  <2>4. /\ {"cursor", "seen", "held", "at"} \subseteq DOMAIN walk'
        /\ walk'.cursor = cursor /\ walk'.held = walk.held
        /\ walk'.seen = [o \in OrderIds |-> IF o \in listed THEN walk.seen[o] + 1 ELSE walk.seen[o]]
        /\ walk'.at = IF cursor = None THEN "done" ELSE "walking"
    BY <2>3 DEF ScreenInv, Walking
  <2>5. /\ walk.cursor \in ListKeys \cup {None} /\ walk.held \subseteq Screen!Visible
        /\ walk.seen \in [OrderIds -> {0, 1}]
        /\ \A o \in OrderIds : walk.seen[o] = 1 =>
             /\ HasRow(o) /\ walk.cursor # None
             /\ ~Screen!Before(Screen!KeyOf(o), walk.cursor)
        /\ \A o \in walk.held : Screen!Beyond(walk.cursor, Screen!KeyOf(o)) \/ walk.seen[o] = 1
    BY <2>1 DEF ScreenInv, Walking
  <2>6. \A o \in listed : o \in OrderIds /\ HasRow(o) /\ Screen!Beyond(walk.cursor, Screen!KeyOf(o))
    BY <1>4
  <2>7. \A o \in listed : walk.seen[o] = 0
    BY <2>5, <2>6 DEF Screen!Beyond
  <2>8. /\ walk'.seen \in [OrderIds -> {0, 1}]
        /\ \A o \in OrderIds : walk'.seen[o] = 1 <=> o \in listed \/ walk.seen[o] = 1
    BY <2>4, <2>5, <2>7
  <2>9. \A o : HasRow(o) => Screen!KeyOf(o) \in ListKeys
    BY KeysAreTyped DEF ScreenInv
  <2>10. CASE cursor = None
    <3>1. \A o \in walk.held : o \in listed \/ walk.seen[o] = 1
      BY <2>3, <2>5, <2>10
    <3>2. Walking'
      BY <2>4, <2>5, <2>8, <2>10, <3>1, <1>4 DEF Walking
    <3> QED
      BY <1>2, <3>2 DEF ScreenInv
  <2>11. CASE cursor # None
    <3>1. PICK last \in listed : cursor = Screen!KeyOf(last)
      BY <2>3, <2>11
    <3>2. cursor \in ListKeys /\ Screen!Beyond(walk.cursor, cursor)
      BY <2>6, <2>9, <3>1
    <3>3. ASSUME NEW o \in OrderIds, walk'.seen[o] = 1
          PROVE  HasRow(o) /\ ~Screen!Before(Screen!KeyOf(o), cursor)
      <4>1. CASE o \in listed
        BY <2>3, <2>6, <2>11, <4>1
      <4>2. CASE walk.seen[o] = 1
        <5>1. HasRow(o) /\ walk.cursor \in ListKeys /\ Screen!Before(cursor, walk.cursor)
              /\ ~Screen!Before(Screen!KeyOf(o), walk.cursor)
          BY <2>5, <3>2, <4>2 DEF Screen!Beyond
        <5> QED
          BY <2>9, <3>2, <5>1, KeysOrder
      <4> QED
        BY <2>8, <3>3, <4>1, <4>2
    <3>4. ASSUME NEW o \in walk.held
          PROVE  Screen!Beyond(cursor, Screen!KeyOf(o)) \/ walk'.seen[o] = 1
      <4>1. o \in listed \/ walk.seen[o] = 1 \/ o \in rows \ listed
        BY <2>5
      <4>2. o \in rows \ listed => Screen!Before(Screen!KeyOf(o), cursor)
        BY <2>2, <3>1
      <4>3. o \in OrderIds
        BY <1>4, <2>5
      <4> QED
        BY <2>8, <4>1, <4>2, <4>3 DEF Screen!Beyond
    <3>5. Walking'
      BY <1>2, <1>3, <1>4, <2>4, <2>5, <2>8, <2>11, <3>2, <3>3, <3>4
         DEF Walking, Screen!Beyond, Screen!Before
    <3> QED
      BY <1>2, <3>5 DEF ScreenInv
  <2> QED
    BY <2>10, <2>11
<1> QED
  BY <1>5, <1>6

\* The stream starts behind what it has not seen; a poll reads what follows the cursor.
LEMMA Streams ==
  ASSUME OrdersAreNumbered, ScreenInv, Screen!Connect \/ Screen!Poll \/ \E p \in stream.polls : Screen!Send(p)
  PROVE  ScreenInv'
<1>1. UNCHANGED <<role, orders, walk, now>>
  BY DEF Screen!Connect, Screen!Poll, Screen!Send
<1>2. /\ OrderRows' /\ Walking' /\ Screen!Visible' = Screen!Visible
      /\ \A u : Screen!KeyOf(u)' = Screen!KeyOf(u)
  BY <1>1 DEF ScreenInv, OrderRows, Walking, HasRow, Screen!Visible, Screen!Live,
     Screen!SeesRow, Screen!KeyOf, Screen!Before, Screen!Beyond
<1>3. Screen!Visible \subseteq Screen!Live
  BY DEF Screen!Visible
<1>4. CASE Screen!Connect
  <2>1. PICK c : stream' = [stream EXCEPT !.at = "open", !.late = Screen!Live, !.cursor = c]
    BY <1>4 DEF Screen!Connect
  <2>2. stream.polls = {}
    BY <1>4 DEF Screen!Connect, ScreenInv, Streaming
  <2>3. Streaming'
    BY <1>2, <1>3, <2>1, <2>2 DEF ScreenInv, Streaming, Reached
  <2> QED
    BY <1>2, <2>3 DEF ScreenInv
<1>5. CASE Screen!Poll
  <2> DEFINE rows == {o \in Screen!Visible :
                       stream.cursor = None \/ Screen!Before(stream.cursor, Screen!KeyOf(o))}
  <2>1. stream.at = "open"
    BY <1>5 DEF Screen!Poll
  <2>2. PICK ids \in SUBSET rows, last \in rows :
          /\ \A o \in ids, u \in rows \ ids : Screen!Before(Screen!KeyOf(o), Screen!KeyOf(u))
          /\ last \in ids
          /\ stream' = [stream EXCEPT !.polls = @ \cup {[ids |-> ids, last |-> Screen!KeyOf(last)]}]
    BY <1>5 DEF Screen!Poll
  <2> DEFINE p == [ids |-> ids, last |-> Screen!KeyOf(last)]
  <2>3. /\ {"cursor", "polls", "sent", "late", "at"} \subseteq DOMAIN stream'
        /\ stream'.cursor = stream.cursor /\ stream'.polls = stream.polls \cup {p}
        /\ stream'.sent = stream.sent /\ stream'.at = "open" /\ stream'.late = stream.late
    BY <2>1, <2>2 DEF ScreenInv, Streaming
  <2>4. ASSUME NEW o \in Screen!Visible PROVE Reached(p.last, o, p.ids)
    <3>1. CASE o \in ids
      BY <3>1 DEF Reached
    <3>2. CASE o \in rows \ ids
      BY <2>2, <3>2 DEF Reached
    <3>3. CASE o \notin rows
      BY <2>1, <3>3 DEF Reached, ScreenInv, Streaming
    <3> QED
      BY <3>1, <3>2, <3>3
  <2>5. p.last # None
    <3>1. Screen!KeyOf(last) \in ListKeys
      BY <1>3, KeysAreTyped DEF ScreenInv, HasRow, Screen!Live
    <3> QED
      BY <3>1 DEF OrdersAreNumbered, ListKeys
  <2> HIDE DEF p, rows
  <2>6. Streaming'
    BY <1>2, <2>1, <2>3, <2>4, <2>5 DEF ScreenInv, Streaming, Reached, Screen!Before
  <2> QED
    BY <1>2, <2>6 DEF ScreenInv
<1>6. ASSUME NEW p \in stream.polls, Screen!Send(p) PROVE ScreenInv'
  <2>1. stream.at # "closed"
    BY DEF ScreenInv, Streaming
  <2>2. stream' = [stream EXCEPT !.polls = @ \ {p}, !.sent = @ \cup p.ids, !.cursor = p.last]
    BY <1>6 DEF Screen!Send, Screen!NextCursor
  <2>3. /\ {"cursor", "polls", "sent", "late", "at"} \subseteq DOMAIN stream'
        /\ stream'.cursor = p.last /\ stream'.polls = stream.polls \ {p}
        /\ stream'.sent = stream.sent \cup p.ids /\ stream'.at = stream.at
        /\ stream'.late = stream.late
    BY <2>2 DEF ScreenInv, Streaming
  <2>4. Streaming'
    BY <1>2, <2>1, <2>3 DEF ScreenInv, Streaming, Reached, Screen!Before
  <2> QED
    BY <1>2, <2>4 DEF ScreenInv
<1> QED
  BY <1>4, <1>5, <1>6

LEMMA ScreenSteps ==
  ASSUME OrdersAreNumbered, ScreenInv, [Screen!Next]_(Screen!vars)
  PROVE  ScreenInv'
<1>1. CASE Screen!Tick
  <2>1. now' \in Int /\ UNCHANGED <<role, orders, walk, stream>>
    BY <1>1 DEF Screen!Tick, ScreenInv, OrderRows
  <2> QED
    BY <2>1 DEF ScreenInv, OrderRows, Walking, Streaming, Reached, HasRow, Screen!Visible,
       Screen!Live, Screen!SeesRow, Screen!KeyOf, Screen!Before, Screen!Beyond
<1>2. CASE UNCHANGED Screen!vars
  BY <1>2 DEF Screen!vars, ScreenInv, OrderRows, Walking, Streaming, Reached, HasRow,
     Screen!Visible, Screen!Live, Screen!SeesRow, Screen!KeyOf, Screen!Before, Screen!Beyond
<1> QED
  BY <1>1, <1>2, OrderMoves, Walks, Streams DEF Screen!Next

LEMMA ScreenAlways == ASSUME OrdersAreNumbered PROVE Screen!Spec => []ScreenInv
BY InitScreen, ScreenSteps, PTL DEF Screen!Spec

\* A list that is paged shows every order in sight once, whatever orders come and move
\* between two pages (src/lib/scoped-operations.ts: the cursor is a time and an id).
THEOREM PagesListOnceHolds == ASSUME OrdersAreNumbered PROVE Screen!Spec => []Screen!PagesListOnce
<1>1. ScreenInv => Screen!PagesListOnce
  BY DEF ScreenInv, Walking, Screen!PagesListOnce
<1> QED
  BY <1>1, ScreenAlways, PTL

\* What the cursor of the stream has passed was sent, whatever polls overlapped, unless it
\* came into sight behind the cursor (src/app/api/stream/route.ts).
THEOREM StreamSkipsNoneHolds == ASSUME OrdersAreNumbered PROVE Screen!Spec => []Screen!StreamSkipsNone
<1>1. ScreenInv => Screen!StreamSkipsNone
  BY DEF ScreenInv, Streaming, Reached, Screen!StreamSkipsNone
<1> QED
  BY <1>1, ScreenAlways, PTL

-----------------------------------------------------------------------------
(***************************************************************************)
(* StoreChoice.  The chosen store stays: of the steps that are not an act  *)
(* of the customer only the choice of the page writes the place, and the   *)
(* choice of the page is the customer's when there is one.                 *)
(***************************************************************************)

\* What is awaited carries the place it was asked for.
NearAsked(f) == "of" \in DOMAIN f /\ "site" \in DOMAIN f.of

NearInv ==
  /\ acts \in Nat /\ "site" \in DOMAIN place
  /\ \A f \in flights : NearAsked(f)

LEMMA InitNear == Near!Init => NearInv
BY DEF Near!Init, NearInv, NearAsked, Near!Nowhere, Near!Flight

LEMMA FlightAsks == \A kind, p : "site" \in DOMAIN p => NearAsked(Near!Flight(kind, p))
BY DEF NearAsked, Near!Flight

LEMMA PlaceOfAddress == \A a : "site" \in DOMAIN Near!At(a)
BY DEF Near!At, Near!Nowhere

LEMMA RenderKeeps ==
  ASSUME NEW kept, NEW arm, NEW shown, Near!Render(kept, arm, shown),
         \A f \in kept : NearAsked(f), ("site" \in DOMAIN place)'
  PROVE  \A f \in flights' : NearAsked(f)
<1> DEFINE moved == place'.at # place.at
           switched == place'.site # place.site
           requoted == Near!QuoteKey(place') # Near!QuoteKey(place) \/ basket' # basket
           old == Near!Cancelled((IF moved THEN {"sites"} ELSE {}) \cup
                                 (IF switched THEN {"menu"} ELSE {}) \cup
                                 (IF requoted THEN {"quote"} ELSE {}))
<1>1. flights' = {IF f \in old THEN [f EXCEPT !.live = FALSE] ELSE f : f \in kept} \cup
                 (IF moved THEN {Near!Flight("sites", place')} ELSE {}) \cup
                 (IF switched THEN {Near!Flight("menu", place')} ELSE {})
  BY DEF Near!Render
<1> HIDE DEF moved, switched, old
<1>2. ASSUME NEW f \in flights' PROVE NearAsked(f)
  <2>1. CASE f \in {Near!Flight("sites", place'), Near!Flight("menu", place')}
    BY <2>1, FlightAsks
  <2>2. ASSUME NEW g \in kept, f = IF g \in old THEN [g EXCEPT !.live = FALSE] ELSE g
        PROVE  NearAsked(f)
    BY <2>2 DEF NearAsked
  <2> QED
    BY <1>1, <2>1, <2>2
<1> QED
  BY <1>2 DEF NearAsked

\* An act of the customer is counted, and asks with a place of its own.
LEMMA ActsOfCustomer ==
  ASSUME NearInv,
         \/ \E s \in Near!Sites : Near!chooseServicePoint(s)
         \/ \E a \in DOMAIN Addresses :
              \/ Near!PickAddress(a) \/ Near!addSavedLocation(a)
              \/ Near!removeSavedLocation(a) \/ Near!startSavedGroupProfile(a)
         \/ Near!locate \/ Near!Cart \/ Near!Reload
  PROVE  NearInv' /\ Near!StoreIsKept
<1>1. acts' = acts + 1
  BY DEF Near!chooseServicePoint, Near!PickAddress, Near!addSavedLocation,
     Near!removeSavedLocation, Near!startSavedGroupProfile, Near!locate, Near!Cart,
     Near!Reload, Near!Act
<1>2. acts' \in Nat /\ acts' # acts
  BY <1>1 DEF NearInv
<1>3. ("site" \in DOMAIN place)'
  <2>1. CASE Near!Reload
    BY <2>1 DEF Near!Reload, Near!At, Near!Nowhere
  <2>2. CASE ~Near!Reload
    BY <2>2, PlaceOfAddress DEF NearInv, Near!chooseServicePoint, Near!PickAddress,
       Near!addSavedLocation, Near!removeSavedLocation, Near!startSavedGroupProfile,
       Near!locate, Near!Cart
  <2> QED
    BY <2>1, <2>2
<1>4. \A f \in flights' : NearAsked(f)
  <2>1. CASE Near!Reload
    <3>1. flights' = {Near!Flight("sites", place'), Near!Flight("menu", place')}
      BY <2>1 DEF Near!Reload
    <3> QED
      BY <1>3, <3>1, FlightAsks
  <2>2. CASE ~Near!Reload
    <3> DEFINE Carried == \A f \in flights' : NearAsked(f)
    <3>1. ASSUME NEW arm, NEW shown, Near!Render(flights, arm, shown) PROVE Carried
      BY <1>3, <3>1, RenderKeeps DEF NearInv
    <3>2. ASSUME NEW kind, NEW p, "site" \in DOMAIN p, NEW arm, NEW shown,
                 Near!Render(flights \cup {Near!Flight(kind, p)}, arm, shown)
          PROVE  Carried
      BY <1>3, <3>2, FlightAsks, RenderKeeps DEF NearInv
    <3> HIDE DEF Carried
    <3>3. ASSUME NEW s \in Near!Sites, Near!chooseServicePoint(s) PROVE Carried
      BY <3>1, <3>3 DEF Near!chooseServicePoint
    <3>4. ASSUME NEW a \in DOMAIN Addresses, Near!PickAddress(a) PROVE Carried
      BY <3>1, <3>4 DEF Near!PickAddress
    <3>5. ASSUME NEW a \in DOMAIN Addresses, Near!addSavedLocation(a) PROVE Carried
      BY <3>1, <3>2, <3>5, PlaceOfAddress DEF Near!addSavedLocation
    <3>6. ASSUME NEW a \in DOMAIN Addresses, Near!removeSavedLocation(a) PROVE Carried
      BY <3>1, <3>2, <3>6, PlaceOfAddress DEF Near!removeSavedLocation
    <3>7. ASSUME NEW a \in DOMAIN Addresses, Near!startSavedGroupProfile(a) PROVE Carried
      BY <3>1, <3>7 DEF Near!startSavedGroupProfile
    <3>8. ASSUME Near!locate PROVE Carried
      BY <3>2, <3>8 DEF Near!locate, NearInv
    <3>9. ASSUME Near!Cart PROVE Carried
      BY <3>1, <3>9 DEF Near!Cart
    <3>10. Carried
      BY <2>2, <3>3, <3>4, <3>5, <3>6, <3>7, <3>8, <3>9
    <3> QED
      BY <3>10 DEF Carried
  <2> QED
    BY <2>1, <2>2
<1> QED
  BY <1>2, <1>3, <1>4 DEF NearInv, Near!StoreIsKept

LEMMA PageChooses ==
  ASSUME NearInv, Near!ChooseStore
  PROVE  NearInv' /\ Near!StoreIsKept
<1>1. /\ place' = [place EXCEPT !.site = Near!Target] /\ acts' = acts
      /\ Near!Render(flights, FALSE, quote)
  BY DEF Near!ChooseStore
<1>2. ("site" \in DOMAIN place)' /\ place'.site = Near!Target
  BY <1>1 DEF NearInv
<1>3. \A f \in flights' : NearAsked(f)
  BY <1>1, <1>2, RenderKeeps DEF NearInv
<1> QED
  BY <1>1, <1>2, <1>3 DEF NearInv, Near!StoreIsKept, Near!Target

\* What the server and the device do, and the answers that leave the place alone.
LEMMA AnswersKeepPlace ==
  ASSUME NearInv,
         \/ Near!AskQuote
         \/ \E s \in Near!Sites, status \in {"open", "shut", "gone"} : Near!Manage(s, status)
         \/ \E f \in flights : \/ Near!Serve(f) \/ Near!Drop(f) \/ Near!TakeList(f)
                               \/ Near!TakeMenu(f) \/ Near!TakeQuote(f) \/ Near!TakeRemoval(f)
  PROVE  NearInv' /\ Near!StoreIsKept
<1>1. place' = place /\ acts' = acts
  BY DEF Near!AskQuote, Near!Manage, Near!page, Near!Serve, Near!Drop, Near!TakeList,
     Near!TakeMenu, Near!TakeQuote, Near!TakeRemoval
<1>2. ASSUME NEW f \in flights, NEW arm, NEW shown, Near!Render(flights \ {f}, arm, shown)
      PROVE  \A g \in flights' : NearAsked(g)
  BY <1>1, <1>2, RenderKeeps DEF NearInv
<1>3. \A g \in flights' : NearAsked(g)
  <2>1. CASE Near!AskQuote
    BY <2>1 DEF Near!AskQuote, NearInv, NearAsked, Near!Flight
  <2>2. CASE \E s \in Near!Sites, status \in {"open", "shut", "gone"} : Near!Manage(s, status)
    BY <2>2 DEF Near!Manage, Near!page, NearInv, NearAsked
  <2>3. ASSUME NEW f \in flights, Near!Serve(f) PROVE \A g \in flights' : NearAsked(g)
    <3>1. PICK list : flights' = (flights \ {f}) \cup {[f EXCEPT !.answer = list]}
      BY <2>3 DEF Near!Serve
    <3> QED
      BY <3>1 DEF NearInv, NearAsked
  <2>4. ASSUME NEW f \in flights, Near!Drop(f) PROVE \A g \in flights' : NearAsked(g)
    BY <2>4 DEF Near!Drop, NearInv, NearAsked
  <2>5. ASSUME NEW f \in flights,
               Near!TakeList(f) \/ Near!TakeMenu(f) \/ Near!TakeQuote(f) \/ Near!TakeRemoval(f)
        PROVE  \A g \in flights' : NearAsked(g)
    BY <1>2, <2>5 DEF Near!TakeList, Near!TakeMenu, Near!TakeQuote, Near!TakeRemoval
  <2> QED
    BY <2>1, <2>2, <2>3, <2>4, <2>5
<1> QED
  BY <1>1, <1>3 DEF NearInv, Near!StoreIsKept

\* The answers the customer waits for are counted with the acts.
LEMMA AnswersOfAct ==
  ASSUME NearInv, NEW f \in flights, Near!TakeAddress(f) \/ Near!TakePosition(f)
  PROVE  NearInv' /\ Near!StoreIsKept
<1>1. PICK arm, shown :
        /\ acts' = acts + 1 /\ Near!Render(flights \ {f}, arm, shown)
        /\ place' = f.of \/ \E spot : place' = [f.of EXCEPT !.at = spot]
  BY DEF Near!TakeAddress, Near!TakePosition
<1>2. ("site" \in DOMAIN place)'
  BY <1>1 DEF NearInv, NearAsked
<1>3. \A g \in flights' : NearAsked(g)
  BY <1>1, <1>2, RenderKeeps DEF NearInv
<1> QED
  BY <1>1, <1>2, <1>3 DEF NearInv, Near!StoreIsKept

\* Only the customer changes the store the customer chose, while it is listed: whichever
\* lists, menus, quotes and answers arrive, in any order.
THEOREM StoreIsKeptHolds == Near!Spec => [][Near!StoreIsKept]_(Near!vars)
<1>1. NearInv /\ Near!Next => NearInv' /\ Near!StoreIsKept
  BY ActsOfCustomer, PageChooses, AnswersKeepPlace, AnswersOfAct DEF Near!Next
<1>2. NearInv /\ UNCHANGED Near!vars => NearInv'
  BY DEF NearInv, NearAsked, Near!vars
<1> QED
  BY InitNear, <1>1, <1>2, PTL DEF Near!Spec

-----------------------------------------------------------------------------
(***************************************************************************)
(* StoreChoice again.  What is awaited was asked for the place shown, or    *)
(* was cancelled; the timer of the choice is set whenever the list or the   *)
(* place has changed since the page chose.                                  *)
(***************************************************************************)

IsPlace(p) ==
  /\ {"address", "at", "site", "pinned"} \subseteq DOMAIN p
  /\ p.address \in DOMAIN Addresses \cup {None} /\ p.at \in Int \cup {None}

IsList(l) ==
  l = <<>> \/ \E n \in Nat \ {0} : l \in [1..n -> [id : Near!Sites, open : BOOLEAN]]

IsFlight(f) ==
  /\ {"kind", "of", "live", "answer"} \subseteq DOMAIN f
  /\ IsPlace(f.of) /\ f.live \in BOOLEAN
  /\ f.kind = "save" => f.of.address \in DOMAIN Addresses
  /\ f.answer = None \/ (f.kind = "sites" /\ IsList(f.answer))

ShownTypes ==
  /\ IsPlace(place) /\ IsList(stores) /\ armed \in BOOLEAN /\ quoting \in BOOLEAN
  /\ armed => stores # <<>>
  /\ saved \subseteq DOMAIN Addresses
  /\ \A f \in flights : IsFlight(f)

\* What is awaited and was not cancelled was asked for the place shown.
AskedForPlace ==
  \A f \in flights : f.live =>
    /\ f.kind = "menu" => f.of.site = place.site
    /\ f.kind = "quote" => Near!QuoteKey(f.of) = Near!QuoteKey(place)

ShownInv == ShownTypes /\ AskedForPlace /\ Near!ShownIsChosen /\ Near!NearestServes

-----------------------------------------------------------------------------
(* The choice of the page. *)

LEMMA SmallestExists ==
  ASSUME NEW T, T \subseteq Nat, T # {}
  PROVE  \E m \in T : \A k \in T : m <= k
<1>1. PICK m \in T : \A k \in T : ~ (<<k, m>> \in OpToRel(<, Nat))
  BY NatLessThanWellFounded, WFMin
<1>2. \A k \in T : ~ (k < m)
  BY <1>1 DEF OpToRel
<1> QED
  BY <1>2

\* Of finitely many rows one costs the least, and comes first of those.
LEMMA FirstExists ==
  ASSUME NEW n \in Nat, NEW I, I \subseteq 1..n, I # {}, NEW cost, \A i \in I : cost[i] \in Int
  PROVE  Near!First(I, cost) # {}
<1> DEFINE Lacks(J) == J # {} /\ Near!First(J, cost) = {}
           T == {m \in Nat : \E J \in SUBSET (I \cap 1..m) : Lacks(J)}
<1> SUFFICES ASSUME Near!First(I, cost) = {} PROVE FALSE
  OBVIOUS
<1>1. I = I \cap 1..n /\ Lacks(I)
  OBVIOUS
<1>2. n \in T
  BY <1>1
<1>3. PICK m \in T : \A k \in T : m <= k
  BY <1>2, SmallestExists
<1>4. PICK J \in SUBSET (I \cap 1..m) : Lacks(J)
  OBVIOUS
<1>5. m # 0
  <2>1. 1..0 = {}
    OBVIOUS
  <2> QED
    BY <1>4, <2>1
<1>6. m - 1 \in Nat /\ m - 1 \notin T
  BY <1>3, <1>5
<1>7. m \in J
  <2>1. SUFFICES ASSUME m \notin J PROVE FALSE
    OBVIOUS
  <2>2. J \subseteq I \cap 1..(m - 1)
    BY <1>4, <1>6, <2>1
  <2> QED
    BY <1>4, <1>6, <2>2
<1>8. J \ {m} \subseteq I \cap 1..(m - 1)
  BY <1>4, <1>6
<1>9. CASE J \ {m} = {}
  BY <1>4, <1>7, <1>9 DEF Near!First
<1>10. CASE J \ {m} # {}
  <2>1. ~Lacks(J \ {m})
    BY <1>6, <1>8
  <2>2. PICK i \in Near!First(J \ {m}, cost) : TRUE
    BY <1>10, <2>1
  <2>3. /\ i \in J \ {m}
        /\ \A j \in J \ {m} : cost[i] < cost[j] \/ (cost[i] = cost[j] /\ i <= j)
    BY <2>2 DEF Near!First
  <2>4. i <= m /\ cost[i] \in Int /\ cost[m] \in Int /\ \A j \in J : j <= m /\ cost[j] \in Int
    BY <1>4, <1>7, <2>3
  <2>5. CASE cost[m] < cost[i]
    <3>1. \A j \in J : cost[m] < cost[j] \/ (cost[m] = cost[j] /\ m <= j)
      BY <2>3, <2>4, <2>5
    <3>2. m \in Near!First(J, cost)
      BY <1>7, <3>1 DEF Near!First
    <3> QED
      BY <1>4, <3>2
  <2>6. CASE ~(cost[m] < cost[i])
    <3>1. \A j \in J : cost[i] < cost[j] \/ (cost[i] = cost[j] /\ i <= j)
      BY <2>3, <2>4, <2>6
    <3>2. i \in Near!First(J, cost)
      BY <2>3, <3>1 DEF Near!First
    <3> QED
      BY <1>4, <3>2
  <2> QED
    BY <2>5, <2>6
<1> QED
  BY <1>9, <1>10

\* The nearest open store of those that are surveyed serves, if there is one.
DefaultOf(at) ==
  \E s \in DOMAIN stores :
    /\ stores[s].id = at
    /\ \A t \in DOMAIN stores :
         place.at # None /\ Position[stores[t].id] # None /\ stores[t].open =>
           /\ Position[at] # None /\ stores[s].open
           /\ Near!Distance(place.at, at) <= Near!Distance(place.at, stores[t].id)

LEMMA DefaultServes ==
  ASSUME StoresArePlaced, ShownTypes, stores # <<>>
  PROVE  DefaultOf(Near!defaultStoreForCustomer(stores, place.at, place.address))
<1> DEFINE at == place.at
           known == {i \in DOMAIN stores : at # None /\ Position[stores[i].id] # None}
           opens == {i \in known : stores[i].open}
           pool == IF opens # {} THEN opens ELSE known
           far == [i \in pool |-> Near!Distance(at, stores[i].id)]
           near == Near!nearestStoreForCoordinates(stores, at)
           byText == Near!storeMatchingAddressText(stores, place.address)
           lit == {i \in DOMAIN stores : stores[i].open}
           any == IF lit # {} THEN lit ELSE DOMAIN stores
           first == Near!First(any, [i \in any |-> 0])
           found == IF near # {} THEN near ELSE IF byText # {} THEN byText ELSE first
           chosen == CHOOSE i \in found : TRUE
<1>1. PICK n \in Nat \ {0} : stores \in [1..n -> [id : Near!Sites, open : BOOLEAN]]
  BY DEF ShownTypes, IsList
<1>2. DOMAIN stores = 1..n /\ \A i \in DOMAIN stores : stores[i].id \in Near!Sites
  BY <1>1
<1>3. near = Near!First(pool, far)
  BY DEF Near!nearestStoreForCoordinates
<1>4. pool \subseteq known /\ known \subseteq DOMAIN stores /\ opens \subseteq known
  OBVIOUS
<1>5. at # None => at \in Int
  BY DEF ShownTypes, IsPlace
<1>6. \A i \in known : Near!Distance(at, stores[i].id) \in Int
  <2>1. ASSUME NEW i \in known PROVE Near!Distance(at, stores[i].id) \in Int
    <3>1. at \in Int /\ Position[stores[i].id] \in Int
      BY <1>2, <1>5 DEF StoresArePlaced, Near!Sites
    <3> QED
      BY <3>1 DEF Near!Distance
  <2> QED
    BY <2>1
<1>7. \A i \in pool : far[i] = Near!Distance(at, stores[i].id) /\ far[i] \in Int
  BY <1>4, <1>6
<1>8. pool # {} => near # {}
  BY <1>2, <1>3, <1>4, <1>7, FirstExists
<1>9. first # {}
  <2>1. any \subseteq 1..n /\ any # {}
    BY <1>2
  <2>2. \A i \in any : [j \in any |-> 0][i] \in Int
    OBVIOUS
  <2> QED
    BY <2>1, <2>2, FirstExists
<1>10. near \subseteq pool /\ byText \subseteq DOMAIN stores /\ first \subseteq DOMAIN stores
  BY <1>3 DEF Near!First, Near!storeMatchingAddressText
<1>11. chosen \in found /\ found \subseteq DOMAIN stores
  BY <1>4, <1>9, <1>10
<1>12. Near!defaultStoreForCustomer(stores, place.at, place.address) = stores[chosen].id
  BY DEF Near!defaultStoreForCustomer
<1>13. ASSUME NEW t \in DOMAIN stores, at # None, Position[stores[t].id] # None, stores[t].open
       PROVE  /\ Position[stores[chosen].id] # None /\ stores[chosen].open
              /\ Near!Distance(at, stores[chosen].id) <= Near!Distance(at, stores[t].id)
  <2>1. t \in opens /\ pool = opens
    BY <1>13
  <2>2. chosen \in near
    BY <1>8, <1>11, <2>1
  <2>3. chosen \in opens /\ far[chosen] <= far[t]
    <3>1. chosen \in pool /\ (far[chosen] < far[t] \/ far[chosen] = far[t])
      BY <1>3, <2>1, <2>2 DEF Near!First
    <3>2. t \in pool /\ far[chosen] \in Int /\ far[t] \in Int
      BY <1>7, <2>1, <3>1
    <3> HIDE DEF far, pool, chosen
    <3> QED
      BY <2>1, <3>1, <3>2
  <2> QED
    BY <1>7, <2>1, <2>3
<1> HIDE DEF chosen, found
<1> QED
  BY <1>11, <1>12, <1>13 DEF DefaultOf

-----------------------------------------------------------------------------
(* A render. *)

AwaitsMenu(f) == f.live /\ f.kind = "menu"
AwaitsQuote(f) == f.live /\ f.kind = "quote"

\* What a render keeps of the flights: those of another kind may be new.
Kept(kept) == \A f \in kept : IsFlight(f) /\ (f \in flights \/ f.kind \notin {"menu", "quote"})

LEMMA FlightIsTyped ==
  ASSUME NEW kind, NEW p, IsPlace(p), kind = "save" => p.address \in DOMAIN Addresses
  PROVE  /\ IsFlight(Near!Flight(kind, p)) /\ Near!Flight(kind, p).live
         /\ Near!Flight(kind, p).kind = kind /\ Near!Flight(kind, p).of = p
         /\ Near!Flight(kind, p).answer = None
BY DEF IsFlight, Near!Flight

LEMMA Rendered ==
  ASSUME ShownTypes, AskedForPlace, IsPlace(place)', NEW kept, Kept(kept), NEW arm \in BOOLEAN,
         NEW shown, Near!Render(kept, arm, shown)
  PROVE  /\ \A f \in flights' : IsFlight(f)
         /\ AskedForPlace'
         /\ armed' \in BOOLEAN /\ quoting' \in BOOLEAN
         /\ (place' # place => (armed' <=> stores' # <<>>)) /\ (place' = place => (armed' <=> arm))
         /\ place'.site # place.site => \E f \in flights' : AwaitsMenu(f)
         /\ place'.site = place.site => \A f \in kept : AwaitsMenu(f) => f \in flights'
         /\ \/ /\ Near!QuoteKey(place') = Near!QuoteKey(place)
               /\ (quoting' <=> quoting) /\ quote' = shown
               /\ \A f \in kept : AwaitsQuote(f) => f \in flights'
            \/ quoting' \/ quote' = None
<1> DEFINE moved == place'.at # place.at
           switched == place'.site # place.site
           requoted == Near!QuoteKey(place') # Near!QuoteKey(place) \/ basket' # basket
           old == Near!Cancelled((IF moved THEN {"sites"} ELSE {}) \cup
                                 (IF switched THEN {"menu"} ELSE {}) \cup
                                 (IF requoted THEN {"quote"} ELSE {}))
           calm == {IF f \in old THEN [f EXCEPT !.live = FALSE] ELSE f : f \in kept}
<1>1. /\ flights' = calm \cup (IF moved THEN {Near!Flight("sites", place')} ELSE {}) \cup
                           (IF switched THEN {Near!Flight("menu", place')} ELSE {})
      /\ armed' = IF Near!Rearmed THEN stores' # <<>> ELSE arm
      /\ quoting' = IF requoted THEN Near!Quotable(place', basket') ELSE quoting
      /\ quote' = IF requoted /\ ~Near!Quotable(place', basket') THEN None ELSE shown
  BY DEF Near!Render
<1>2. \A f \in old : f \in flights /\ (f.kind = "menu" => switched) /\ (f.kind = "quote" => requoted)
  BY DEF Near!Cancelled
<1>3. \A f \in flights : (f.kind = "menu" /\ switched => f \in old)
                       /\ (f.kind = "quote" /\ requoted => f \in old)
  BY DEF Near!Cancelled
<1>4. ASSUME NEW f \in kept, f \in old
      PROVE  IsFlight([f EXCEPT !.live = FALSE]) /\ ~[f EXCEPT !.live = FALSE].live
  <2>1. IsFlight(f)
    BY DEF Kept
  <2> QED
    BY <2>1 DEF IsFlight
<1> HIDE DEF old
<1>5. armed' \in BOOLEAN /\ (place' # place => (armed' <=> stores' # <<>>))
      /\ (place' = place => (armed' <=> arm))
  BY <1>1 DEF Near!Rearmed
<1>6. requoted => quoting' \/ quote' = None
  BY <1>1
<1>7. quoting' \in BOOLEAN /\ (~requoted => (quoting' <=> quoting) /\ quote' = shown)
  <2>1. Near!Quotable(place', basket') \in BOOLEAN
    BY DEF Near!Quotable
  <2>2. quoting \in BOOLEAN
    BY DEF ShownTypes
  <2> QED
    BY <1>1, <2>1, <2>2
<1> HIDE DEF requoted
<1>8. \A f \in kept : f \notin old => f \in flights'
  BY <1>1
<1>9. switched => \E f \in flights' : AwaitsMenu(f)
  BY <1>1, FlightIsTyped DEF AwaitsMenu
<1>10. /\ ~switched => \A f \in kept : AwaitsMenu(f) => f \in flights'
       /\ ~requoted => \A f \in kept : AwaitsQuote(f) => f \in flights'
  BY <1>2, <1>8 DEF AwaitsMenu, AwaitsQuote
<1>11. ASSUME NEW f \in flights'
       PROVE  /\ IsFlight(f)
              /\ AwaitsMenu(f) => f.of.site = place'.site
              /\ AwaitsQuote(f) => Near!QuoteKey(f.of) = Near!QuoteKey(place')
  <2>1. CASE f \in {Near!Flight("sites", place'), Near!Flight("menu", place')}
    BY <2>1, FlightIsTyped DEF AwaitsMenu, AwaitsQuote
  <2>2. ASSUME NEW g \in kept, g \in old, f = [g EXCEPT !.live = FALSE]
        PROVE  IsFlight(f) /\ ~f.live
    BY <1>4, <2>2
  <2>3. CASE f \in kept /\ f \notin old
    <3>1. IsFlight(f) /\ (f \in flights \/ f.kind \notin {"menu", "quote"})
      BY <2>3 DEF Kept
    <3>2. AwaitsMenu(f) => f.of.site = place.site /\ ~switched
      BY <1>3, <2>3, <3>1 DEF AwaitsMenu, AskedForPlace
    <3>3. AwaitsQuote(f) => Near!QuoteKey(f.of) = Near!QuoteKey(place) /\ ~requoted
      BY <1>3, <2>3, <3>1 DEF AwaitsQuote, AskedForPlace
    <3> QED
      BY <3>1, <3>2, <3>3 DEF requoted
  <2>4. f \in calm \/ f \in {Near!Flight("sites", place'), Near!Flight("menu", place')}
    BY <1>1
  <2>5. f \in calm => \E g \in kept : f = IF g \in old THEN [g EXCEPT !.live = FALSE] ELSE g
    OBVIOUS
  <2> QED
    BY <2>1, <2>2, <2>3, <2>4, <2>5 DEF AwaitsMenu, AwaitsQuote
<1>12. AskedForPlace'
  BY <1>11 DEF AskedForPlace, AwaitsMenu, AwaitsQuote, Near!QuoteKey
<1>13. \/ /\ Near!QuoteKey(place') = Near!QuoteKey(place)
          /\ (quoting' <=> quoting) /\ quote' = shown
          /\ \A f \in kept : AwaitsQuote(f) => f \in flights'
       \/ quoting' \/ quote' = None
  <2>1. CASE requoted
    BY <1>6, <2>1
  <2>2. CASE ~requoted
    <3>1. Near!QuoteKey(place') = Near!QuoteKey(place)
      BY <2>2 DEF requoted
    <3>2. \A f \in kept : AwaitsQuote(f) => f \in flights'
      BY <1>10, <2>2
    <3>3. (quoting' <=> quoting) /\ quote' = shown
      BY <1>7, <2>2
    <3> QED
      BY <3>1, <3>2, <3>3
  <2> QED
    BY <2>1, <2>2
<1>14. /\ place'.site # place.site => \E f \in flights' : AwaitsMenu(f)
       /\ place'.site = place.site => \A f \in kept : AwaitsMenu(f) => f \in flights'
  <2>1. CASE switched
    BY <1>9, <2>1
  <2>2. CASE ~switched
    BY <1>10, <2>2
  <2> QED
    BY <2>1, <2>2
<1>15. \A f \in flights' : IsFlight(f)
  BY <1>11
<1> QED
  BY <1>5, <1>7, <1>12, <1>13, <1>14, <1>15

\* The page keeps what it shows: nothing that is awaited for it is lost.
LEMMA RenderShows ==
  ASSUME ShownInv, IsPlace(place)', IsList(stores)', NEW kept, Kept(kept), NEW arm \in BOOLEAN,
         Near!Render(kept, arm, quote), menu' = menu,
         \A f \in flights : AwaitsMenu(f) \/ AwaitsQuote(f) => f \in kept,
         saved' \subseteq DOMAIN Addresses,
         \/ stores' = stores /\ (arm <=> armed)
         \/ arm <=> stores' # <<>>
         \/ ~arm /\ (~place.pinned /\ place' = place => DefaultOf(place.site)')
  PROVE  ShownInv'
<1>1. /\ \A f \in flights' : IsFlight(f)
      /\ AskedForPlace'
      /\ armed' \in BOOLEAN /\ quoting' \in BOOLEAN
      /\ (place' # place => (armed' <=> stores' # <<>>)) /\ (place' = place => (armed' <=> arm))
      /\ place'.site # place.site => \E f \in flights' : AwaitsMenu(f)
      /\ place'.site = place.site => \A f \in kept : AwaitsMenu(f) => f \in flights'
      /\ \/ /\ Near!QuoteKey(place') = Near!QuoteKey(place)
            /\ (quoting' <=> quoting) /\ quote' = quote
            /\ \A f \in kept : AwaitsQuote(f) => f \in flights'
         \/ quoting' \/ quote' = None
  BY Rendered DEF ShownInv
<1>2. ShownTypes'
  BY <1>1 DEF ShownInv, ShownTypes
<1>3. (\E f \in flights' : AwaitsMenu(f)) \/ menu' \subseteq {place'.site}
  BY <1>1 DEF ShownInv, Near!ShownIsChosen, Near!Awaited, AwaitsMenu
<1>4. (\E f \in flights' : AwaitsQuote(f)) \/ quoting' \/ quote' \in {None, Near!QuoteKey(place')}
  BY <1>1 DEF ShownInv, Near!ShownIsChosen, Near!Awaited, AwaitsQuote
<1>5. Near!ShownIsChosen'
  BY <1>3, <1>4 DEF Near!ShownIsChosen, Near!Awaited, AwaitsMenu, AwaitsQuote, Near!QuoteKey
<1>6. Near!NearestServes'
  <2>1. CASE place' # place
    BY <1>1, <2>1 DEF Near!NearestServes
  <2>2. CASE place' = place /\ stores' = stores /\ (arm <=> armed)
    BY <1>1, <2>2 DEF ShownInv, Near!NearestServes, Near!Distance
  <2>3. CASE place' = place /\ (arm <=> stores' # <<>>)
    BY <1>1, <2>3 DEF Near!NearestServes
  <2>4. CASE place' = place /\ (~place.pinned /\ place' = place => DefaultOf(place.site)')
    BY <1>1, <2>4 DEF Near!NearestServes, DefaultOf, Near!Distance
  <2> QED
    BY <2>1, <2>2, <2>3, <2>4
<1> QED
  BY <1>1, <1>2, <1>5, <1>6 DEF ShownInv

LEMMA InitShown == ASSUME Near!Init PROVE ShownInv
<1>1. /\ place = Near!Nowhere /\ stores = <<>> /\ menu = {} /\ quote = None
      /\ armed = FALSE /\ quoting = FALSE
      /\ flights = {Near!Flight("sites", Near!Nowhere), Near!Flight("menu", Near!Nowhere)}
      /\ saved \subseteq DOMAIN Addresses
  BY DEF Near!Init
<1>2. IsPlace(Near!Nowhere) /\ Near!Nowhere.site = None
  BY DEF IsPlace, Near!Nowhere
<1>3. ShownTypes
  <2>1. \A f \in flights : IsFlight(f)
    BY <1>1, <1>2, FlightIsTyped
  <2>2. IsList(stores)
    BY <1>1 DEF IsList
  <2> QED
    BY <1>1, <1>2, <2>1, <2>2 DEF ShownTypes
<1>4. AskedForPlace
  BY <1>1, <1>2, FlightIsTyped DEF AskedForPlace
<1>5. Near!ShownIsChosen /\ Near!NearestServes
  BY <1>1 DEF Near!ShownIsChosen, Near!NearestServes
<1> QED
  BY <1>3, <1>4, <1>5 DEF ShownInv

LEMMA AddressIsPlace ==
  ASSUME StoresArePlaced, NEW a \in DOMAIN Addresses
  PROVE  IsPlace(Near!At(a)) /\ Near!At(a).address = a
<1>1. Near!At(a) = [Near!Nowhere EXCEPT !.address = a, !.at = Addresses[a].at]
  BY DEF Near!At
<1>2. Near!Nowhere = [address |-> None, at |-> None, site |-> None, pinned |-> FALSE]
  BY DEF Near!Nowhere
<1>3. /\ {"address", "at", "site", "pinned"} \subseteq DOMAIN Near!At(a)
      /\ Near!At(a).address = a /\ Near!At(a).at = Addresses[a].at
  BY <1>1, <1>2
<1> QED
  BY <1>3 DEF StoresArePlaced, IsPlace

\* The acts of the customer, but for a reload: they render what the page has.
LEMMA ActsShow ==
  ASSUME StoresArePlaced, ShownInv,
         \/ \E s \in Near!Sites : Near!chooseServicePoint(s)
         \/ \E a \in DOMAIN Addresses :
              \/ Near!PickAddress(a) \/ Near!addSavedLocation(a)
              \/ Near!removeSavedLocation(a) \/ Near!startSavedGroupProfile(a)
         \/ Near!locate \/ Near!Cart
  PROVE  ShownInv'
<1>1. stores' = stores /\ menu' = menu /\ IsList(stores') /\ IsPlace(place) /\ armed \in BOOLEAN
  BY DEF Near!chooseServicePoint, Near!PickAddress, Near!addSavedLocation,
     Near!removeSavedLocation, Near!startSavedGroupProfile, Near!locate, Near!Cart,
     ShownInv, ShownTypes
<1>2. IsPlace(place')
  <2>1. ASSUME NEW s, place' = [place EXCEPT !.site = s, !.pinned = TRUE] PROVE IsPlace(place')
    BY <1>1, <2>1 DEF IsPlace
  <2>2. ASSUME NEW a \in DOMAIN Addresses, place' = [place EXCEPT !.address = a]
        PROVE  IsPlace(place')
    BY <1>1, <2>2 DEF IsPlace
  <2>3. ASSUME NEW a \in DOMAIN Addresses, place' = Near!At(a) PROVE IsPlace(place')
    BY <2>3, AddressIsPlace
  <2>4. CASE place' = place
    BY <1>1, <2>4
  <2> QED
    BY <2>1, <2>2, <2>3, <2>4 DEF Near!chooseServicePoint, Near!PickAddress,
       Near!addSavedLocation, Near!removeSavedLocation, Near!startSavedGroupProfile,
       Near!locate, Near!Cart
<1>3. saved' \subseteq DOMAIN Addresses
  BY DEF Near!chooseServicePoint, Near!PickAddress, Near!addSavedLocation,
     Near!removeSavedLocation, Near!startSavedGroupProfile, Near!locate, Near!Cart,
     ShownInv, ShownTypes
<1>4. /\ Kept(flights)
      /\ \A kind \in {"save", "remove", "gps"} : \A p :
           IsPlace(p) /\ (kind = "save" => p.address \in DOMAIN Addresses)
             => Kept(flights \cup {Near!Flight(kind, p)})
  BY FlightIsTyped DEF Kept, ShownInv, ShownTypes
<1>5. ASSUME NEW kept, Kept(kept), flights \subseteq kept, Near!Render(kept, armed, quote)
      PROVE  ShownInv'
  BY <1>1, <1>2, <1>3, <1>5, RenderShows DEF IsPlace, IsList
<1>6. Near!Render(flights, armed, quote) => ShownInv'
  BY <1>4, <1>5
<1>7. ASSUME NEW kind \in {"save", "remove", "gps"}, NEW p, IsPlace(p),
             kind = "save" => p.address \in DOMAIN Addresses,
             Near!Render(flights \cup {Near!Flight(kind, p)}, armed, quote)
      PROVE  ShownInv'
  BY <1>4, <1>5, <1>7
<1>8. CASE \E s \in Near!Sites : Near!chooseServicePoint(s)
  BY <1>6, <1>8 DEF Near!chooseServicePoint
<1>9. ASSUME NEW a \in DOMAIN Addresses,
             \/ Near!PickAddress(a) \/ Near!addSavedLocation(a)
             \/ Near!removeSavedLocation(a) \/ Near!startSavedGroupProfile(a)
      PROVE  ShownInv'
  BY <1>6, <1>7, <1>9, AddressIsPlace DEF Near!PickAddress, Near!addSavedLocation,
     Near!removeSavedLocation, Near!startSavedGroupProfile
<1>10. CASE Near!locate
  BY <1>1, <1>7, <1>10 DEF Near!locate
<1>11. CASE Near!Cart
  BY <1>6, <1>11 DEF Near!Cart
<1> QED
  BY <1>8, <1>9, <1>10, <1>11

LEMMA ReloadShows ==
  ASSUME StoresArePlaced, ShownInv, Near!Reload
  PROVE  ShownInv'
<1>1. /\ stores' = <<>> /\ menu' = {} /\ quote' = None /\ armed' = FALSE /\ quoting' = FALSE
      /\ flights' = {Near!Flight("sites", place'), Near!Flight("menu", place')}
      /\ saved' = saved
  BY DEF Near!Reload
<1>2. IsPlace(place')
  <2>1. PICK kept, at : /\ place' = [kept EXCEPT !.site = at, !.pinned = at # None]
                        /\ kept = Near!Nowhere \/ \E a \in saved : kept = Near!At(a)
    BY DEF Near!Reload
  <2>2. IsPlace(kept)
    BY <2>1, AddressIsPlace DEF IsPlace, Near!Nowhere, ShownInv, ShownTypes
  <2> QED
    BY <2>1, <2>2 DEF IsPlace
<1>3. ShownTypes'
  <2>1. \A f \in flights' : IsFlight(f)
    BY <1>1, <1>2, FlightIsTyped
  <2>2. IsList(stores')
    BY <1>1 DEF IsList
  <2> QED
    BY <1>1, <1>2, <2>1, <2>2 DEF ShownInv, ShownTypes
<1>4. AskedForPlace'
  BY <1>1, <1>2, FlightIsTyped DEF AskedForPlace
<1>5. Near!ShownIsChosen' /\ Near!NearestServes'
  BY <1>1 DEF Near!ShownIsChosen, Near!NearestServes
<1> QED
  BY <1>3, <1>4, <1>5 DEF ShownInv

LEMMA ChoiceShows ==
  ASSUME StoresArePlaced, ShownInv, Near!ChooseStore
  PROVE  ShownInv'
<1>1. /\ place' = [place EXCEPT !.site = Near!Target]
      /\ UNCHANGED <<saved, stores, menu>> /\ Near!Render(flights, FALSE, quote)
  BY DEF Near!ChooseStore
<1>2. IsPlace(place') /\ Kept(flights)
  BY <1>1 DEF ShownInv, ShownTypes, IsPlace, Kept
<1>3. place'.site = Near!Target
  BY <1>1 DEF ShownInv, ShownTypes, IsPlace
<1>4. ~place.pinned /\ place' = place => DefaultOf(place.site)'
  <2> SUFFICES ASSUME ~place.pinned, place' = place PROVE DefaultOf(place.site)'
    OBVIOUS
  <2>1. place.site = Near!defaultStoreForCustomer(stores, place.at, place.address)
    BY <1>3 DEF Near!Target
  <2>2. stores # <<>>
    BY DEF Near!ChooseStore, ShownInv, ShownTypes
  <2>3. DefaultOf(place.site)
    BY <2>1, <2>2, DefaultServes DEF ShownInv
  <2> QED
    BY <1>1, <2>3 DEF DefaultOf, Near!Distance
<1> QED
  BY <1>1, <1>2, <1>4, RenderShows DEF ShownInv, ShownTypes, IsPlace, IsList

LEMMA NearCounts == \A S : Near!Cardinality(S) = Cardinality(S)
BY DEF Near!Cardinality, Cardinality

\* The list is one of known sites.
LEMMA ListIsTyped ==
  ASSUME StoresArePlaced, NEW p, NEW list \in Near!listPublicSites(p)
  PROVE  IsList(list)
<1> DEFINE known == {s \in Near!Sites : sites[s] # "gone"}
           n == Cardinality(known)
<1>1. n \in Nat
  BY FS_Subset, FS_CardinalityType DEF StoresArePlaced, Near!Sites
<1> DEFINE Sorted == {l \in [1..n -> known] :
                       \A i, j \in DOMAIN l : i < j => Near!Before(p, l[i], l[j])}
           Listed(l) == [i \in DOMAIN l |-> [id |-> l[i], open |-> sites[l[i]] = "open"]]
<1>2. PICK order \in [1..n -> known] : list = Listed(order)
  <2>1. list \in {Listed(l) : l \in Sorted}
    BY NearCounts DEF Near!listPublicSites
  <2>2. Sorted \subseteq [1..n -> known]
    OBVIOUS
  <2> HIDE DEF Sorted, Listed, known
  <2> QED
    BY <2>1, <2>2
<1>3. list = [i \in 1..n |-> [id |-> order[i], open |-> sites[order[i]] = "open"]]
  BY <1>2
<1>4. \A i \in 1..n :
        [id |-> order[i], open |-> sites[order[i]] = "open"] \in [id : Near!Sites, open : BOOLEAN]
  BY <1>2
<1>5. list \in [1..n -> [id : Near!Sites, open : BOOLEAN]]
  BY <1>3, <1>4
<1> HIDE DEF n
<1>6. CASE n = 0
  <2>1. DOMAIN list = {} /\ list = [i \in {} |-> list[i]]
    BY <1>5, <1>6
  <2>2. list = <<>>
    BY <2>1
  <2> QED
    BY <2>2 DEF IsList
<1>7. CASE n # 0
  BY <1>1, <1>5, <1>7 DEF IsList
<1> QED
  BY <1>6, <1>7

\* What the server does, and the timer of the quote.
LEMMA ServerShows ==
  ASSUME StoresArePlaced, ShownInv,
         \/ Near!AskQuote
         \/ \E s \in Near!Sites, status \in {"open", "shut", "gone"} : Near!Manage(s, status)
         \/ \E f \in flights : Near!Serve(f) \/ Near!Drop(f)
  PROVE  ShownInv'
<1>1. /\ UNCHANGED <<place, saved, stores, menu, quote, armed>>
      /\ quoting' = quoting \/ (Near!AskQuote /\ quoting' = FALSE)
  BY DEF Near!AskQuote, Near!Manage, Near!Serve, Near!Drop, Near!page
<1>2. ASSUME Near!AskQuote PROVE ShownInv'
  <2> DEFINE q == Near!Flight("quote", place)
  <2>1. flights' = flights \cup {q} /\ quoting' = FALSE
    BY <1>2 DEF Near!AskQuote
  <2>2. IsFlight(q) /\ q.kind = "quote" /\ q.live /\ q.of = place
    BY FlightIsTyped DEF ShownInv, ShownTypes
  <2> HIDE DEF q
  <2>3. ShownTypes'
    BY <1>1, <2>1, <2>2 DEF ShownInv, ShownTypes
  <2>4. AskedForPlace'
    BY <1>1, <2>1, <2>2 DEF ShownInv, AskedForPlace, Near!QuoteKey
  <2>5. Near!ShownIsChosen'
    BY <1>1, <2>1, <2>2 DEF ShownInv, Near!ShownIsChosen, Near!Awaited
  <2>6. Near!NearestServes'
    BY <1>1 DEF ShownInv, Near!NearestServes, Near!Distance
  <2> QED
    BY <2>3, <2>4, <2>5, <2>6 DEF ShownInv
<1>3. ASSUME quoting' = quoting, \A f \in flights' : IsFlight(f),
             \A f \in flights' : AwaitsMenu(f) \/ AwaitsQuote(f) => f \in flights,
             \A f \in flights : AwaitsMenu(f) \/ AwaitsQuote(f) => f \in flights'
      PROVE  ShownInv'
  <2>1. ShownTypes'
    BY <1>1, <1>3 DEF ShownInv, ShownTypes
  <2>2. AskedForPlace'
    BY <1>1, <1>3 DEF ShownInv, AskedForPlace, AwaitsMenu, AwaitsQuote, Near!QuoteKey
  <2>3. Near!ShownIsChosen'
    BY <1>1, <1>3 DEF ShownInv, Near!ShownIsChosen, Near!Awaited, AwaitsMenu, AwaitsQuote, Near!QuoteKey
  <2>4. Near!NearestServes'
    BY <1>1 DEF ShownInv, Near!NearestServes, Near!Distance
  <2> QED
    BY <2>1, <2>2, <2>3, <2>4 DEF ShownInv
<1>4. ASSUME NEW s, NEW status, Near!Manage(s, status) PROVE ShownInv'
  <2>1. flights' = flights /\ quoting' = quoting
    BY <1>4 DEF Near!Manage, Near!page
  <2> QED
    BY <1>3, <2>1 DEF ShownInv, ShownTypes
<1>5. ASSUME NEW f \in flights, Near!Serve(f) PROVE ShownInv'
  <2>1. PICK list \in Near!listPublicSites(f.of.at) :
          flights' = (flights \ {f}) \cup {[f EXCEPT !.answer = list]}
    BY <1>5 DEF Near!Serve
  <2> DEFINE g == [f EXCEPT !.answer = list]
  <2>2. quoting' = quoting /\ f.kind = "sites" /\ IsFlight(f) /\ IsList(list)
    BY <1>5, ListIsTyped DEF Near!Serve, ShownInv, ShownTypes
  <2>3. IsFlight(g) /\ g.kind = "sites"
    BY <2>2 DEF IsFlight
  <2>4. flights' = (flights \ {f}) \cup {g}
    BY <2>1
  <2> HIDE DEF g
  <2> QED
    BY <1>3, <2>2, <2>3, <2>4 DEF ShownInv, ShownTypes, AwaitsMenu, AwaitsQuote
<1>6. ASSUME NEW f \in flights, Near!Drop(f) PROVE ShownInv'
  <2>1. /\ flights' = flights \ {f} /\ quoting' = quoting
        /\ f.live => f.kind \in {"sites", "save", "remove", "gps"}
    BY <1>6 DEF Near!Drop
  <2> QED
    BY <1>3, <2>1 DEF ShownInv, ShownTypes, AwaitsMenu, AwaitsQuote
<1> QED
  BY <1>2, <1>4, <1>5, <1>6

\* An answer is taken for what it was asked for: the list, an address, a position.
LEMMA AnswersShow ==
  ASSUME StoresArePlaced, ShownInv, NEW f \in flights,
         Near!TakeList(f) \/ Near!TakeAddress(f) \/ Near!TakeRemoval(f) \/ Near!TakePosition(f)
  PROVE  ShownInv'
<1>1. IsFlight(f) /\ IsPlace(place) /\ IsList(stores) /\ saved \subseteq DOMAIN Addresses
  BY DEF ShownInv, ShownTypes
<1>2. menu' = menu /\ f.kind \in {"sites", "save", "remove", "gps"}
  BY <1>1 DEF Near!TakeList, Near!TakeAddress, Near!TakeRemoval, Near!TakePosition, IsFlight
<1>3. Kept(flights \ {f}) /\ \A g \in flights : AwaitsMenu(g) \/ AwaitsQuote(g) => g \in flights \ {f}
  BY <1>2 DEF ShownInv, ShownTypes, Kept, AwaitsMenu, AwaitsQuote
<1>4. CASE Near!TakeList(f)
  <2>1. /\ stores' = f.answer /\ f.answer # None /\ UNCHANGED <<place, saved>>
        /\ Near!Render(flights \ {f}, f.answer # <<>>, quote)
    BY <1>4 DEF Near!TakeList
  <2>2. IsList(stores') /\ IsPlace(place') /\ (f.answer # <<>>) \in BOOLEAN
    BY <1>1, <2>1 DEF IsFlight
  <2> QED
    BY <1>1, <1>2, <1>3, <2>1, <2>2, RenderShows DEF IsPlace, IsList
<1>5. CASE Near!TakeAddress(f)
  <2>1. /\ place' = f.of /\ saved' = saved \cup {f.of.address} /\ stores' = stores
        /\ f.kind = "save" /\ Near!Render(flights \ {f}, armed, quote)
    BY <1>5 DEF Near!TakeAddress
  <2>2. IsPlace(place') /\ saved' \subseteq DOMAIN Addresses
    BY <1>1, <2>1 DEF IsFlight
  <2> QED
    BY <1>1, <1>2, <1>3, <2>1, <2>2, RenderShows DEF ShownInv, ShownTypes, IsPlace, IsList
<1>6. CASE Near!TakeRemoval(f)
  <2>1. /\ UNCHANGED <<place, stores>> /\ saved' \subseteq saved
        /\ Near!Render(flights \ {f}, armed, quote)
    BY <1>6 DEF Near!TakeRemoval
  <2> QED
    BY <1>1, <1>2, <1>3, <2>1, RenderShows DEF ShownInv, ShownTypes, IsPlace, IsList
<1>7. CASE Near!TakePosition(f)
  <2>1. PICK spot \in Spots : place' = [f.of EXCEPT !.at = spot]
    BY <1>7 DEF Near!TakePosition
  <2>2. UNCHANGED <<saved, stores>> /\ Near!Render(flights \ {f}, armed, quote)
    BY <1>7 DEF Near!TakePosition
  <2>3. IsPlace(place')
    BY <1>1, <2>1 DEF IsFlight, IsPlace, StoresArePlaced
  <2> QED
    BY <1>1, <1>2, <1>3, <2>2, <2>3, RenderShows DEF ShownInv, ShownTypes, IsPlace, IsList
<1> QED
  BY <1>4, <1>5, <1>6, <1>7

\* The menu and the fee shown are those that were awaited, or none.
LEMMA AwaitedShows ==
  ASSUME StoresArePlaced, ShownInv, NEW f \in flights, Near!TakeMenu(f) \/ Near!TakeQuote(f)
  PROVE  ShownInv'
<1>1. /\ UNCHANGED <<place, saved, stores, basket>> /\ f.live
      /\ \E shown : /\ Near!Render(flights \ {f}, armed, shown)
                    /\ \/ Near!TakeMenu(f) /\ shown = quote
                       \/ Near!TakeQuote(f) /\ shown \in {None, Near!QuoteKey(f.of)}
  BY DEF Near!TakeMenu, Near!TakeQuote
<1>2. PICK shown : /\ Near!Render(flights \ {f}, armed, shown)
                   /\ \/ Near!TakeMenu(f) /\ shown = quote
                      \/ Near!TakeQuote(f) /\ shown \in {None, Near!QuoteKey(f.of)}
  BY <1>1
<1>3. Kept(flights \ {f}) /\ armed \in BOOLEAN /\ IsPlace(place')
  BY <1>1 DEF ShownInv, ShownTypes, Kept, IsPlace
<1>4. /\ \A g \in flights' : IsFlight(g)
      /\ AskedForPlace'
      /\ armed' \in BOOLEAN /\ quoting' \in BOOLEAN /\ (armed' <=> armed)
      /\ \A g \in flights \ {f} : AwaitsMenu(g) => g \in flights'
      /\ \/ /\ (quoting' <=> quoting) /\ quote' = shown
            /\ \A g \in flights \ {f} : AwaitsQuote(g) => g \in flights'
         \/ quoting' \/ quote' = None
  BY <1>1, <1>2, <1>3, Rendered DEF ShownInv
<1>5. ShownTypes' /\ Near!NearestServes'
  BY <1>1, <1>4 DEF ShownInv, ShownTypes, Near!NearestServes, Near!Distance
<1>6. (\E g \in flights' : AwaitsMenu(g)) \/ menu' \subseteq {place'.site}
  <2>1. CASE Near!TakeMenu(f)
    <3>1. menu' \in {{}, {f.of.site}} /\ f.of.site = place.site
      BY <1>1, <2>1 DEF Near!TakeMenu, ShownInv, AskedForPlace
    <3> QED
      BY <1>1, <3>1
  <2>2. CASE Near!TakeQuote(f)
    BY <1>1, <1>4, <2>2 DEF Near!TakeQuote, ShownInv, Near!ShownIsChosen, Near!Awaited, AwaitsMenu
  <2> QED
    BY <2>1, <2>2
<1>7. (\E g \in flights' : AwaitsQuote(g)) \/ quoting' \/ quote' \in {None, Near!QuoteKey(place)}
  <2>1. CASE Near!TakeMenu(f)
    <3>1. ~AwaitsQuote(f)
      BY <2>1 DEF Near!TakeMenu, AwaitsQuote
    <3>2. (\E g \in flights : AwaitsQuote(g)) \/ quoting \/ quote \in {None, Near!QuoteKey(place)}
      BY DEF ShownInv, Near!ShownIsChosen, Near!Awaited, AwaitsQuote
    <3>3. shown = quote \/ shown = None \/ Near!TakeQuote(f)
      BY <1>2
    <3>4. ~Near!TakeQuote(f)
      BY <2>1 DEF Near!TakeMenu, Near!TakeQuote
    <3> QED
      BY <1>4, <3>1, <3>2, <3>3, <3>4
  <2>2. CASE Near!TakeQuote(f)
    <3>1. Near!QuoteKey(f.of) = Near!QuoteKey(place) /\ ~Near!TakeMenu(f)
      BY <1>1, <2>2 DEF Near!TakeQuote, Near!TakeMenu, ShownInv, AskedForPlace
    <3> QED
      BY <1>2, <1>4, <3>1
  <2> QED
    BY <2>1, <2>2
<1>8. Near!ShownIsChosen'
  BY <1>1, <1>6, <1>7 DEF Near!ShownIsChosen, Near!Awaited, AwaitsMenu, AwaitsQuote, Near!QuoteKey
<1> QED
  BY <1>4, <1>5, <1>8 DEF ShownInv

LEMMA ShownSteps ==
  ASSUME StoresArePlaced, ShownInv, [Near!Next]_(Near!vars)
  PROVE  ShownInv'
<1>1. CASE UNCHANGED Near!vars
  BY <1>1 DEF Near!vars, ShownInv, ShownTypes, AskedForPlace, Near!ShownIsChosen,
     Near!NearestServes, Near!Awaited, Near!QuoteKey, Near!Distance
<1> QED
  BY <1>1, ActsShow, ReloadShows, ChoiceShows, ServerShows, AnswersShow, AwaitedShows DEF Near!Next

LEMMA ShownAlways == ASSUME StoresArePlaced PROVE Near!Spec => []ShownInv
BY InitShown, ShownSteps, PTL DEF Near!Spec

\* Once nothing is awaited the menu and the fee are those of the store that serves, for any
\* sites, addresses and answers (src/app/order/controller.tsx: an answer that was
\* cancelled is not taken).
THEOREM ShownIsChosenHolds == ASSUME StoresArePlaced PROVE Near!Spec => []Near!ShownIsChosen
BY ShownAlways, PTL DEF ShownInv

\* The store the page chose is the nearest open one, whatever came last
\* (src/app/order/lib/store-selection.ts).
THEOREM NearestServesHolds == ASSUME StoresArePlaced PROVE Near!Spec => []Near!NearestServes
BY ShownAlways, PTL DEF ShownInv
=============================================================================
