----------------------------- MODULE PortalPage ------------------------------
(***************************************************************************)
(* One tab of the portal: who it shows as signed in, the data it shows, and   *)
(* what makes it load again: the stream of events, a timer when the stream is  *)
(* down, the tab shown again, a command of its own.  Loads overlap, and the    *)
(* page takes their answers in whatever order they come.                      *)
(***************************************************************************)
EXTENDS Integers, FiniteSets

CONSTANTS Users, MaxChanges, MaxLoads, MaxCalls, None

(* Bounds: MaxChanges of the data, MaxLoads requests for data and MaxCalls    *)
(* session calls in a behaviour. *)

VARIABLES
  latest,   \* the data: how often it changed
  live,     \* users with a session on the server
  cookie,   \* the browser's
  session,  \* portalSession; selectedRole goes with it
  snapshot, \* what the page shows
  stream,   \* the EventSource, with the cursor the server keeps for it
  timers,   \* which timers are set
  visible,
  flights, begun, \* requests for data under way, and begun so far
  calls, called,  \* session calls under way, and begun so far
  unseen,   \* history: a change the last load did not see came while no stream was open
  mark      \* history: the requests begun when the session of the page last changed
vars == <<latest, live, cookie, session, snapshot, stream, timers, visible,
          flights, begun, calls, called, unseen, mark>>
page == <<session, snapshot, stream, timers, visible>>

Versions == 0..MaxChanges
Closed == [at |-> "closed"]
Shown == [of : Users, version : Versions, load : 1..MaxLoads]
Flight == [n : 1..MaxLoads, kind : {"load", "command"}, of : Users \cup {None},
           read : Versions \cup {None}, served : BOOLEAN]
Call == [kind : {"in", "out", "read"}, who : Users \cup {None}, served : BOOLEAN]

(* The effect of selectedRole: timers and stream go with the old role, a load  *)
(* and a stream start with the new one. *)
Effect(role) ==
  /\ stream' = IF role = None \/ ~visible THEN Closed ELSE [at |-> "connecting", of |-> cookie']
  /\ timers' = IF role = None THEN {} ELSE {"refresh"}

Init ==
  /\ latest = 0 /\ live = {} /\ cookie = None /\ session = None /\ snapshot = None
  /\ stream = Closed /\ timers = {} /\ visible = TRUE
  /\ flights = {} /\ begun = 0 /\ calls = {} /\ called = 0 /\ unseen = FALSE /\ mark = 0

-----------------------------------------------------------------------------
(* The server. *)
Missing(s) == s.at # "open"

Change ==
  /\ latest < MaxChanges /\ latest' = latest + 1
  /\ unseen' = (unseen \/ Missing(stream))
  /\ UNCHANGED <<live, cookie, page, flights, begun, calls, called, mark>>

Revoke(u) == \* a password changed elsewhere
  /\ u \in live /\ live' = live \ {u}
  /\ UNCHANGED <<latest, cookie, page, flights, begun, calls, called, unseen, mark>>

(* GET reads; a command changes the data and reads them after. *)
Serve(f) ==
  /\ f \in flights /\ ~f.served
  /\ IF f.of \notin live
       THEN UNCHANGED <<latest, unseen>> /\ flights' = (flights \ {f}) \cup {[f EXCEPT !.served = TRUE]}
       ELSE /\ IF f.kind = "command" THEN latest < MaxChanges /\ latest' = latest + 1 ELSE latest' = latest
            /\ unseen' = (f.n # begun /\ (unseen \/ (latest' # latest /\ Missing(stream))))
            /\ flights' = (flights \ {f}) \cup {[f EXCEPT !.served = TRUE, !.read = latest']}
  /\ UNCHANGED <<live, cookie, page, begun, calls, called, mark>>

ServeCall(c) ==
  /\ c \in calls /\ ~c.served
  /\ live' = CASE c.kind = "in" -> live \cup {c.who} [] c.kind = "out" -> live \ {c.who}
               [] c.kind = "read" -> live
  /\ calls' = (calls \ {c}) \cup
              {[c EXCEPT !.served = TRUE, !.who = IF c.kind = "read" /\ c.who \notin live THEN None ELSE c.who]}
  /\ UNCHANGED <<latest, cookie, page, flights, begun, called, unseen, mark>>

-----------------------------------------------------------------------------
(* loadSnapshot and runCommand. *)
Request(kind) ==
  /\ begun < MaxLoads /\ begun' = begun + 1
  /\ flights' = flights \cup {[n |-> begun', kind |-> kind, of |-> cookie, read |-> None, served |-> FALSE]}

(* A timer runs out: the one of an event, or the interval while the stream is  *)
(* down, which stays set. *)
Load_WhenIdle ==
  /\ session # None /\ \E t \in timers \cap {"refresh", "fallback"} :
       /\ timers' = timers \ ({t} \cap {"refresh"})
       /\ IF flights = {} THEN Request("load") ELSE UNCHANGED <<flights, begun>>
  /\ UNCHANGED <<latest, live, cookie, session, snapshot, stream, visible, calls, called, unseen, mark>>

Load ==
  /\ session # None /\ \E t \in timers \cap {"refresh", "fallback"} : timers' = timers \ ({t} \cap {"refresh"})
  /\ Request("load")
  /\ UNCHANGED <<latest, live, cookie, session, snapshot, stream, visible, calls, called, unseen, mark>>

Command ==
  /\ session # None /\ (\A f \in flights : f.kind = "load") /\ Request("command")
  /\ UNCHANGED <<latest, live, cookie, page, calls, called, unseen, mark>>

(* The answer is shown whatever the page shows by then. *)
Answered(f) ==
  /\ f \in flights /\ f.served /\ flights' = flights \ {f}
  /\ IF f.read = None THEN UNCHANGED snapshot
     ELSE snapshot' = [of |-> f.of, version |-> f.read, load |-> f.n]
  /\ UNCHANGED <<latest, live, cookie, session, stream, timers, visible, begun, calls, called, unseen, mark>>

Lost(f) ==
  /\ f \in flights /\ flights' = flights \ {f}
  /\ UNCHANGED <<latest, live, cookie, session, snapshot, stream, timers, visible, begun, calls, called, unseen, mark>>

-----------------------------------------------------------------------------
(* The stream. *)
Connected ==
  /\ stream.at = "connecting"
  /\ \/ /\ stream.of \in live /\ stream' = [at |-> "open", of |-> stream.of, seen |-> latest]
        /\ timers' = timers \ {"fallback"}
     \/ stream' = Closed /\ timers' = timers \cup {"fallback", "reconnect"}
  /\ UNCHANGED <<latest, live, cookie, session, snapshot, visible, flights, begun, calls, called, unseen, mark>>

Event ==
  /\ stream.at = "open" /\ stream.seen < latest
  /\ stream' = [stream EXCEPT !.seen = latest] /\ timers' = timers \cup {"refresh"}
  /\ UNCHANGED <<latest, live, cookie, session, snapshot, visible, flights, begun, calls, called, unseen, mark>>

(* What it had not sent yet is never sent: a new stream starts at the latest. *)
Unsent == stream.at = "open" /\ stream.seen < latest

StreamError ==
  /\ stream.at = "open" /\ stream' = Closed
  /\ timers' = timers \cup {"fallback", "reconnect"} /\ unseen' = (unseen \/ Unsent)
  /\ UNCHANGED <<latest, live, cookie, session, snapshot, visible, flights, begun, calls, called, mark>>

Reconnect ==
  /\ "reconnect" \in timers
  /\ IF visible /\ stream = Closed
       THEN /\ stream' = [at |-> "connecting", of |-> cookie]
            /\ timers' = timers \ {"reconnect", "fallback"}
       ELSE UNCHANGED stream /\ timers' = timers \ {"reconnect"}
  /\ UNCHANGED <<latest, live, cookie, session, snapshot, visible, flights, begun, calls, called, unseen, mark>>

Hide ==
  /\ visible /\ visible' = FALSE /\ stream' = Closed /\ timers' = timers \ {"fallback"}
  /\ unseen' = (unseen \/ Unsent)
  /\ UNCHANGED <<latest, live, cookie, session, snapshot, flights, begun, calls, called, mark>>

Show ==
  /\ ~visible /\ visible' = TRUE
  /\ IF session = None THEN UNCHANGED <<stream, timers, flights, begun>>
     ELSE /\ Request("load")
          /\ IF stream = Closed
               THEN stream' = [at |-> "connecting", of |-> cookie] /\ timers' = timers \ {"fallback"}
               ELSE UNCHANGED <<stream, timers>>
  /\ UNCHANGED <<latest, live, cookie, session, snapshot, calls, called, unseen, mark>>

-----------------------------------------------------------------------------
(* signIn, signOut, refreshSession, and restoreSession after a reload. *)
Ask(kind, who) ==
  /\ called < MaxCalls /\ called' = called + 1
  /\ calls' = calls \cup {[kind |-> kind, who |-> who, served |-> FALSE]}

SessionCall ==
  /\ \/ session = None /\ calls = {} /\ \E u \in Users : Ask("in", u)
     \/ session # None /\ (\A c \in calls : c.kind # "out") /\ Ask("out", cookie)
     \/ session # None /\ (\A c \in calls : c.kind # "read") /\ Ask("read", cookie)
  /\ UNCHANGED <<latest, live, cookie, page, flights, begun, unseen, mark>>

(* What was open is closed with its session. *)
Become(who) == session' = who /\ IF who = session THEN UNCHANGED <<stream, timers>> ELSE Effect(who)

CallAnswered(c) ==
  /\ c \in calls /\ c.served /\ calls' = calls \ {c}
  /\ cookie' = CASE c.kind = "in" -> c.who [] c.kind = "out" -> None [] c.kind = "read" -> cookie
  /\ IF c.kind = "read"
       THEN /\ Become(IF c.who = None THEN session ELSE c.who) /\ UNCHANGED snapshot
       ELSE /\ Become(IF c.kind = "in" THEN c.who ELSE None) /\ snapshot' = None
  /\ unseen' = (unseen \/ (session' # session /\ Unsent))
  /\ mark' = IF session' = session THEN mark ELSE begun
  /\ UNCHANGED <<latest, live, visible, flights, begun, called>>

CallLost(c) ==
  /\ c \in calls /\ calls' = calls \ {c}
  /\ UNCHANGED <<latest, live, cookie, page, flights, begun, called, unseen, mark>>

Reload ==
  /\ session' = None /\ snapshot' = None /\ stream' = Closed /\ timers' = {}
  /\ called < MaxCalls /\ called' = called + 1 /\ flights' = {}
  /\ calls' = {[kind |-> "read", who |-> cookie, served |-> FALSE]}
  /\ unseen' = (unseen \/ Unsent) /\ mark' = begun /\ UNCHANGED <<latest, live, cookie, visible, begun>>

Next ==
  \/ Change \/ Load \/ Command \/ Connected \/ Event \/ StreamError \/ Reconnect
  \/ Hide \/ Show \/ SessionCall \/ Reload
  \/ \E u \in Users : Revoke(u)
  \/ \E f \in flights : Serve(f) \/ Answered(f) \/ Lost(f)
  \/ \E c \in calls : ServeCall(c) \/ CallAnswered(c) \/ CallLost(c)

Spec == Init /\ [][Next]_vars

-----------------------------------------------------------------------------
TypeOK ==
  /\ latest \in Versions /\ live \subseteq Users /\ {cookie, session} \subseteq Users \cup {None}
  /\ snapshot = None \/ snapshot \in Shown
  /\ stream.at \in {"closed", "connecting", "open"}
  /\ timers \subseteq {"refresh", "fallback", "reconnect"} /\ visible \in BOOLEAN
  /\ flights \subseteq Flight /\ begun \in 0..MaxLoads
  /\ calls \subseteq Call /\ called \in 0..MaxCalls /\ unseen \in BOOLEAN /\ mark \in 0..begun

Shows(load) == session # None /\ snapshot # None /\ snapshot.load = load

(* With the stream open and sent to the end, no timer and no request left, the *)
(* page shows the data as it is: an event during a load leads to another.      *)
(* (Not when an older answer came after the last one, nor for a change made    *)
(* between the last load and a stream that was not open yet.)                  *)
PageIsFresh ==
  /\ stream.at = "open" /\ stream.seen = latest /\ flights = {} /\ "refresh" \notin timers
  /\ Shows(begun) /\ ~unseen
  => snapshot.version = latest

(* Data asked for after a sign-in is that of the user who signed in, also when *)
(* another used the tab before. *)
DataIsOwn ==
  \A load \in (mark + 1)..begun : Shows(load) /\ cookie = session => snapshot.of = session

=============================================================================
