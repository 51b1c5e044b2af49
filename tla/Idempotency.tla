---------------------------- MODULE Idempotency ----------------------------
(***************************************************************************)
(* runIdempotent (lib/idempotency.ts) around one command, for the requests  *)
(* of one scope and key: the claim of the key by an INSERT, the wait of the *)
(* others, the response written down, the key released after an error, and  *)
(* the cleanup of old keys by the health check.  Keys do not interact.      *)
(*                                                                          *)
(* The response of an execution is named by the request that executed.      *)
(***************************************************************************)
EXTENDS Naturals

CONSTANTS
  Requests,   \* HTTP requests that carry the key, first attempts and retries
  Bodies,     \* their contents; requestHash tells different contents apart
  MaxPolls,   \* how often a waiter looks at the row (200 in the code)
  Faults,     \* what may go wrong, see FaultKinds
  None        \* no row, no response, no answer

(* "late": the command commits and something after it throws; "store" and   *)
(* "release": the UPDATE, the DELETE fails; "crash": the process restarts.  *)
FaultKinds == {"late", "store", "release", "crash"}
Failures == {"error", "conflict", "busy", "lost"}

ASSUME IdempotencyAssumption ==
  /\ MaxPolls \in Nat
  /\ Faults \subseteq FaultKinds
  /\ None \notin Requests \cup Bodies
  /\ Requests \cap Failures = {} /\ None \notin Failures

VARIABLES
  row,     \* the row of idempotency_keys: hash and response (None: status_code 0)
  content, \* the content each request sends
  at,      \* the statement each request executes next
  polls,   \* how often it has looked at the row
  answer,  \* what it was answered
  done     \* history: the requests whose command committed since the last cleanup
vars == <<row, content, at, polls, answer, done>>

NoRow == [hash |-> None, response |-> None]
Rows == {NoRow} \cup [hash : Bodies, response : Requests \cup {None}]

Working == {"execute", "store", "release"}
Serving == Working \cup {"poll"}

Init ==
  /\ row = NoRow
  /\ content \in [Requests -> Bodies]
  /\ at = [r \in Requests |-> "new"]
  /\ polls = [r \in Requests |-> 0]
  /\ answer = [r \in Requests |-> None]
  /\ done = {}

-----------------------------------------------------------------------------
Goto(r, label) == at' = [at EXCEPT ![r] = label]

Respond(r, a) ==
  /\ at' = [at EXCEPT ![r] = "answered"]
  /\ answer' = [answer EXCEPT ![r] = a]

(* A bug: a key whose response is missing is taken over. *)
Claim_TakesOver(r) ==
  /\ at[r] = "new"
  /\ \/ /\ row.response = None
        /\ row' = [hash |-> content[r], response |-> None]
        /\ Goto(r, "execute")
     \/ /\ row.response # None
        /\ Goto(r, "poll")
        /\ UNCHANGED row
  /\ UNCHANGED <<content, polls, answer, done>>

(* INSERT ... ON CONFLICT(scope, key) DO NOTHING: one request gets the row. *)
Claim(r) ==
  /\ at[r] = "new"
  /\ \/ /\ row = NoRow
        /\ row' = [hash |-> content[r], response |-> None]
        /\ Goto(r, "execute")
     \/ /\ row # NoRow
        /\ Goto(r, "poll")
        /\ UNCHANGED row
  /\ UNCHANGED <<content, polls, answer, done>>

(* The command commits and returns, refuses with a response of its own      *)
(* (rate limit, no session), or throws; it may throw after its batch has    *)
(* committed, when the snapshot or the attribution that follow fail.        *)
Execute(r) ==
  /\ at[r] = "execute"
  /\ \/ done' = done \cup {r} /\ Goto(r, "store")
     \/ done' = done /\ Goto(r, "store")
     \/ done' = done /\ Goto(r, "release")
     \/ "late" \in Faults /\ done' = done \cup {r} /\ Goto(r, "release")
  /\ UNCHANGED <<row, content, polls, answer>>

(* WHERE ... request_hash = ? AND status_code = 0 *)
IsOpen(r) == row.hash = content[r] /\ row.response = None

Stored(r) == IF IsOpen(r) THEN [row EXCEPT !.response = r] ELSE row

Store(r) ==
  /\ at[r] = "store"
  /\ row' = Stored(r)
  /\ Respond(r, r)
  /\ UNCHANGED <<content, polls, done>>

(* The UPDATE throws, with or without having reached the database. *)
StoreFails(r) ==
  /\ "store" \in Faults
  /\ at[r] = "store"
  /\ row' \in {row, Stored(r)}
  /\ Goto(r, "release")
  /\ UNCHANGED <<content, polls, answer, done>>

Release(r) ==
  /\ at[r] = "release"
  /\ \/ row' = IF IsOpen(r) THEN NoRow ELSE row
     \/ "release" \in Faults /\ row' = row
  /\ Respond(r, "error")
  /\ UNCHANGED <<content, polls, done>>

(* A bug: the response is replayed whatever the content of the request. *)
Poll_AnyContent(r) ==
  /\ at[r] = "poll" /\ polls[r] < MaxPolls
  /\ \/ row.response # None /\ Respond(r, row.response) /\ UNCHANGED polls
     \/ row.response = None /\ polls' = [polls EXCEPT ![r] = @ + 1] /\ UNCHANGED <<at, answer>>
  /\ UNCHANGED <<row, content, done>>

(* A bug: the loop counts only the turns in which it saw the row. *)
Poll_WaitsForRow(r) ==
  /\ at[r] = "poll" /\ polls[r] < MaxPolls /\ row # NoRow
  /\ \/ /\ row.hash # content[r]
        /\ Respond(r, "conflict")
        /\ UNCHANGED polls
     \/ /\ row.hash = content[r] /\ row.response # None
        /\ Respond(r, row.response)
        /\ UNCHANGED polls
     \/ /\ IsOpen(r)
        /\ polls' = [polls EXCEPT ![r] = @ + 1]
        /\ UNCHANGED <<at, answer>>
  /\ UNCHANGED <<row, content, done>>

(* A bug: one look too many. *)
Poll_OneMore(r) ==
  /\ at[r] = "poll" /\ polls[r] <= MaxPolls
  /\ row = NoRow \/ IsOpen(r)
  /\ polls' = [polls EXCEPT ![r] = @ + 1]
  /\ UNCHANGED <<row, content, at, answer, done>>

(* One turn of the waiting loop: an error of replay leaves it. *)
Poll(r) ==
  /\ at[r] = "poll" /\ polls[r] < MaxPolls
  /\ \/ /\ row # NoRow /\ row.hash # content[r]
        /\ Respond(r, "conflict")
        /\ UNCHANGED polls
     \/ /\ row # NoRow /\ row.hash = content[r] /\ row.response # None
        /\ Respond(r, row.response)
        /\ UNCHANGED polls
     \/ /\ row = NoRow \/ IsOpen(r)
        /\ polls' = [polls EXCEPT ![r] = @ + 1]
        /\ UNCHANGED <<at, answer>>
  /\ UNCHANGED <<row, content, done>>

GiveUp(r) ==
  /\ at[r] = "poll" /\ polls[r] = MaxPolls
  /\ Respond(r, "busy")
  /\ UNCHANGED <<row, content, polls, done>>

(* The process restarts: what it was serving is lost, the row stays. *)
Crash ==
  /\ "crash" \in Faults
  /\ \E r \in Requests : at[r] \in Serving
  /\ at' = [r \in Requests |-> IF at[r] \in Serving THEN "answered" ELSE at[r]]
  /\ answer' = [r \in Requests |-> IF at[r] \in Serving THEN "lost" ELSE answer[r]]
  /\ UNCHANGED <<row, content, polls, done>>

(* Rows older than seven days go; no request works for so long. *)
Cleanup ==
  /\ row # NoRow
  /\ \A r \in Requests : at[r] \notin Working
  /\ row' = NoRow
  /\ done' = {}
  /\ UNCHANGED <<content, at, polls, answer>>

Step(r) ==
  Claim(r) \/ Execute(r) \/ Store(r) \/ StoreFails(r) \/ Release(r) \/ Poll(r) \/ GiveUp(r)

Next == Crash \/ Cleanup \/ \E r \in Requests : Step(r)

Spec == Init /\ [][Next]_vars

(* A request that is being served goes on; nobody is obliged to send one.   *)
FairSpec == Spec /\ \A r \in Requests : WF_vars(at[r] # "new" /\ Step(r))
-----------------------------------------------------------------------------
TypeOK ==
  /\ row \in Rows
  /\ content \in [Requests -> Bodies]
  /\ at \in [Requests -> Serving \cup {"new", "answered"}]
  /\ polls \in [Requests -> 0 .. MaxPolls]
  /\ answer \in [Requests -> Requests \cup Failures \cup {None}]
  /\ done \in SUBSET Requests

(* Five requests with one key make one order (docs/KE_HOACH_PHAT_TRIEN.md:748): *)
(* of the requests of a key at most one has taken effect without being answered *)
(* by an error, whatever crashes and retries there are, until the key is        *)
(* cleaned up.                                                                  *)
Disowned == {r \in Requests : answer[r] = "error"}
OneEffectUnlessError == \A r, s \in done \ Disowned : r = s

(* The same without the exception: an error, too, means that nothing happened   *)
(* or that nothing will happen again.                                           *)
OneEffect == \A r, s \in done : r = s

(* The response on record belongs to the request that took effect, and what     *)
(* requests are answered is the response on record: the promise of OnceOnly.    *)
Promise == INSTANCE OnceOnly WITH
  NoAnswer <- None, effects <- done \ Disowned, outcome <- row.response
ImplementsOnceOnly == Promise!Spec

(* Every request that was sent is answered, or lost with the process that       *)
(* served it: waiters give up, and nothing else waits.                          *)
EveryRequestEnds == \A r \in Requests : at[r] # "new" ~> at[r] = "answered"
=============================================================================
