------------------------------ MODULE OnceOnly ------------------------------
(***************************************************************************)
(* What the handling of an Idempotency-Key delivers: of all the requests    *)
(* that carry one key at most one takes effect without being answered by an *)
(* error, the response to it is written down, and every other request with  *)
(* the same content gets that response.  After the key's term the memory is *)
(* erased.                                                                  *)
(***************************************************************************)
CONSTANTS Requests, Bodies, NoAnswer, Failures

VARIABLES
  effects,  \* the requests whose command took effect since the key was erased,
            \* those answered by an error excepted
  content,  \* the content of each request, once it is known
  outcome,  \* the request whose response is written down; NoAnswer if none
  answer    \* what each request was answered: a request (the response made for
            \* it), a failure, or NoAnswer
vars == <<effects, content, outcome, answer>>

Init ==
  /\ effects = {}
  /\ content \in [Requests -> Bodies]
  /\ outcome = NoAnswer
  /\ answer = [r \in Requests |-> NoAnswer]

(* The command takes effect: it is the only one. *)
Perform(r) ==
  /\ effects = {} /\ outcome = NoAnswer
  /\ effects' = {r}
  /\ UNCHANGED <<content, outcome, answer>>

(* The response is written down; nothing else took effect.  The request     *)
(* itself is usually answered in the same step.                             *)
Record(r) ==
  /\ outcome = NoAnswer
  /\ effects \subseteq {r}
  /\ outcome' = r
  /\ answer' \in {answer, [answer EXCEPT ![r] = r]}
  /\ UNCHANGED <<effects, content>>

Replay(r) ==
  /\ answer[r] = NoAnswer
  /\ outcome # NoAnswer /\ content[outcome] = content[r]
  /\ answer' = [answer EXCEPT ![r] = outcome]
  /\ UNCHANGED <<effects, content, outcome>>

(* Requests fail, one alone or all at once when the process restarts.  An   *)
(* error disowns what its request did.                                      *)
Fail ==
  /\ \E f \in Failures, failed \in SUBSET {r \in Requests : answer[r] = NoAnswer} :
       /\ answer' = [r \in Requests |-> IF r \in failed THEN f ELSE answer[r]]
       /\ effects' \in {effects, effects \ failed}
  /\ UNCHANGED <<content, outcome>>

Erase ==
  /\ effects' = {} /\ outcome' = NoAnswer
  /\ UNCHANGED <<content, answer>>

Next ==
  \/ Fail \/ Erase
  \/ \E r \in Requests : Perform(r) \/ Record(r) \/ Replay(r)

Spec == Init /\ [][Next]_vars
=============================================================================
