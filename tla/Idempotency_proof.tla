------------------------- MODULE Idempotency_proof -------------------------
(***************************************************************************)
(* One effect per key, and the refinement of OnceOnly, for any number of   *)
(* requests and any combination of faults.                                 *)
(***************************************************************************)
EXTENDS Idempotency, TLAPS

Effective == done \ Disowned

(* The claim belongs to the request that works: nobody else claims until it *)
(* has let go, and what took effect before was disowned.                    *)
ClaimInv ==
  /\ \A r \in Requests : at[r] # "answered" => answer[r] = None
  /\ \A r, s \in Requests : at[r] \in Working /\ at[s] \in Working => r = s
  /\ \A r \in Requests : at[r] \in Working =>
       row.hash = content[r] /\ row.response \in {None, r}
  /\ \A r \in Requests : at[r] \in {"execute", "store"} => row.response = None
  /\ \A r \in Requests : at[r] = "execute" => Effective = {}
  /\ \A r \in Requests : at[r] \in Working => Effective \subseteq {r}
  /\ row = NoRow => Effective = {}
  /\ row.response # None =>
       Effective \subseteq {row.response} /\ content[row.response] = row.hash

KeyInv == TypeOK /\ ClaimInv /\ OneEffectUnlessError

-----------------------------------------------------------------------------
USE IdempotencyAssumption DEF NoRow, Rows, Working, Serving, Failures

LEMMA InitKey == Init => KeyInv
  BY DEF Init, KeyInv, TypeOK, ClaimInv, OneEffectUnlessError, Effective, Disowned

LEMMA ClaimStep ==
  ASSUME KeyInv, NEW r \in Requests, Claim(r)
  PROVE  KeyInv'
<1>1. TypeOK'
  BY DEF KeyInv, TypeOK, Claim, Goto
<1>2. Effective' = Effective /\ OneEffectUnlessError'
  BY DEF KeyInv, OneEffectUnlessError, Effective, Disowned, Claim
<1>3. ClaimInv'
  <2>1. CASE row = NoRow
    BY <1>2, <2>1 DEF KeyInv, TypeOK, ClaimInv, Claim, Goto
  <2>2. CASE row # NoRow
    BY <1>2, <2>2 DEF KeyInv, TypeOK, ClaimInv, Claim, Goto
  <2> QED
    BY <2>1, <2>2
<1> QED
  BY <1>1, <1>2, <1>3 DEF KeyInv

LEMMA ExecuteStep ==
  ASSUME KeyInv, NEW r \in Requests, Execute(r)
  PROVE  KeyInv'
<1>1. TypeOK'
  BY DEF KeyInv, TypeOK, Execute, Goto
<1>2. Effective' \subseteq {r} /\ Effective = {}
  BY DEF KeyInv, ClaimInv, Effective, Disowned, Execute
<1>3. OneEffectUnlessError'
  BY <1>2 DEF OneEffectUnlessError, Effective
<1>4. ClaimInv'
  BY <1>2 DEF KeyInv, TypeOK, ClaimInv, Execute, Goto
<1> QED
  BY <1>1, <1>3, <1>4 DEF KeyInv

LEMMA StoreStep ==
  ASSUME KeyInv, NEW r \in Requests, Store(r)
  PROVE  KeyInv'
<1>1. IsOpen(r) /\ row \in [hash : Bodies, response : Requests \cup {None}]
  BY DEF KeyInv, TypeOK, ClaimInv, Store, IsOpen
<1>2. row' = [hash |-> content[r], response |-> r]
  BY <1>1 DEF Store, Stored, IsOpen
<1>3. TypeOK'
  BY <1>2 DEF KeyInv, TypeOK, Store, Respond
<1>4. Effective' = Effective /\ Effective \subseteq {r}
  BY DEF KeyInv, TypeOK, ClaimInv, Effective, Disowned, Store, Respond
<1>5. OneEffectUnlessError'
  BY <1>4 DEF OneEffectUnlessError, Effective
<1>6. ClaimInv'
  BY <1>2, <1>4 DEF KeyInv, TypeOK, ClaimInv, Store, Respond
<1> QED
  BY <1>3, <1>5, <1>6 DEF KeyInv

LEMMA StoreFailsStep ==
  ASSUME KeyInv, NEW r \in Requests, StoreFails(r)
  PROVE  KeyInv'
<1>1. IsOpen(r) /\ row \in [hash : Bodies, response : Requests \cup {None}]
  BY DEF KeyInv, TypeOK, ClaimInv, StoreFails, IsOpen
<1>2. row' \in {row, [hash |-> content[r], response |-> r]}
  BY <1>1 DEF StoreFails, Stored, IsOpen
<1>3. TypeOK'
  BY <1>2 DEF KeyInv, TypeOK, StoreFails, Goto
<1>4. Effective' = Effective /\ Effective \subseteq {r} /\ OneEffectUnlessError'
  BY DEF KeyInv, ClaimInv, OneEffectUnlessError, Effective, Disowned, StoreFails
<1>5. row.hash = content[r] /\ row.response = None
  BY <1>1 DEF IsOpen
<1>6. row'.hash = content[r] /\ row'.response \in {None, r} /\ row' # NoRow
  BY <1>1, <1>2, <1>5
<1>7. ClaimInv'
  BY <1>4, <1>6 DEF KeyInv, TypeOK, ClaimInv, StoreFails, Goto
<1> QED
  BY <1>3, <1>4, <1>7 DEF KeyInv

LEMMA ReleaseStep ==
  ASSUME KeyInv, NEW r \in Requests, Release(r)
  PROVE  KeyInv'
<1>1. TypeOK'
  BY DEF KeyInv, TypeOK, Release, Respond
<1>2. Effective' = {}
  BY DEF KeyInv, TypeOK, ClaimInv, Effective, Disowned, Release, Respond
<1>3. OneEffectUnlessError'
  BY <1>2 DEF OneEffectUnlessError, Effective
<1>4. row.hash = content[r] /\ row.response \in {None, r}
  BY DEF KeyInv, ClaimInv, Release
<1>5. row' \in {row, NoRow}
  BY DEF Release
<1>6. ClaimInv'
  BY <1>2, <1>4, <1>5 DEF KeyInv, TypeOK, ClaimInv, Release, Respond
<1> QED
  BY <1>1, <1>3, <1>6 DEF KeyInv

(* What waiters do and what they are answered does not touch the claim. *)
LEMMA WaiterStep ==
  ASSUME KeyInv, NEW r \in Requests, Poll(r) \/ GiveUp(r)
  PROVE  KeyInv'
<1>1. TypeOK'
  BY DEF KeyInv, TypeOK, Poll, GiveUp, Respond
<1>2. at[r] = "poll" /\ UNCHANGED <<row, content, done>>
  BY DEF Poll, GiveUp
<1>3. \/ UNCHANGED <<at, answer>>
      \/ \E a \in {"conflict", "busy", row.response} : a # None /\ Respond(r, a)
  BY DEF Poll, GiveUp
<1>4. row.response \in Requests \cup {None}
  BY DEF KeyInv, TypeOK
<1>5. Effective' = Effective
  BY <1>2, <1>3, <1>4 DEF KeyInv, TypeOK, ClaimInv, Effective, Disowned, Respond
<1>6. OneEffectUnlessError'
  BY <1>5 DEF KeyInv, OneEffectUnlessError, Effective
<1>7. ClaimInv'
  BY <1>2, <1>3, <1>5 DEF KeyInv, TypeOK, ClaimInv, Respond
<1> QED
  BY <1>1, <1>6, <1>7 DEF KeyInv

LEMMA CrashStep ==
  ASSUME KeyInv, Crash
  PROVE  KeyInv'
<1>1. TypeOK'
  BY DEF KeyInv, TypeOK, Crash
<1>2. Effective' = Effective
  BY DEF KeyInv, TypeOK, ClaimInv, Effective, Disowned, Crash
<1>3. OneEffectUnlessError'
  BY <1>2 DEF KeyInv, OneEffectUnlessError, Effective
<1>4. ClaimInv'
  BY <1>2 DEF KeyInv, TypeOK, ClaimInv, Crash
<1> QED
  BY <1>1, <1>3, <1>4 DEF KeyInv

LEMMA CleanupStep ==
  ASSUME KeyInv, Cleanup
  PROVE  KeyInv'
<1>1. TypeOK'
  BY DEF KeyInv, TypeOK, Cleanup
<1>2. Effective' = {} /\ OneEffectUnlessError'
  BY DEF OneEffectUnlessError, Effective, Cleanup
<1>3. ClaimInv'
  BY <1>2 DEF KeyInv, ClaimInv, Cleanup
<1> QED
  BY <1>1, <1>2, <1>3 DEF KeyInv

LEMMA NextKey == KeyInv /\ [Next]_vars => KeyInv'
<1> SUFFICES ASSUME KeyInv, [Next]_vars
             PROVE  KeyInv'
  OBVIOUS
<1>1. CASE Crash
  BY <1>1, CrashStep
<1>2. CASE Cleanup
  BY <1>2, CleanupStep
<1>3. ASSUME NEW r \in Requests, Step(r)
      PROVE  KeyInv'
  BY <1>3, ClaimStep, ExecuteStep, StoreStep, StoreFailsStep, ReleaseStep, WaiterStep DEF Step
<1>4. CASE UNCHANGED vars
  BY <1>4 DEF vars, KeyInv, TypeOK, ClaimInv, OneEffectUnlessError, Effective, Disowned, IsOpen
<1> QED
  BY <1>1, <1>2, <1>3, <1>4 DEF Next

(* The claim is kept in every behaviour. *)
THEOREM KeyInvHolds == Spec => []KeyInv
  BY InitKey, NextKey, PTL DEF Spec

(* Of the requests of one key at most one takes effect without being        *)
(* answered by an error (runIdempotent, lib/idempotency.ts:57-95).          *)
THEOREM OneEffectUnlessErrorHolds == Spec => []OneEffectUnlessError
<1>1. KeyInv => OneEffectUnlessError
  BY DEF KeyInv
<1> QED
  BY <1>1, KeyInvHolds, PTL

-----------------------------------------------------------------------------
(* Where nothing throws after the command has committed, an error means     *)
(* that the command had no effect.                                          *)
HonestInv == \A r \in done : at[r] # "release" /\ answer[r] # "error"

LEMMA NextHonest ==
  ASSUME Faults \cap {"late", "store"} = {}, KeyInv, HonestInv, [Next]_vars
  PROVE  HonestInv'
<1>1. CASE Crash
  BY <1>1 DEF Crash, HonestInv, KeyInv, TypeOK
<1>2. CASE Cleanup
  BY <1>2 DEF Cleanup, HonestInv
<1>3. ASSUME NEW r \in Requests, Execute(r)
      PROVE  HonestInv'
  <2>1. r \notin done
    BY <1>3 DEF Execute, KeyInv, ClaimInv, Effective, Disowned, Serving, Failures
  <2> QED
    BY <1>3, <2>1 DEF Execute, Goto, HonestInv, KeyInv, TypeOK, ClaimInv
<1>4. ASSUME NEW r \in Requests, Release(r)
      PROVE  HonestInv'
  BY <1>4 DEF Release, Respond, HonestInv, KeyInv, TypeOK
<1>5. ASSUME NEW r \in Requests, Poll(r) \/ GiveUp(r)
      PROVE  HonestInv'
  <2>1. row.response \in Requests \cup {None}
    BY DEF KeyInv, TypeOK
  <2> QED
    BY <1>5, <2>1 DEF Poll, GiveUp, Respond, HonestInv, KeyInv, TypeOK
<1>6. ASSUME NEW r \in Requests, Claim(r) \/ Store(r)
      PROVE  HonestInv'
  BY <1>6 DEF Claim, Store, Goto, Respond, HonestInv, KeyInv, TypeOK
<1>7. ASSUME NEW r \in Requests, StoreFails(r)
      PROVE  FALSE
  BY <1>7 DEF StoreFails
<1>8. CASE UNCHANGED vars
  BY <1>8 DEF vars, HonestInv
<1> QED
  BY <1>1, <1>2, <1>3, <1>4, <1>5, <1>6, <1>7, <1>8 DEF Next, Step

(* If nothing throws between the commit of the command and the record of    *)
(* its response, a key stands for one effect, whatever else fails.          *)
THEOREM OneEffectHolds ==
  ASSUME Faults \cap {"late", "store"} = {}
  PROVE  Spec => []OneEffect
<1>1. Init => HonestInv
  BY DEF Init, HonestInv
<1>2. HonestInv /\ KeyInv /\ [Next]_vars => HonestInv'
  BY NextHonest
<1>3. KeyInv /\ HonestInv => OneEffect
  BY DEF KeyInv, TypeOK, HonestInv, OneEffectUnlessError, OneEffect, Disowned
<1> QED
  BY <1>1, <1>2, <1>3, KeyInvHolds, PTL DEF Spec

-----------------------------------------------------------------------------
(* The refinement: a step of a request is a step of OnceOnly or leaves its  *)
(* variables alone.                                                         *)
LEMMA SimulatedStep ==
  ASSUME KeyInv, NEW r \in Requests, Step(r)
  PROVE  [Promise!Next]_(Promise!vars)
<1> USE DEF Promise!vars
<1>1. row.response \in Requests \cup {None}
  BY DEF KeyInv, TypeOK
<1>2. CASE Claim(r)
  BY <1>2 DEF Claim, Disowned
<1>3. CASE Execute(r)
  <2>1. Effective = {} /\ row.response = None /\ answer[r] = None
    BY <1>3 DEF Execute, KeyInv, ClaimInv
  <2>2. UNCHANGED <<row, content, answer>> /\ done' \in {done, done \cup {r}}
    BY <1>3 DEF Execute
  <2>3. Effective' \in {{}, {r}}
    BY <2>1, <2>2 DEF Effective, Disowned
  <2>4. Promise!Perform(r) \/ UNCHANGED Promise!vars
    BY <2>1, <2>2, <2>3 DEF Promise!Perform, Effective
  <2> QED
    BY <2>4 DEF Promise!Next
<1>4. CASE Store(r)
  <2>1. row'.response = r /\ row.response = None /\ Effective \subseteq {r}
    BY <1>4 DEF Store, Stored, IsOpen, KeyInv, TypeOK, ClaimInv
  <2>2. Effective' = Effective /\ answer' = [answer EXCEPT ![r] = r] /\ content' = content
    BY <1>4 DEF Store, Respond, Effective, Disowned, KeyInv, TypeOK, ClaimInv
  <2>3. Promise!Record(r)
    BY <2>1, <2>2 DEF Promise!Record, Effective
  <2> QED
    BY <2>3 DEF Promise!Next
<1>5. CASE StoreFails(r)
  <2>1. row'.response \in {row.response, r} /\ row.response = None /\ Effective \subseteq {r}
    BY <1>5 DEF StoreFails, Stored, IsOpen, KeyInv, TypeOK, ClaimInv
  <2>2. UNCHANGED <<content, answer, done>>
    BY <1>5 DEF StoreFails
  <2>3. Promise!Record(r) \/ UNCHANGED Promise!vars
    BY <2>1, <2>2 DEF Promise!Record, Effective, Disowned
  <2> QED
    BY <2>3 DEF Promise!Next
<1>6. CASE Release(r)
  <2>1. /\ answer[r] = None
        /\ answer' = [answer EXCEPT ![r] = "error"]
        /\ row'.response = row.response
        /\ UNCHANGED <<content, done>>
    BY <1>6 DEF Release, Respond, IsOpen, KeyInv, ClaimInv
  <2>2. Effective' = Effective \ {r}
    BY <2>1 DEF Effective, Disowned, KeyInv, TypeOK
  <2>3. answer' = [q \in Requests |-> IF q \in {r} THEN "error" ELSE answer[q]]
    BY <2>1 DEF KeyInv, TypeOK
  <2>4. Promise!Fail
    BY <2>1, <2>2, <2>3 DEF Promise!Fail, Effective
  <2> QED
    BY <2>4 DEF Promise!Next
<1>7. CASE Poll(r) \/ GiveUp(r)
  <2>1. UNCHANGED <<row, content, done>> /\ answer[r] = None
    BY <1>7 DEF Poll, GiveUp, KeyInv, ClaimInv
  <2>2. \/ UNCHANGED answer
        \/ \E f \in {"conflict", "busy"} : answer' = [answer EXCEPT ![r] = f]
        \/ /\ row.response # None /\ row.hash = content[r]
           /\ answer' = [answer EXCEPT ![r] = row.response]
    BY <1>7 DEF Poll, GiveUp, Respond
  <2>3. CASE UNCHANGED answer
    BY <2>1, <2>3 DEF Disowned
  <2>4. ASSUME NEW f \in {"conflict", "busy"}, answer' = [answer EXCEPT ![r] = f]
        PROVE  Promise!Fail
    <3>1. Effective' = Effective
      BY <2>1, <2>4 DEF Effective, Disowned, KeyInv, TypeOK
    <3>2. answer' = [q \in Requests |-> IF q \in {r} THEN f ELSE answer[q]]
      BY <2>4 DEF KeyInv, TypeOK
    <3> QED
      BY <2>1, <3>1, <3>2 DEF Promise!Fail, Effective
  <2>5. ASSUME row.response # None, row.hash = content[r],
               answer' = [answer EXCEPT ![r] = row.response]
        PROVE  Promise!Replay(r)
    <3>1. Effective' = Effective
      BY <1>1, <2>1, <2>5 DEF Effective, Disowned, KeyInv, TypeOK
    <3>2. content[row.response] = content[r]
      BY <2>5 DEF KeyInv, ClaimInv
    <3> QED
      BY <2>1, <2>5, <3>1, <3>2 DEF Promise!Replay, Effective
  <2> QED
    BY <2>2, <2>3, <2>4, <2>5 DEF Promise!Next
<1> QED
  BY <1>2, <1>3, <1>4, <1>5, <1>6, <1>7 DEF Step

LEMMA SimulatedCrash ==
  ASSUME KeyInv, Crash
  PROVE  Promise!Fail
<1> DEFINE failed == {q \in Requests : at[q] \in Serving}
<1>1. failed \in SUBSET {q \in Requests : answer[q] = None}
  BY DEF KeyInv, ClaimInv
<1>2. answer' = [q \in Requests |-> IF q \in failed THEN "lost" ELSE answer[q]]
  BY DEF Crash
<1>3. Effective' = Effective
  BY DEF KeyInv, TypeOK, ClaimInv, Effective, Disowned, Crash
<1>4. UNCHANGED <<row, content>>
  BY DEF Crash
<1> HIDE DEF failed
<1> QED
  BY <1>1, <1>2, <1>3, <1>4 DEF Promise!Fail, Effective

LEMMA SimulatedCleanup ==
  ASSUME KeyInv, Cleanup
  PROVE  Promise!Erase
  BY DEF Cleanup, Promise!Erase

\* Whatever is claimed, answered, lost in a crash or cleaned up, every row and every request
\* is one of runIdempotent's: no poll is made after the last, no answer is of another kind.
THEOREM KeysHaveTheirTypes == Spec => []TypeOK
<1>1. KeyInv => TypeOK
  BY DEF KeyInv
<1> QED
  BY <1>1, KeyInvHolds, PTL

(* runIdempotent delivers what OnceOnly says. *)
THEOREM OnceOnlyHolds == Spec => ImplementsOnceOnly
<1>1. Init => Promise!Init
  BY DEF Init, Promise!Init
<1>2. KeyInv /\ [Next]_vars => [Promise!Next]_(Promise!vars)
  <2> SUFFICES ASSUME KeyInv, [Next]_vars
               PROVE  [Promise!Next]_(Promise!vars)
    OBVIOUS
  <2>1. CASE UNCHANGED vars
    BY <2>1 DEF vars, Promise!vars, Disowned
  <2>2. CASE Crash
    BY <2>2, SimulatedCrash DEF Promise!Next
  <2>3. CASE Cleanup
    BY <2>3, SimulatedCleanup DEF Promise!Next
  <2>4. CASE \E r \in Requests : Step(r)
    BY <2>4, SimulatedStep
  <2> QED
    BY <2>1, <2>2, <2>3, <2>4 DEF Next
<1> QED
  BY <1>1, <1>2, KeyInvHolds, PTL DEF Spec, ImplementsOnceOnly, Promise!Spec
=============================================================================
