------------------------------ MODULE Settings ------------------------------
(***************************************************************************)
(* One setting, the affiliate tiers: the stored row, the copy each server     *)
(* process keeps of it, the command that changes it, and the members whose     *)
(* rate follows the change.  Time passes in ticks; a query ends within one.   *)
(***************************************************************************)
EXTENDS Integers, Sequences, FiniteSets, SequencesExt

CONSTANTS
  Processes, \* server processes
  Values,    \* lists of tiers, all of one length
  Default,   \* the registry's list, of Values
  TTL,       \* CACHE_TTL_MS, in ticks
  MaxTime,
  Members,   \* affiliates
  MaxChanges,
  None

(* Bounds: MaxTime, MaxChanges. *)
Times == 0..MaxTime

VARIABLES
  stored, \* the row of system_settings
  rates,  \* affiliate_members.commission_bps
  cache,  \* the copy of each process, and when it says it was loaded
  past,   \* the values in force at some moment of each tick
  served, \* the value a process last resolved, and when
  changes,\* system_setting_history: <<old, new>>
  now,
  request \* what each process has read: it loads, or changes, one at a time
vars == <<stored, rates, cache, past, served, changes, now, request>>

Row == Values \cup {None}
Rates == {v[i] : v \in Values, i \in 1..Len(Default)}
Copy == [row : Row, at : Times]
Idle == [at |-> "idle"]
Pending ==
  {Idle} \cup
  [at : {"store"}, row : Row, begun : Times] \cup
  [at : {"change"}, current : Row, new : Row] \cup
  [at : {"forget"}]

Valued(row) == IF row = None THEN Default ELSE row

Init ==
  /\ stored = None /\ cache = [p \in Processes |-> None]
  /\ rates \in [Members -> {Default[i] : i \in 1..Len(Default)}]
  /\ past = [t \in Times |-> IF t = 0 THEN {Default} ELSE {}]
  /\ served = [value |-> Default, at |-> 0] /\ changes = <<>> /\ now = 0
  /\ request = [p \in Processes |-> Idle]

-----------------------------------------------------------------------------
Then(p, what) == request' = [request EXCEPT ![p] = what]

(* loadRows: the copy, until it is TTL old. *)
Fresh_Forever(p) == cache[p] # None
Fresh(p) == cache[p] # None /\ (cache[p] # None => now - cache[p].at < TTL)

LoadRead(p) ==
  /\ request[p] = Idle /\ ~Fresh(p)
  /\ Then(p, [at |-> "store", row |-> stored, begun |-> now])
  /\ UNCHANGED <<stored, rates, cache, past, served, changes, now>>

(* The copy is dated when the answer has come. *)
LoadStore(p) ==
  /\ request[p].at = "store"
  /\ cache' = [cache EXCEPT ![p] = [row |-> request[p].row, at |-> now]]
  /\ Then(p, Idle)
  /\ UNCHANGED <<stored, rates, past, served, changes, now>>

(* resolveSetting of a request that finds a copy. *)
Serve(p) ==
  /\ request[p] = Idle /\ Fresh(p)
  /\ served' = [value |-> Valued(cache[p].row), at |-> now]
  /\ UNCHANGED <<stored, rates, cache, past, changes, now, request>>

(* settings.update and settings.reset take the old value from the copy. *)
ChangeRead(p) ==
  /\ request[p] = Idle /\ Fresh(p) /\ Len(changes) < MaxChanges
  /\ \E new \in Row :
       /\ new # cache[p].row
       /\ Then(p, [at |-> "change", current |-> cache[p].row, new |-> new])
  /\ UNCHANGED <<stored, rates, cache, past, served, changes, now>>

(* affiliateTierMigrationStatements: one statement per tier that moves, in    *)
(* order, each on what the one before it left. *)
Migrated(old, new) ==
  FoldLeft(LAMBDA r, i :
             IF old[i] = new[i] \/ old[i] = 0 THEN r
             ELSE [m \in Members |-> IF r[m] = old[i] THEN new[i] ELSE r[m]],
           rates, [i \in 1..Len(old) |-> i])

Change(p) ==
  LET old == Valued(request[p].current) new == Valued(request[p].new) IN
  /\ request[p].at = "change"
  /\ stored' = request[p].new
  /\ rates' = Migrated(old, new)
  /\ changes' = Append(changes, <<old, new>>)
  /\ past' = [past EXCEPT ![now] = @ \cup {new}]
  /\ Then(p, [at |-> "forget"])
  /\ UNCHANGED <<cache, served, now>>

(* invalidateSettingsCache *)
Forget(p) ==
  /\ request[p].at = "forget"
  /\ cache' = [cache EXCEPT ![p] = None]
  /\ Then(p, Idle)
  /\ UNCHANGED <<stored, rates, past, served, changes, now>>

Tick ==
  /\ now < MaxTime
  /\ \A p \in Processes : request[p].at = "store" => request[p].begun = now
  /\ now' = now + 1
  /\ past' = [past EXCEPT ![now + 1] = {Valued(stored)}]
  /\ UNCHANGED <<stored, rates, cache, served, changes, request>>

Next ==
  \/ Tick
  \/ \E p \in Processes :
       LoadRead(p) \/ LoadStore(p) \/ Serve(p) \/ ChangeRead(p) \/ Change(p) \/ Forget(p)

Spec == Init /\ [][Next]_vars

-----------------------------------------------------------------------------
TypeOK ==
  /\ stored \in Row /\ rates \in [Members -> Rates]
  /\ cache \in [Processes -> Copy \cup {None}]
  /\ past \in [Times -> SUBSET Values] /\ served \in [value : Values, at : Times]
  /\ changes \in Seq(Values \X Values) /\ now \in Times
  /\ request \in [Processes -> Pending]

(* Whatever loads and changes cross in whatever process, a request is given a *)
(* value that was in force within the last TTL, and the tick a query takes.   *)
StaleAtMostTTL ==
  \E t \in Times : served.at - TTL <= t /\ t <= served.at /\ served.value \in past[t]

=============================================================================
