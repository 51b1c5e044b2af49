------------------------------- MODULE Startup -------------------------------
(***************************************************************************)
(* A process of the server starting: the migrations its image carries, each   *)
(* one transaction, then the server.  Two replicas, or the old and the new     *)
(* image of a deployment, start at once; a start that fails, or a process      *)
(* that dies, is started again.                                               *)
(***************************************************************************)
EXTENDS Integers, FiniteSets

CONSTANTS
  Processes, Images, \* Images: the numbers of migrations an image may carry
  Statements,        \* statements of a migration
  MaxStarts          \* bound: starts in a behaviour

Newest == CHOOSE n \in Images : \A m \in Images : m <= n
Versions == 1..Newest

VARIABLES
  recorded, \* runtime_schema_migrations
  applied,  \* how many statements of each version are in effect
  process, starts
vars == <<recorded, applied, process, starts>>

Down == [at |-> "down", image |-> 0, done |-> {}, version |-> 0, ran |-> 0]

Init ==
  /\ recorded = {} /\ applied = [v \in Versions |-> 0]
  /\ process = [p \in Processes |-> Down] /\ starts = 0

-----------------------------------------------------------------------------
Step(p, what) == process' = [process EXCEPT ![p] = what]

(* start-production runs migrate.mjs and waits for it to end.  *)
Start(p) ==
  /\ process[p].at = "down" /\ starts < MaxStarts /\ starts' = starts + 1
  /\ \E n \in Images : Step(p, [Down EXCEPT !.at = "read", !.image = n])
  /\ UNCHANGED <<recorded, applied>>

(* What is recorded is read once; the rest is carried out in order. *)
Onward(r, after) ==
  LET left == {v \in 1..r.image : v > after /\ v \notin r.done} IN
  IF left = {} THEN [r EXCEPT !.at = "migrated"]
  ELSE [r EXCEPT !.at = "batch", !.version = CHOOSE v \in left : \A w \in left : v <= w, !.ran = 0]
ReadVersions(p) ==
  /\ process[p].at = "read"
  /\ Step(p, Onward([process[p] EXCEPT !.done = recorded], 0))
  /\ UNCHANGED <<recorded, applied, starts>>

(* The transaction: one statement after the other, the record of the version   *)
(* the last of them.  What it does shows when it commits.                      *)
Execute(p) ==
  /\ process[p].at = "batch" /\ process[p].ran < Statements
  /\ Step(p, [process[p] EXCEPT !.ran = @ + 1])
  /\ UNCHANGED <<recorded, applied, starts>>
Commit(p) ==
  LET r == process[p] IN
  /\ r.at = "batch" /\ r.ran = Statements
  /\ recorded' = recorded \cup {r.version}
  /\ applied' = [applied EXCEPT ![r.version] = Statements]
  /\ Step(p, Onward(r, r.version))
  /\ UNCHANGED starts

Left_Statements(ran) == ran
Left(ran) == 0 \* of a transaction rolled back

(* A statement fails, on its own or because another start is at the same one:  *)
(* the transaction is rolled back and migrate.mjs ends with an error.          *)
Fail(p) ==
  LET r == process[p] IN
  /\ r.at \in {"read", "batch"}
  /\ applied' = IF r.at = "batch" /\ applied[r.version] < Statements
                  THEN [applied EXCEPT ![r.version] = Left(r.ran)] ELSE applied
  /\ Step(p, [r EXCEPT !.at = "failed"])
  /\ UNCHANGED <<recorded, starts>>

Serves_Anyway(at) == at \in {"migrated", "failed"}
Serves(at) == at = "migrated"
Serve(p) ==
  /\ Serves(process[p].at) /\ Step(p, [process[p] EXCEPT !.at = "serving"])
  /\ UNCHANGED <<recorded, applied, starts>>
Exit(p) ==
  /\ process[p].at \in {"failed", "serving"} /\ Step(p, Down)
  /\ UNCHANGED <<recorded, applied, starts>>

Next == \E p \in Processes :
  Start(p) \/ ReadVersions(p) \/ Execute(p) \/ Commit(p) \/ Fail(p) \/ Serve(p) \/ Exit(p)

Spec == Init /\ [][Next]_vars

-----------------------------------------------------------------------------
TypeOK ==
  /\ recorded \subseteq Versions /\ applied \in [Versions -> 0..Statements]
  /\ starts \in 0..MaxStarts
  /\ \A p \in Processes : process[p].at \in {"down", "read", "batch", "migrated", "failed", "serving"}

(* A process serves only when all the migrations of its image are in effect,   *)
(* whatever starts ran beside it and however many failed.                      *)
ServedSchemaIsComplete ==
  \A p \in Processes : process[p].at = "serving" => 1..process[p].image \subseteq recorded

(* A version is recorded together with its statements, after all the versions  *)
(* before it; one that is not recorded has left nothing behind.                *)
SchemaIsWhole ==
  \A v \in Versions :
    /\ v \in recorded => 1..v \subseteq recorded
    /\ applied[v] = IF v \in recorded THEN Statements ELSE 0
=============================================================================
