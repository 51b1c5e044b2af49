--------------------------- MODULE Services_proof ---------------------------
(***************************************************************************)
(* Theorems about the services around the orders, each for every value of  *)
(* the constants of its module. Services declares the tables and the       *)
(* constants, and names the instance a theorem is about; MCServices_proof  *)
(* puts the theorems together.                                             *)
(***************************************************************************)
EXTENDS Sequences, FiniteSetTheorems, WellFoundedInduction, TLAPS, Services

-----------------------------------------------------------------------------
(***************************************************************************)
(* Sums over finite sets.  A fold takes the elements in the order CHOOSE   *)
(* picks them.  What it adds up to does not depend on that order, which a  *)
(* smallest counterexample shows; Total is that number.                    *)
(***************************************************************************)

LEMMA LeastOfNaturals ==
  ASSUME NEW T, T \subseteq Nat, T # {}
  PROVE  \E x \in T : \A y \in T : x <= y
<1>1. PICK x \in T : \A y \in T : ~ (<<y, x>> \in OpToRel(<, Nat))
  BY NatLessThanWellFounded, WFMin
<1>2. \A y \in T : ~ (y < x)
  BY <1>1 DEF OpToRel
<1> QED
  BY <1>2

Pick(s) == CHOOSE x \in s : TRUE
AddUp(v, f, s) == IF s = {} THEN 0 ELSE v[Pick(s)] + f[s \ {Pick(s)}]
Solves(f, v, S) == \A s \in SUBSET S : f[s] = AddUp(v, f, s)
Total(v, S) == CHOOSE n : \E f \in [SUBSET S -> Nat] : Solves(f, v, S) /\ n = f[S]

Counted(v, S) == IsFiniteSet(S) /\ \A x \in S : v[x] \in Nat

\* A set of finite sets has one with the fewest elements.
LEMMA FewestElements ==
  ASSUME NEW S, IsFiniteSet(S), NEW U \in SUBSET SUBSET S, U # {}
  PROVE  \E s \in U : \A t \in U : Cardinality(s) <= Cardinality(t)
<1> DEFINE T == {n \in Nat : \E s \in U : Cardinality(s) = n}
<1>1. \A s \in U : Cardinality(s) \in Nat
  BY FS_Subset, FS_CardinalityType
<1>2. T \subseteq Nat /\ T # {}
  BY <1>1
<1>3. PICK n \in T : \A m \in T : n <= m
  <2> HIDE DEF T
  <2> QED
    BY <1>2, LeastOfNaturals
<1> QED
  BY <1>1, <1>3

LEMMA PickedIn ==
  ASSUME NEW s, s # {}
  PROVE  Pick(s) \in s
BY DEF Pick

LEMMA OneLess ==
  ASSUME NEW S, IsFiniteSet(S), NEW s \in SUBSET S, NEW x \in s
  PROVE  /\ s \ {x} \in SUBSET S /\ Cardinality(s) \in Nat \ {0}
         /\ Cardinality(s \ {x}) = Cardinality(s) - 1
<1>1. IsFiniteSet(s)
  BY FS_Subset
<1>2. Cardinality(s) \in Nat /\ Cardinality(s) # 0
  BY <1>1, FS_CardinalityType, FS_EmptySet
<1> QED
  BY <1>1, <1>2, FS_RemoveElement

\* The recursion has a solution.
LEMMA TotalsExist ==
  ASSUME NEW v, NEW S, Counted(v, S)
  PROVE  \E f \in [SUBSET S -> Nat] : Solves(f, v, S)
<1> DEFINE Upto(f, n) == \A s \in SUBSET S : Cardinality(s) <= n => f[s] = AddUp(v, f, s)
           T == {n \in Nat : ~ \E f \in [SUBSET S -> Nat] : Upto(f, n)}
<1>1. IsFiniteSet(S) /\ \A s \in SUBSET S : Cardinality(s) \in Nat
  BY FS_Subset, FS_CardinalityType DEF Counted
<1>2. ASSUME NEW f \in [SUBSET S -> Nat], NEW s \in SUBSET S
      PROVE  AddUp(v, f, s) \in Nat
  <2>1. CASE s = {}
    BY <2>1 DEF AddUp
  <2>2. CASE s # {}
    <3>1. Pick(s) \in S /\ v[Pick(s)] \in Nat /\ f[s \ {Pick(s)}] \in Nat
      BY <2>2, PickedIn DEF Counted
    <3> QED
      BY <2>2, <3>1 DEF AddUp
  <2> QED
    BY <2>1, <2>2
<1>3. T = {}
  <2> SUFFICES ASSUME T # {} PROVE FALSE
    OBVIOUS
  <2>1. PICK n \in T : \A m \in T : n <= m
    <3>1. T \subseteq Nat
      OBVIOUS
    <3> HIDE DEF T
    <3> QED
      BY <3>1, LeastOfNaturals
  <2>2. CASE n = 0
    <3> DEFINE z == [s \in SUBSET S |-> 0]
    <3>1. Upto(z, 0)
      <4> SUFFICES ASSUME NEW s \in SUBSET S, Cardinality(s) <= 0
                   PROVE  z[s] = AddUp(v, z, s)
        OBVIOUS
      <4>1. IsFiniteSet(s) /\ Cardinality(s) = 0
        BY <1>1, FS_Subset
      <4>2. s = {}
        BY <4>1, FS_EmptySet
      <4> QED
        BY <4>2 DEF AddUp
    <3> QED
      BY <2>1, <2>2, <3>1
  <2>3. CASE n # 0
    <3>1. n - 1 \in Nat /\ n - 1 \notin T
      <4>1. n \in Nat
        BY <2>1
      <4> HIDE DEF T
      <4> QED
        BY <2>1, <2>3, <4>1
    <3>2. PICK f \in [SUBSET S -> Nat] : Upto(f, n - 1)
      BY <3>1
    <3> DEFINE g == [s \in SUBSET S |-> IF Cardinality(s) <= n - 1 THEN f[s] ELSE AddUp(v, f, s)]
    <3>3. g \in [SUBSET S -> Nat]
      BY <1>2
    <3>4. ASSUME NEW s \in SUBSET S, Cardinality(s) <= n
          PROVE  g[s] = AddUp(v, f, s) /\ AddUp(v, f, s) = AddUp(v, g, s)
      <4>1. g[s] = AddUp(v, f, s)
        BY <3>2
      <4>2. CASE s = {}
        <5> HIDE DEF g
        <5> QED
          BY <4>1, <4>2 DEF AddUp
      <4>3. CASE s # {}
        <5>1. s \ {Pick(s)} \in SUBSET S /\ Cardinality(s \ {Pick(s)}) <= n - 1
          BY <1>1, <3>1, <3>4, <4>3, PickedIn, OneLess
        <5>2. g[s \ {Pick(s)}] = f[s \ {Pick(s)}]
          BY <5>1
        <5> HIDE DEF g
        <5>3. AddUp(v, f, s) = AddUp(v, g, s)
          BY <5>2 DEF AddUp
        <5> QED
          BY <4>1, <5>3
      <4> HIDE DEF g
      <4> QED
        BY <4>1, <4>2, <4>3
    <3> HIDE DEF g
    <3>5. Upto(g, n)
      BY <3>4
    <3> QED
      BY <2>1, <3>3, <3>5
  <2> QED
    BY <2>2, <2>3
<1>4. PICK f \in [SUBSET S -> Nat] : Upto(f, Cardinality(S))
  BY <1>1, <1>3
<1>5. \A s \in SUBSET S : f[s] = AddUp(v, f, s)
  BY <1>1, <1>4, FS_Subset
<1> QED
  BY <1>5 DEF Solves

\* Two solutions agree on a set whose values are the same.
LEMMA SolutionsAgree ==
  ASSUME NEW f, NEW g, NEW v, NEW w, NEW S, NEW T, IsFiniteSet(S),
         Solves(f, v, S), Solves(g, w, T), NEW s \in SUBSET S, s \subseteq T,
         \A x \in s : v[x] = w[x]
  PROVE  f[s] = g[s]
<1> DEFINE U == {u \in SUBSET s : f[u] # g[u]}
<1>1. SUFFICES ASSUME U # {} PROVE FALSE
  OBVIOUS
<1>2. IsFiniteSet(s)
  BY FS_Subset
<1>3. PICK u \in U : \A z \in U : Cardinality(u) <= Cardinality(z)
  <2>1. U \in SUBSET SUBSET s
    OBVIOUS
  <2> HIDE DEF U
  <2> QED
    BY <1>1, <1>2, <2>1, FewestElements
<1>4. u \in SUBSET s /\ u \in SUBSET S /\ u \in SUBSET T /\ f[u] # g[u]
  OBVIOUS
<1>5. f[u] = AddUp(v, f, u) /\ g[u] = AddUp(w, g, u)
  BY <1>4 DEF Solves
<1>6. u # {}
  BY <1>4, <1>5 DEF AddUp
<1>7. Pick(u) \in u
  BY <1>6, PickedIn
<1>8. /\ u \ {Pick(u)} \in SUBSET s /\ Cardinality(u) \in Nat \ {0}
      /\ Cardinality(u \ {Pick(u)}) = Cardinality(u) - 1
  BY <1>2, <1>4, <1>7, OneLess
<1>9. u \ {Pick(u)} \notin U
  <2> HIDE DEF U
  <2> QED
    BY <1>3, <1>8
<1>10. f[u \ {Pick(u)}] = g[u \ {Pick(u)}]
  BY <1>8, <1>9
<1>11. v[Pick(u)] = w[Pick(u)]
  BY <1>4, <1>7
<1> QED
  BY <1>4, <1>5, <1>6, <1>10, <1>11 DEF AddUp

\* Whatever solves the recursion has the total.
LEMMA TotalIs ==
  ASSUME NEW v, NEW S, Counted(v, S), NEW g, Solves(g, v, S)
  PROVE  Total(v, S) = g[S]
<1>1. PICK f \in [SUBSET S -> Nat] : Solves(f, v, S)
  BY TotalsExist
<1>2. PICK n : n = Total(v, S)
  OBVIOUS
<1>3. \E h \in [SUBSET S -> Nat] : Solves(h, v, S) /\ n = h[S]
  BY <1>1, <1>2 DEF Total
<1>4. PICK h \in [SUBSET S -> Nat] : Solves(h, v, S) /\ n = h[S]
  BY <1>3
<1>5. h[S] = g[S]
  <2>1. IsFiniteSet(S) /\ S \in SUBSET S
    BY DEF Counted
  <2> QED
    BY <1>4, <2>1, SolutionsAgree
<1> QED
  BY <1>2, <1>4, <1>5

LEMMA TotalType ==
  ASSUME NEW v, NEW S, Counted(v, S)
  PROVE  Total(v, S) \in Nat
<1>1. PICK f \in [SUBSET S -> Nat] : Solves(f, v, S)
  BY TotalsExist
<1>2. Total(v, S) = f[S]
  BY <1>1, TotalIs
<1> QED
  BY <1>1, <1>2

LEMMA TotalOfNone ==
  ASSUME NEW v
  PROVE  Total(v, {}) = 0
<1>1. Counted(v, {})
  BY FS_EmptySet DEF Counted
<1>2. PICK f \in [SUBSET {} -> Nat] : Solves(f, v, {})
  BY <1>1, TotalsExist
<1>3. f[{}] = 0
  BY <1>2 DEF Solves, AddUp
<1> QED
  BY <1>1, <1>2, <1>3, TotalIs

LEMMA TotalSame ==
  ASSUME NEW v, NEW w, NEW S, Counted(v, S), \A x \in S : v[x] = w[x]
  PROVE  Total(v, S) = Total(w, S)
<1>1. Counted(w, S) /\ S \in SUBSET S /\ IsFiniteSet(S)
  BY DEF Counted
<1>2. PICK f \in [SUBSET S -> Nat] : Solves(f, v, S)
  BY TotalsExist
<1>3. PICK g \in [SUBSET S -> Nat] : Solves(g, w, S)
  BY <1>1, TotalsExist
<1>4. f[S] = g[S]
  BY <1>1, <1>2, <1>3, SolutionsAgree
<1> QED
  BY <1>1, <1>2, <1>3, <1>4, TotalIs

\* The order in which the elements are taken does not matter.
Additive(f, v, S) == \A s \in SUBSET S : \A x \in s : f[s] = v[x] + f[s \ {x}]

LEMMA AnyOrder ==
  ASSUME NEW v, NEW S, Counted(v, S), NEW f, f \in [SUBSET S -> Nat], Solves(f, v, S)
  PROVE  Additive(f, v, S)
<1> DEFINE U == {u \in SUBSET S : \E x \in u : f[u] # v[x] + f[u \ {x}]}
<1>1. SUFFICES ASSUME U # {} PROVE FALSE
  BY DEF Additive
<1>2. PICK u \in U : \A z \in U : Cardinality(u) <= Cardinality(z)
  <2>1. U \in SUBSET SUBSET S
    OBVIOUS
  <2> HIDE DEF U
  <2> QED
    BY <1>1, <2>1, FewestElements DEF Counted
<1>3. PICK x \in u : f[u] # v[x] + f[u \ {x}]
  OBVIOUS
<1>4. PICK y : y = Pick(u)
  OBVIOUS
<1>5. y \in u /\ f[u] = v[y] + f[u \ {y}]
  BY <1>4, PickedIn DEF Solves, AddUp
<1>6. x # y
  BY <1>3, <1>5
<1>7. PICK p, q, z : p = u \ {y} /\ q = u \ {x} /\ z = p \ {x}
  OBVIOUS
<1>8. /\ p \in SUBSET S /\ x \in p /\ q \in SUBSET S /\ y \in q
      /\ z \in SUBSET S /\ q \ {y} = z
  BY <1>3, <1>5, <1>6, <1>7
<1>9. /\ Cardinality(u) \in Nat \ {0}
      /\ Cardinality(p) = Cardinality(u) - 1 /\ Cardinality(q) = Cardinality(u) - 1
  BY <1>3, <1>5, <1>7, OneLess DEF Counted
<1>10. p \notin U /\ q \notin U
  <2> HIDE DEF U
  <2> QED
    BY <1>2, <1>9
<1>11. f[p] = v[x] + f[z]
  BY <1>7, <1>8, <1>10
<1>12. f[q] = v[y] + f[z]
  BY <1>8, <1>10
<1>13. v[x] \in Nat /\ v[y] \in Nat /\ f[z] \in Nat
  BY <1>3, <1>5, <1>8 DEF Counted
<1>14. f[u] = v[x] + f[q]
  <2> HIDE DEF U
  <2> QED
    BY <1>5, <1>7, <1>11, <1>12, <1>13
<1> QED
  BY <1>3, <1>7, <1>14

LEMMA TotalWithout ==
  ASSUME NEW v, NEW S, Counted(v, S), NEW x \in S
  PROVE  Total(v, S) = v[x] + Total(v, S \ {x})
<1>1. Counted(v, S \ {x}) /\ IsFiniteSet(S) /\ S \in SUBSET S /\ S \ {x} \in SUBSET S
  BY FS_RemoveElement DEF Counted
<1>2. PICK f \in [SUBSET S -> Nat] : Solves(f, v, S)
  BY TotalsExist
<1>3. Solves(f, v, S \ {x})
  BY <1>2 DEF Solves
<1>4. f[S] = v[x] + f[S \ {x}]
  <2>1. Additive(f, v, S)
    BY <1>2, AnyOrder
  <2> QED
    BY <1>1, <2>1 DEF Additive
<1>5. Total(v, S) = f[S]
  BY <1>2, TotalIs
<1>6. Total(v, S \ {x}) = f[S \ {x}]
  BY <1>1, <1>3, TotalIs
<1> QED
  BY <1>4, <1>5, <1>6

LEMMA TotalWith ==
  ASSUME NEW v, NEW w, NEW S, Counted(v, S), NEW x, x \notin S, w[x] \in Nat,
         \A y \in S : w[y] = v[y]
  PROVE  Total(w, S \cup {x}) = Total(v, S) + w[x]
<1>1. Counted(w, S \cup {x})
  BY FS_AddElement DEF Counted
<1>2. (S \cup {x}) \ {x} = S /\ x \in S \cup {x}
  OBVIOUS
<1>3. PICK R : R = S \cup {x}
  OBVIOUS
<1>4. Total(w, R) = w[x] + Total(w, R \ {x})
  BY <1>1, <1>2, <1>3, TotalWithout
<1>5. Total(v, S) \in Nat /\ Total(v, S) = Total(w, S)
  BY TotalSame, TotalType
<1>6. R \ {x} = S
  BY <1>2, <1>3
<1>7. Total(w, R) = w[x] + Total(v, S)
  BY <1>4, <1>5, <1>6
<1> QED
  BY <1>3, <1>5, <1>7

\* Sums add up, element by element.
LEMMA TotalAdds ==
  ASSUME NEW u, NEW v, NEW w, NEW S, Counted(v, S), Counted(w, S),
         \A x \in S : u[x] = v[x] + w[x]
  PROVE  Total(u, S) = Total(v, S) + Total(w, S)
<1>1. PICK f \in [SUBSET S -> Nat] : Solves(f, v, S)
  BY TotalsExist
<1>2. PICK g \in [SUBSET S -> Nat] : Solves(g, w, S)
  BY TotalsExist
<1> DEFINE h == [s \in SUBSET S |-> f[s] + g[s]]
<1>3. Counted(u, S)
  BY DEF Counted
<1>4. ASSUME NEW s \in SUBSET S PROVE h[s] = AddUp(u, h, s)
  <2>1. CASE s = {}
    <3>1. f[s] = 0 /\ g[s] = 0
      BY <1>1, <1>2, <2>1 DEF Solves, AddUp
    <3> QED
      BY <2>1, <3>1 DEF AddUp
  <2>2. CASE s # {}
    <3>1. PICK x : x = Pick(s)
      OBVIOUS
    <3>2. x \in s /\ s \ {x} \in SUBSET S
      BY <2>2, <3>1, PickedIn
    <3>3. f[s] = v[x] + f[s \ {x}] /\ g[s] = w[x] + g[s \ {x}]
      BY <1>1, <1>2, <2>2, <3>1 DEF Solves, AddUp
    <3>4. v[x] \in Nat /\ w[x] \in Nat /\ f[s \ {x}] \in Nat /\ g[s \ {x}] \in Nat
      BY <3>2 DEF Counted
    <3>5. h[s] = u[x] + h[s \ {x}]
      BY <3>2, <3>3, <3>4
    <3> QED
      BY <2>2, <3>1, <3>5 DEF AddUp
  <2> QED
    BY <2>1, <2>2
<1>5. Solves(h, u, S)
  BY <1>4 DEF Solves
<1>6. Total(u, S) = h[S]
  <2> HIDE DEF h
  <2> QED
    BY <1>3, <1>5, TotalIs
<1>7. Total(v, S) = f[S] /\ Total(w, S) = g[S]
  BY <1>1, <1>2, TotalIs
<1> QED
  BY <1>6, <1>7

\* Elements that are worth nothing may be left out.
LEMMA TotalOfMost ==
  ASSUME NEW v, NEW S, Counted(v, S), NEW T \in SUBSET S, \A x \in S \ T : v[x] = 0
  PROVE  Total(v, S) = Total(v, T)
<1> DEFINE U == {u \in SUBSET S : T \subseteq u /\ Total(v, u) # Total(v, T)}
<1>1. SUFFICES ASSUME U # {} PROVE FALSE
  <2>1. S \notin U => Total(v, S) = Total(v, T)
    OBVIOUS
  <2> QED
    BY <2>1
<1>2. PICK u \in U : \A z \in U : Cardinality(u) <= Cardinality(z)
  <2>1. U \in SUBSET SUBSET S
    OBVIOUS
  <2> HIDE DEF U
  <2> QED
    BY <1>1, <2>1, FewestElements DEF Counted
<1>3. PICK x : x \in u \ T
  <2>1. T \subseteq u /\ T # u
    OBVIOUS
  <2> QED
    BY <2>1
<1>4. PICK z : z = u \ {x}
  OBVIOUS
<1>5. Counted(v, u) /\ u \in SUBSET S
  <2>1. u \in SUBSET S /\ IsFiniteSet(S)
    BY DEF Counted
  <2> QED
    BY <2>1, FS_Subset DEF Counted
<1>6. Total(v, u) = v[x] + Total(v, z)
  BY <1>3, <1>4, <1>5, TotalWithout
<1>7. v[x] = 0 /\ Total(v, z) \in Nat
  <2>1. Counted(v, z)
    BY <1>4, <1>5, FS_RemoveElement DEF Counted
  <2> QED
    BY <1>3, <1>5, <2>1, TotalType
<1>8. z \notin U
  <2>1. Cardinality(u) \in Nat /\ Cardinality(z) = Cardinality(u) - 1
    BY <1>3, <1>4, <1>5, OneLess DEF Counted
  <2> HIDE DEF U
  <2> QED
    BY <1>2, <2>1
<1> QED
  BY <1>3, <1>4, <1>5, <1>6, <1>7, <1>8

-----------------------------------------------------------------------------
(***************************************************************************)
(* Startup.  Whatever the number of processes, images and statements: who  *)
(* serves has the whole schema of its image, and no version is half in     *)
(* effect.                                                                 *)
(***************************************************************************)

ProcessRow ==
  [at : {"down", "read", "batch", "migrated", "failed", "serving"}, image : Images \cup {0},
   done : SUBSET Boot!Versions, version : Boot!Versions \cup {0}, ran : 0..Statements]

Tables ==
  /\ recorded \subseteq Boot!Versions /\ applied \in [Boot!Versions -> 0..Statements]
  /\ process \in [Processes -> ProcessRow]

(* What a start still has to carry out comes after what is recorded; what it   *)
(* has left behind is recorded.                                              *)
InOrder(r, done) ==
  /\ r.at \in {"read", "batch", "migrated", "serving"} => r.image \in Images
  /\ r.at = "batch" => /\ r.version \in 1..r.image /\ 1..(r.version - 1) \subseteq done
                       /\ r.done \subseteq done
  /\ r.at \in {"migrated", "serving"} => 1..r.image \subseteq done

SchemaInv == Tables /\ Boot!SchemaIsWhole /\ \A p \in Processes : InOrder(process[p], recorded)

-----------------------------------------------------------------------------
LEMMA NewestIsLargest ==
  ASSUME ImagesAreCounted
  PROVE  Boot!Newest \in Nat /\ \A n \in Images : 1..n \subseteq Boot!Versions
<1>1. Boot!Newest \in Images /\ \A m \in Images : m <= Boot!Newest
  BY DEF ImagesAreCounted, Boot!Newest
<1> QED
  BY <1>1 DEF ImagesAreCounted, Boot!Versions

(* A start goes on at the first version that is not recorded, or has them all. *)
LEMMA OnwardInOrder ==
  ASSUME ImagesAreCounted, NEW r \in ProcessRow, r.image \in Images,
         NEW after \in Nat, NEW done \in SUBSET Boot!Versions, r.done \subseteq done, 1..after \subseteq done
  PROVE  /\ Boot!Onward(r, after) \in ProcessRow /\ InOrder(Boot!Onward(r, after), done)
         /\ Boot!Onward(r, after).at \in {"batch", "migrated"}
<1> DEFINE left == {v \in 1..r.image : v > after /\ v \notin r.done}
           least == CHOOSE v \in left : \A w \in left : v <= w
           q == Boot!Onward(r, after)
<1>1. r.image \in Nat /\ 1..r.image \subseteq Boot!Versions
  BY NewestIsLargest DEF ImagesAreCounted
<1>2. CASE left = {}
  <2>1. q = [r EXCEPT !.at = "migrated"]
    BY <1>2 DEF Boot!Onward
  <2>2. \A v \in 1..r.image : v \in done
    BY <1>1, <1>2
  <2> QED
    BY <2>1, <2>2 DEF ProcessRow, InOrder
<1>3. CASE left # {}
  <2>1. left \subseteq Nat
    BY <1>1
  <2>2. least \in left /\ \A w \in left : least <= w
    <3>1. \E x \in left : \A w \in left : x <= w
      BY <1>3, <2>1, LeastOfNaturals
    <3> HIDE DEF left
    <3> QED
      BY <3>1
  <2>3. q = [r EXCEPT !.at = "batch", !.version = least, !.ran = 0]
    BY <1>3 DEF Boot!Onward
  <2>4. least \in 1..r.image /\ least \in Boot!Versions
    BY <1>1, <2>2
  <2>5. \A v \in 1..(least - 1) : v \in done
    BY <1>1, <2>2, <2>4
  <2> HIDE DEF least, left
  <2>6. q.at = "batch" /\ q.version = least /\ q.image = r.image /\ q.done = r.done
    BY <2>3 DEF ProcessRow
  <2>7. q \in ProcessRow
    <3>1. 0 \in 0..Statements
      BY DEF ImagesAreCounted
    <3>2. [r EXCEPT !.at = "batch"] \in ProcessRow
      BY DEF ProcessRow
    <3>3. [r EXCEPT !.at = "batch", !.version = least] \in ProcessRow
      BY <2>4, <3>2 DEF ProcessRow
    <3> QED
      BY <2>3, <3>1, <3>3 DEF ProcessRow
  <2> HIDE DEF q
  <2>8. InOrder(q, done)
    BY <2>4, <2>5, <2>6 DEF InOrder
  <2> QED
    BY <2>6, <2>7, <2>8 DEF q
<1> QED
  BY <1>2, <1>3

(* More that is recorded does no start any harm. *)
LEMMA InOrderGrows ==
  ASSUME NEW r, NEW done, NEW more, done \subseteq more, InOrder(r, done)
  PROVE  InOrder(r, more)
BY DEF InOrder

-----------------------------------------------------------------------------
LEMMA InitSchema == ImagesAreCounted => (Boot!Init => SchemaInv)
<1> SUFFICES ASSUME ImagesAreCounted, Boot!Init PROVE SchemaInv
  OBVIOUS
<1>1. Boot!Down \in ProcessRow /\ InOrder(Boot!Down, {})
  BY DEF Boot!Down, ProcessRow, InOrder, ImagesAreCounted
<1>2. process \in [Processes -> ProcessRow] /\ \A p \in Processes : InOrder(process[p], recorded)
  BY <1>1 DEF Boot!Init
<1>3. recorded \subseteq Boot!Versions /\ applied \in [Boot!Versions -> 0..Statements] /\ Boot!SchemaIsWhole
  BY DEF Boot!Init, Boot!SchemaIsWhole, ImagesAreCounted
<1> QED
  BY <1>2, <1>3 DEF SchemaInv, Tables

(* A step that records nothing and brings nothing into effect has only to keep *)
(* the process that takes it in order.                                         *)
LEMMA QuietSchema ==
  ASSUME SchemaInv, NEW p \in Processes, NEW row \in ProcessRow, InOrder(row, recorded),
         Boot!Step(p, row), UNCHANGED <<recorded, applied>>
  PROVE  SchemaInv'
<1>1. process' \in [Processes -> ProcessRow]
  BY DEF SchemaInv, Tables, Boot!Step
<1>2. \A q \in Processes : process'[q] = IF q = p THEN row ELSE process[q]
  BY DEF SchemaInv, Tables, Boot!Step
<1>3. \A q \in Processes : InOrder(process'[q], recorded')
  BY <1>2 DEF SchemaInv
<1>4. Boot!SchemaIsWhole'
  BY DEF SchemaInv, Boot!SchemaIsWhole
<1> QED
  BY <1>1, <1>3, <1>4 DEF SchemaInv, Tables

LEMMA CommitSchema ==
  ASSUME ImagesAreCounted, SchemaInv, NEW p \in Processes, Boot!Commit(p)
  PROVE  SchemaInv'
<1> DEFINE r == process[p]
           v == r.version
<1>1. r \in ProcessRow /\ r.at = "batch" /\ InOrder(r, recorded) /\ r.image \in Images
  BY DEF SchemaInv, Tables, Boot!Commit, InOrder
<1>2. v \in 1..r.image /\ v \in Boot!Versions /\ v \in Nat /\ 1..(v - 1) \subseteq recorded
  <2>1. r.image \in Nat /\ 1..r.image \subseteq Boot!Versions
    BY <1>1, NewestIsLargest DEF ImagesAreCounted
  <2>2. v \in 1..r.image /\ 1..(v - 1) \subseteq recorded
    BY <1>1 DEF InOrder
  <2> QED
    BY <2>1, <2>2
<1>3. recorded' = recorded \cup {v} /\ applied' = [applied EXCEPT ![v] = Statements]
  BY DEF Boot!Commit
<1>4. recorded' \subseteq Boot!Versions /\ 1..v \subseteq recorded' /\ r.done \subseteq recorded'
  BY <1>1, <1>2, <1>3 DEF SchemaInv, Tables, InOrder
<1>5. Boot!Onward(r, v) \in ProcessRow /\ InOrder(Boot!Onward(r, v), recorded')
  <2> HIDE DEF r, v
  <2> QED
    BY <1>1, <1>2, <1>4, OnwardInOrder
<1>6. process' = [process EXCEPT ![p] = Boot!Onward(r, v)]
  BY DEF Boot!Commit, Boot!Step
<1> HIDE DEF r, v
<1>7. process' \in [Processes -> ProcessRow] /\ \A q \in Processes : InOrder(process'[q], recorded')
  BY <1>3, <1>5, <1>6, InOrderGrows DEF SchemaInv, Tables
<1>8. applied' \in [Boot!Versions -> 0..Statements]
  BY <1>2, <1>3 DEF SchemaInv, Tables, ImagesAreCounted
<1>9. ASSUME NEW w \in Boot!Versions
      PROVE  /\ w \in recorded' => 1..w \subseteq recorded'
             /\ applied'[w] = IF w \in recorded' THEN Statements ELSE 0
  BY <1>2, <1>3, <1>4 DEF SchemaInv, Tables, Boot!SchemaIsWhole
<1>10. Boot!SchemaIsWhole'
  BY <1>9 DEF Boot!SchemaIsWhole, Boot!Versions, Boot!Newest
<1> QED
  BY <1>4, <1>7, <1>8, <1>10 DEF SchemaInv, Tables

LEMMA FailSchema ==
  ASSUME ImagesAreCounted, SchemaInv, NEW p \in Processes, Boot!Fail(p)
  PROVE  SchemaInv'
<1> DEFINE r == process[p]
           row == [r EXCEPT !.at = "failed"]
<1>1. r \in ProcessRow /\ InOrder(r, recorded)
  BY DEF SchemaInv, Tables
<1>2. row \in ProcessRow /\ InOrder(row, recorded)
  BY <1>1 DEF ProcessRow, InOrder
<1>3. applied' = applied
  <2>1. CASE r.at = "batch" /\ applied[r.version] < Statements
    <3>1. r.version \in Boot!Versions
      BY <1>1, <2>1, NewestIsLargest DEF InOrder
    <3>2. applied[r.version] = 0
      BY <2>1, <3>1 DEF SchemaInv, Boot!SchemaIsWhole, Tables, ImagesAreCounted
    <3>3. applied' = [applied EXCEPT ![r.version] = 0]
      BY <2>1 DEF Boot!Fail, Boot!Left
    <3> QED
      BY <3>1, <3>2, <3>3 DEF SchemaInv, Tables
  <2>2. CASE ~ (r.at = "batch" /\ applied[r.version] < Statements)
    BY <2>2 DEF Boot!Fail
  <2> QED
    BY <2>1, <2>2
<1>4. Boot!Step(p, row) /\ recorded' = recorded
  BY DEF Boot!Fail
<1> HIDE DEF row
<1> QED
  BY <1>2, <1>3, <1>4, QuietSchema

LEMMA NextSchema == ImagesAreCounted => (SchemaInv /\ [Boot!Next]_(Boot!vars) => SchemaInv')
<1> SUFFICES ASSUME ImagesAreCounted, SchemaInv, [Boot!Next]_(Boot!vars) PROVE SchemaInv'
  OBVIOUS
<1>1. CASE UNCHANGED Boot!vars
  BY <1>1 DEF Boot!vars, SchemaInv, Tables, Boot!SchemaIsWhole
<1>2. ASSUME NEW p \in Processes, Boot!Start(p) PROVE SchemaInv'
  <2>1. PICK n \in Images : Boot!Step(p, [Boot!Down EXCEPT !.at = "read", !.image = n])
    BY <1>2 DEF Boot!Start
  <2> DEFINE row == [Boot!Down EXCEPT !.at = "read", !.image = n]
  <2>2. row \in ProcessRow /\ InOrder(row, recorded)
    <3>1. Boot!Down \in ProcessRow
      BY DEF Boot!Down, ProcessRow, ImagesAreCounted
    <3>2. row \in ProcessRow
      BY <3>1 DEF ProcessRow
    <3>3. row.at = "read" /\ row.image = n
      BY <3>1 DEF ProcessRow
    <3> HIDE DEF row
    <3> QED
      BY <3>2, <3>3 DEF InOrder
  <2>3. UNCHANGED <<recorded, applied>>
    BY <1>2 DEF Boot!Start
  <2> HIDE DEF row
  <2> QED
    BY <2>1, <2>2, <2>3, QuietSchema DEF row
<1>3. ASSUME NEW p \in Processes, Boot!ReadVersions(p) PROVE SchemaInv'
  <2> DEFINE r == [process[p] EXCEPT !.done = recorded]
  <2>1. r \in ProcessRow /\ r.image \in Images /\ r.done = recorded /\ recorded \in SUBSET Boot!Versions
    BY <1>3 DEF Boot!ReadVersions, SchemaInv, Tables, ProcessRow, InOrder
  <2>2. 1..0 \subseteq recorded
    OBVIOUS
  <2>3. Boot!Step(p, Boot!Onward(r, 0)) /\ UNCHANGED <<recorded, applied>>
    BY <1>3 DEF Boot!ReadVersions
  <2> HIDE DEF r
  <2>4. Boot!Onward(r, 0) \in ProcessRow /\ InOrder(Boot!Onward(r, 0), recorded)
    BY <2>1, <2>2, OnwardInOrder
  <2> QED
    BY <2>3, <2>4, QuietSchema
<1>4. ASSUME NEW p \in Processes, Boot!Execute(p) PROVE SchemaInv'
  <2> DEFINE row == [process[p] EXCEPT !.ran = @ + 1]
  <2>1. process[p] \in ProcessRow /\ InOrder(process[p], recorded)
    BY DEF SchemaInv, Tables
  <2>2. row \in ProcessRow /\ InOrder(row, recorded)
    BY <1>4, <2>1 DEF Boot!Execute, ProcessRow, InOrder, ImagesAreCounted
  <2>3. Boot!Step(p, row) /\ UNCHANGED <<recorded, applied>>
    BY <1>4 DEF Boot!Execute
  <2> HIDE DEF row
  <2> QED
    BY <2>2, <2>3, QuietSchema
<1>5. ASSUME NEW p \in Processes, Boot!Serve(p) PROVE SchemaInv'
  <2> DEFINE row == [process[p] EXCEPT !.at = "serving"]
  <2>1. process[p] \in ProcessRow /\ InOrder(process[p], recorded)
    BY DEF SchemaInv, Tables
  <2>2. row \in ProcessRow /\ InOrder(row, recorded)
    BY <1>5, <2>1 DEF Boot!Serve, Boot!Serves, ProcessRow, InOrder
  <2>3. Boot!Step(p, row) /\ UNCHANGED <<recorded, applied>>
    BY <1>5 DEF Boot!Serve
  <2> HIDE DEF row
  <2> QED
    BY <2>2, <2>3, QuietSchema
<1>6. ASSUME NEW p \in Processes, Boot!Exit(p) PROVE SchemaInv'
  <2>1. Boot!Down \in ProcessRow /\ InOrder(Boot!Down, recorded)
    BY DEF Boot!Down, ProcessRow, InOrder, ImagesAreCounted
  <2>2. Boot!Step(p, Boot!Down) /\ UNCHANGED <<recorded, applied>>
    BY <1>6 DEF Boot!Exit
  <2> QED
    BY <2>1, <2>2, QuietSchema
<1> QED
  BY <1>1, <1>2, <1>3, <1>4, <1>5, <1>6, CommitSchema, FailSchema DEF Boot!Next

-----------------------------------------------------------------------------
(* A version is in effect with all of its statements and after all versions    *)
(* before it, or not at all: of any number of starts that race, fail and die.  *)
THEOREM SchemaIsWholeHolds ==
  ASSUME ImagesAreCounted
  PROVE  Boot!Spec => []Boot!SchemaIsWhole
<1>1. SchemaInv => Boot!SchemaIsWhole
  BY DEF SchemaInv
<1> QED
  BY <1>1, InitSchema, NextSchema, PTL DEF Boot!Spec

(* A process serves with all the migrations of its image in effect, however    *)
(* many start, on however many images.                                         *)
THEOREM ServedSchemaIsCompleteHolds ==
  ASSUME ImagesAreCounted
  PROVE  Boot!Spec => []Boot!ServedSchemaIsComplete
<1>1. SchemaInv => Boot!ServedSchemaIsComplete
  BY DEF SchemaInv, InOrder, Boot!ServedSchemaIsComplete
<1> QED
  BY <1>1, InitSchema, NextSchema, PTL DEF Boot!Spec

-----------------------------------------------------------------------------
(***************************************************************************)
(* Payouts.  The index on the commission and the statuses the statements   *)
(* ask for are enough: whatever batches, marks and syncs overlap, one      *)
(* batch pays a commission, after the dispute window, and what it paid     *)
(* stays.                                                                  *)
(***************************************************************************)

ItemColumns == {"batch", "referral", "payee", "gross", "tax", "amount", "paid", "reference"}

PayoutTables ==
  /\ orders \in [Referrals -> Payout!OrderStates]
  /\ DOMAIN referrals \subseteq Referrals
  /\ \A r \in DOMAIN referrals : referrals[r] \in Payout!ReferralRow
  /\ \A i \in items : i = [column \in ItemColumns |-> i[column]]

\* What is paid has left with a batch.
PaidHasLeft ==
  \A r \in DOMAIN referrals : referrals[r].status = "paid" =>
    \E i \in items : i.referral = r /\ i.paid

PayoutInv == PayoutTables /\ Payout!BatchedOnce /\ Payout!EarnedAfterDispute /\ PaidHasLeft

\* A statement on the referrals.
LEMMA StatusesSet ==
  ASSUME PayoutTables, NEW rows, NEW s \in {"pending", "earned", "paid", "void"},
         Payout!SetStatus(rows, s)
  PROVE  /\ DOMAIN referrals' = DOMAIN referrals
         /\ \A r \in DOMAIN referrals :
              /\ referrals'[r] \in Payout!ReferralRow
              /\ r \in rows => referrals'[r].status = s
              /\ r \notin rows => referrals'[r] = referrals[r]
BY DEF PayoutTables, Payout!SetStatus, Payout!ReferralRow

\* The columns of the line of a commission follow from the commission.
LEMMA NewLines ==
  ASSUME NEW c, NEW rows, NEW i \in Payout!NewItems(c, rows)
  PROVE  /\ i.referral \in rows /\ i = [column \in ItemColumns |-> i[column]]
         /\ \A j \in Payout!NewItems(c, rows) : i.referral = j.referral => i = j
<1> DEFINE Own(p) == {r \in rows : referrals[r].payee = p}
           first(p) == CHOOSE r \in Own(p) : TRUE
           Line(r, p) ==
             [batch |-> c, referral |-> r, payee |-> p, gross |-> referrals[r].amount,
              tax |-> IF r = first(p) THEN Payout!taxWithheldFor(Payout!Gross(rows, p)) ELSE 0,
              amount |-> IF r = first(p) THEN Payout!Net(rows, p) ELSE referrals[r].amount,
              paid |-> FALSE, reference |-> None]
<1>1. Payout!NewItems(c, rows) =
        UNION {{Line(r, p) : r \in Own(p)} : p \in {referrals[r].payee : r \in rows}}
  BY DEF Payout!NewItems
<1>2. \A j \in Payout!NewItems(c, rows) :
        \E r \in rows : j = Line(r, referrals[r].payee)
  BY <1>1
<1>3. \A r, p : Line(r, p).referral = r
                /\ Line(r, p) = [column \in ItemColumns |-> Line(r, p)[column]]
  BY DEF ItemColumns
<1> HIDE DEF Line
<1> QED
  BY <1>2, <1>3

\* Paying out a batch fills in two columns of its lines.
Marked(i, b, c) == IF i.batch = b THEN [i EXCEPT !.paid = TRUE, !.reference = c] ELSE i

LEMMA MarkedLines ==
  ASSUME PayoutTables, NEW c, NEW b, NEW i \in items
  PROVE  /\ Marked(i, b, c).referral = i.referral
         /\ i.paid \/ i.batch = b => Marked(i, b, c).paid
         /\ Marked(i, b, c) = [column \in ItemColumns |-> Marked(i, b, c)[column]]
BY DEF PayoutTables, ItemColumns, Marked

\* The steps that leave the lines alone.
LEMMA StatusesStep ==
  ASSUME PayoutInv, NEW rows, NEW s \in {"earned", "void"}, Payout!SetStatus(rows, s),
         \A r \in rows : r \in DOMAIN referrals => referrals[r].status # "paid",
         s = "earned" => \A r \in rows : orders[r] = "quiet",
         UNCHANGED <<orders, items>>
  PROVE  PayoutInv'
<1>1. PayoutTables
  BY DEF PayoutInv
<1>2. DOMAIN referrals' = DOMAIN referrals
      /\ \A r \in DOMAIN referrals :
              /\ referrals'[r] \in Payout!ReferralRow
              /\ r \in rows => referrals'[r].status = s
              /\ r \notin rows => referrals'[r] = referrals[r]
  BY <1>1, StatusesSet
<1>3. PayoutTables'
  BY <1>1, <1>2 DEF PayoutTables
<1>4. Payout!BatchedOnce' /\ Payout!EarnedAfterDispute' /\ PaidHasLeft'
  BY <1>2 DEF PayoutInv, Payout!BatchedOnce, Payout!EarnedAfterDispute, PaidHasLeft
<1> QED
  BY <1>3, <1>4 DEF PayoutInv

LEMMA PayoutStep ==
  ASSUME PayoutInv, [Payout!Next]_(Payout!vars)
  PROVE  PayoutInv' /\ Payout!PaidIsFinal
<1>1. PayoutTables /\ Payout!BatchedOnce /\ Payout!EarnedAfterDispute /\ PaidHasLeft
  BY DEF PayoutInv
<1>2. SUFFICES PayoutInv' /\ \A r \in DOMAIN referrals :
                                referrals[r].status = "paid" => referrals'[r] = referrals[r]
  BY <1>1 DEF PaidHasLeft, Payout!PaidIsFinal
<1>3. CASE UNCHANGED <<orders, referrals, items>>
  BY <1>3 DEF PayoutInv, PayoutTables, Payout!BatchedOnce, Payout!EarnedAfterDispute, PaidHasLeft
<1>4. ASSUME NEW r \in Referrals, Payout!Record(r)
      PROVE  PayoutInv' /\ \A x \in DOMAIN referrals : referrals'[x] = referrals[x]
  <2>1. PICK p \in Recipients, n \in Commissions :
          referrals' = [x \in DOMAIN referrals \cup {r} |->
            IF x = r THEN [status |-> "pending", payee |-> p, amount |-> n] ELSE referrals[x]]
    BY <1>4 DEF Payout!Record
  <2>2. r \notin DOMAIN referrals /\ UNCHANGED <<orders, items>>
    BY <1>4 DEF Payout!Record
  <2>3. /\ DOMAIN referrals' = DOMAIN referrals \cup {r}
        /\ referrals'[r].status = "pending" /\ referrals'[r] \in Payout!ReferralRow
        /\ \A x \in DOMAIN referrals : referrals'[x] = referrals[x]
    BY <2>1, <2>2 DEF Payout!ReferralRow
  <2> QED
    BY <1>1, <2>2, <2>3
       DEF PayoutInv, PayoutTables, Payout!BatchedOnce, Payout!EarnedAfterDispute, PaidHasLeft
<1>5. ASSUME NEW r \in Referrals, Payout!MoveOrder(r)
      PROVE  PayoutInv' /\ UNCHANGED referrals
  <2>1. PICK s \in Payout!OrderStates :
          <<orders[r], s>> \in Payout!OrderMoves /\ orders' = [orders EXCEPT ![r] = s]
    BY <1>5 DEF Payout!MoveOrder
  <2>2. orders[r] \in {"quiet", "refunded"} => s \in {"quiet", "refunded"}
    BY <2>1 DEF Payout!OrderMoves
  <2>3. UNCHANGED <<referrals, items>>
    BY <1>5 DEF Payout!MoveOrder
  <2>4. Payout!EarnedAfterDispute'
    BY <1>1, <2>1, <2>2, <2>3 DEF PayoutTables, Payout!EarnedAfterDispute
  <2> QED
    BY <1>1, <2>1, <2>3, <2>4 DEF PayoutInv, PayoutTables, Payout!BatchedOnce, PaidHasLeft
<1>6. ASSUME NEW c, Payout!SyncVoid(c)
      PROVE  PayoutInv' /\ \A r \in DOMAIN referrals :
                             referrals[r].status = "paid" => referrals'[r] = referrals[r]
  <2>1. PICK rows :
          /\ rows = {r \in DOMAIN referrals : /\ referrals[r].status \in Payout!Voidable
                                              /\ orders[r] \in {"cancelled", "refunded"}}
          /\ Payout!SetStatus(rows, "void") /\ UNCHANGED <<orders, items>>
    BY <1>6 DEF Payout!SyncVoid
  <2>2. \A r \in rows : referrals[r].status # "paid"
    BY <2>1 DEF Payout!Voidable
  <2> QED
    BY <1>1, <2>1, <2>2, StatusesStep, StatusesSet
<1>7. ASSUME NEW c, Payout!SyncEarn(c)
      PROVE  PayoutInv' /\ \A r \in DOMAIN referrals :
                             referrals[r].status = "paid" => referrals'[r] = referrals[r]
  <2>1. PICK rows :
          /\ rows = {r \in DOMAIN referrals : Payout!Earns(r)}
          /\ Payout!SetStatus(rows, "earned") /\ UNCHANGED <<orders, items>>
    BY <1>7 DEF Payout!SyncEarn
  <2>2. \A r \in rows : referrals[r].status # "paid" /\ orders[r] = "quiet"
    BY <2>1 DEF Payout!Earns
  <2> QED
    BY <1>1, <2>1, <2>2, StatusesStep, StatusesSet
<1>8. ASSUME NEW c, Payout!CreateBatch(c) PROVE PayoutInv' /\ UNCHANGED referrals
  <2>1. PICK rows : rows = request[c].rows
    OBVIOUS
  <2>2. UNCHANGED <<orders, referrals>>
    BY <1>8 DEF Payout!CreateBatch
  <2>3. CASE ~ Payout!ItemsFit(rows)
    BY <1>3, <1>8, <2>1, <2>2, <2>3 DEF Payout!CreateBatch
  <2>4. CASE Payout!ItemsFit(rows)
    <3>1. items' = items \cup Payout!NewItems(c, rows)
      BY <1>8, <2>1, <2>4 DEF Payout!CreateBatch
    <3>2. \A i \in Payout!NewItems(c, rows) :
            /\ i.referral \in rows /\ i = [column \in ItemColumns |-> i[column]]
            /\ \A j \in Payout!NewItems(c, rows) : i.referral = j.referral => i = j
      BY NewLines
    <3>3. \A i \in items : i.referral \notin rows
      BY <2>4 DEF Payout!ItemsFit
    <3>4. Payout!BatchedOnce' /\ PayoutTables' /\ PaidHasLeft'
      BY <1>1, <2>2, <3>1, <3>2, <3>3 DEF PayoutTables, Payout!BatchedOnce, PaidHasLeft
    <3> QED
      BY <1>1, <2>2, <3>4 DEF PayoutInv, Payout!EarnedAfterDispute
  <2> QED
    BY <2>2, <2>3, <2>4
<1>9. ASSUME NEW c, Payout!MarkBatch(c)
      PROVE  PayoutInv' /\ \A r \in DOMAIN referrals :
                             referrals[r].status = "paid" => referrals'[r] = referrals[r]
  <2>1. PICK b, rows :
          /\ items' = {Marked(i, b, c) : i \in items}
          /\ rows = {r \in DOMAIN referrals : /\ referrals[r].status = "earned"
                                              /\ \E i \in items : i.batch = b /\ i.referral = r}
          /\ Payout!SetStatus(rows, "paid") /\ UNCHANGED orders
    BY <1>9 DEF Payout!MarkBatch, Payout!ItemsOf, Marked
  <2>2. /\ DOMAIN referrals' = DOMAIN referrals
        /\ \A r \in DOMAIN referrals :
             /\ referrals'[r] \in Payout!ReferralRow
             /\ r \in rows => referrals'[r].status = "paid"
             /\ r \notin rows => referrals'[r] = referrals[r]
    BY <1>1, <2>1, StatusesSet
  <2>3. \A i \in items : /\ Marked(i, b, c).referral = i.referral
                         /\ i.paid \/ i.batch = b => Marked(i, b, c).paid
                         /\ Marked(i, b, c) = [column \in ItemColumns |-> Marked(i, b, c)[column]]
    BY <1>1, MarkedLines
  <2>4. PayoutTables'
    BY <1>1, <2>1, <2>2, <2>3 DEF PayoutTables
  <2>5. Payout!BatchedOnce'
    BY <1>1, <2>1, <2>3 DEF Payout!BatchedOnce
  <2>6. Payout!EarnedAfterDispute'
    BY <1>1, <2>1, <2>2 DEF Payout!EarnedAfterDispute
  <2>7. PaidHasLeft'
    <3> SUFFICES ASSUME NEW r \in DOMAIN referrals', referrals'[r].status = "paid"
                 PROVE  \E j \in items' : j.referral = r /\ j.paid
      BY DEF PaidHasLeft
    <3>1. PICK i \in items : i.referral = r /\ (i.paid \/ i.batch = b)
      BY <1>1, <2>1, <2>2 DEF PaidHasLeft
    <3> QED
      BY <2>1, <2>3, <3>1
  <2> QED
    BY <2>1, <2>2, <2>4, <2>5, <2>6, <2>7 DEF PayoutInv
<1>10. CASE UNCHANGED Payout!vars
  BY <1>3, <1>10 DEF Payout!vars
<1>11. ASSUME NEW c, Payout!CreateRead(c) \/ Payout!MarkRead(c)
       PROVE  UNCHANGED <<orders, referrals, items>>
  BY <1>11 DEF Payout!CreateRead, Payout!MarkRead
<1> QED
  BY <1>3, <1>4, <1>5, <1>6, <1>7, <1>8, <1>9, <1>10, <1>11 DEF Payout!Next

LEMMA InitPayout == Payout!Init => PayoutInv
<1> SUFFICES ASSUME Payout!Init PROVE PayoutInv
  OBVIOUS
<1>1. DOMAIN referrals = {} /\ items = {}
  BY DEF Payout!Init
<1>2. orders \in [Referrals -> Payout!OrderStates]
  BY DEF Payout!Init, Payout!OrderStates
<1> QED
  BY <1>1, <1>2
     DEF PayoutInv, PayoutTables, Payout!BatchedOnce, Payout!EarnedAfterDispute, PaidHasLeft

LEMMA PayoutHolds == Payout!Spec => []PayoutInv
  BY InitPayout, PayoutStep, PTL DEF Payout!Spec

\* A commission is in one batch, however many batches are built from the same reading.
THEOREM BatchedOnceHolds == Payout!Spec => []Payout!BatchedOnce
<1>1. PayoutInv => Payout!BatchedOnce
  BY DEF PayoutInv
<1> QED
  BY <1>1, PayoutHolds, PTL

\* Money leaves only for an order that was delivered and past the dispute window.
THEOREM EarnedAfterDisputeHolds == Payout!Spec => []Payout!EarnedAfterDispute
<1>1. PayoutInv => Payout!EarnedAfterDispute
  BY DEF PayoutInv
<1> QED
  BY <1>1, PayoutHolds, PTL

\* A paid commission stays paid and as it was, and a batch it left with is on record.
THEOREM PaidIsFinalHolds == Payout!Spec => [][Payout!PaidIsFinal]_(Payout!vars)
<1>1. PayoutInv /\ [Payout!Next]_(Payout!vars) => [Payout!PaidIsFinal]_(Payout!vars)
  BY PayoutStep
<1> QED
  BY <1>1, PayoutHolds, PTL DEF Payout!Spec

-----------------------------------------------------------------------------
(***************************************************************************)
(* Ledger.  What a command read and what its transaction wrote are two     *)
(* moments, and what is said of the books needs what holds in between: the *)
(* rows a transaction has written are its own until it commits, the guard  *)
(* of its first UPDATE stays true of them, and the periods the trigger let *)
(* it write to were open then.                                             *)
(***************************************************************************)

Doing(c, what) == request[c].at \in {"write", "commit"} /\ request[c].what = what
Commits(c, what) == request[c].at = "commit" /\ request[c].what = what

\* The number of a settlement is that of a request that has ended.
MadeByEnded == \A s \in DOMAIN settlements : request[s] = Books!Done

\* What a change of a settlement has read: it was not paid, and its net amount never changes.
ReadsHold ==
  \A c \in Books!Requests : Doing(c, "change") =>
    LET r == request[c] IN
    /\ r.settlement \in DOMAIN settlements
    /\ r.read.net = settlements[r.settlement].net /\ r.read.status # "paid"

\* No two transactions have written the same row.
Locked ==
  \A c, d \in Books!Requests :
    c # d /\ request[c].at = "commit" /\ request[d].at = "commit" =>
      Books!RowsOf(request[c]) \cap Books!RowsOf(request[d]) = {}

\* What the first UPDATE asked for is still so.
WritesHold ==
  \A c \in Books!Requests :
    LET r == request[c] IN
    /\ Commits(c, "change") => settlements[r.settlement].status = r.read.status
    /\ Commits(c, "settle") => \A l \in lines : l.entry \notin r.sources
    /\ Commits(c, "review") => expenses[r.expense] = "pending"

\* No period the transaction is about to change was closed when it wrote.
GuardHeld ==
  \A c \in Books!Requests :
    LET r == request[c] IN
    /\ Commits(c, "pay") => 1 \notin r.saw /\ r.month \notin r.saw
    /\ Commits(c, "settle") =>
         /\ \A e \in r.sources : entries[e].settlement = None => 1 \notin r.saw
         /\ r.to = "paid" => r.month \notin r.saw
    /\ Commits(c, "change") => (r.to = "paid" => r.month \notin r.saw)
    /\ Commits(c, "review") => (r.to = "approved" => 1 \notin r.saw)

\* A paid settlement has one payment, of its net amount, another one none.
PaymentOf(s) ==
  IF settlements[s].status = "paid"
  THEN \E p \in payments :
         /\ p.settlement = s /\ p.amount = settlements[s].net
         /\ \A q \in payments : q.settlement = s => q = p
  ELSE \A q \in payments : q.settlement # s

BooksInv ==
  /\ Books!TypeOK /\ MadeByEnded /\ ReadsHold /\ Locked /\ WritesHold /\ GuardHeld
  /\ (\A s \in DOMAIN settlements : PaymentOf(s))
  /\ Books!SettledOnce /\ Books!ExpenseBooked

\* What a request that has something to do holds.
LEMMA PendingShape ==
  ASSUME NEW r \in Books!Pending
  PROVE  /\ r.at \in {"idle", "done", "write", "commit"}
         /\ r.at = "idle" <=> r = Books!Idle
         /\ r.at = "done" <=> r = Books!Done
         /\ r.at \in {"write", "commit"} =>
              /\ r.what \in {"pay", "settle", "change", "review"}
              /\ r.month \in Books!Periods /\ r.saw \in SUBSET Books!Periods
              /\ r.what = "pay" => r.entry \in Entries
              /\ r.what = "settle" => r.sources \in SUBSET Entries /\ r.to \in Books!settlementStatuses
              /\ r.what = "change" => /\ r.settlement \in Books!Requests
                                      /\ r.read \in Books!Settlement
                                      /\ r.to \in Books!settlementStatuses
              /\ r.what = "review" => r.expense \in Expenses["books"] /\ r.to \in {"approved", "rejected"}
BY DEF Books!Pending, Books!Idle, Books!Done

\* A request that writes and gets past its guard is the same request, committing.
Written(r, saw) == [r EXCEPT !.at = "commit", !.saw = saw]

LEMMA WrittenShape ==
  ASSUME NEW r \in Books!Pending, r.at = "write", NEW saw \in SUBSET Books!Periods
  PROVE  /\ Written(r, saw) \in Books!Pending
         /\ Written(r, saw).at = "commit" /\ Written(r, saw).saw = saw
         /\ Written(r, saw).what = r.what /\ Written(r, saw).month = r.month
         /\ r.what = "pay" => Written(r, saw).entry = r.entry
         /\ r.what = "settle" =>
              Written(r, saw).sources = r.sources /\ Written(r, saw).to = r.to
         /\ r.what = "change" =>
              /\ Written(r, saw).settlement = r.settlement
              /\ Written(r, saw).read = r.read /\ Written(r, saw).to = r.to
         /\ r.what = "review" =>
              Written(r, saw).expense = r.expense /\ Written(r, saw).to = r.to
         /\ Books!RowsOf(Written(r, saw)) = Books!RowsOf(r)
<1> SUFFICES ASSUME NEW q, q = [r EXCEPT !.at = "commit", !.saw = saw]
             PROVE  /\ q \in Books!Pending /\ q.at = "commit" /\ q.saw = saw
                    /\ q.what = r.what /\ q.month = r.month
                    /\ r.what = "pay" => q.entry = r.entry
                    /\ r.what = "settle" => q.sources = r.sources /\ q.to = r.to
                    /\ r.what = "change" =>
                         q.settlement = r.settlement /\ q.read = r.read /\ q.to = r.to
                    /\ r.what = "review" => q.expense = r.expense /\ q.to = r.to
                    /\ Books!RowsOf(q) = Books!RowsOf(r)
  BY DEF Written
<1> DEFINE At == {"write", "commit"}
           Pays == [at : At, what : {"pay"}, entry : Entries, month : Books!Periods,
                    saw : SUBSET Books!Periods]
           Settles == [at : At, what : {"settle"}, sources : SUBSET Entries,
                       to : Books!settlementStatuses, month : Books!Periods,
                       saw : SUBSET Books!Periods]
           Changes == [at : At, what : {"change"}, settlement : Books!Requests,
                       read : Books!Settlement, to : Books!settlementStatuses,
                       month : Books!Periods, saw : SUBSET Books!Periods]
           Reviews == [at : At, what : {"review"}, expense : Expenses["books"],
                       to : {"approved", "rejected"}, month : Books!Periods,
                       saw : SUBSET Books!Periods]
<1>1. r \in Pays \cup Settles \cup Changes \cup Reviews
  BY DEF Books!Pending, Books!Idle, Books!Done
<1>2. \A x \in Pays \cup Settles \cup Changes \cup Reviews : x \in Books!Pending
  BY DEF Books!Pending
<1>3. CASE r \in Pays
  <2>1. q \in Pays /\ q.at = "commit" /\ q.saw = saw /\ q.what = "pay" /\ r.what = "pay"
        /\ q.month = r.month /\ q.entry = r.entry
    BY <1>3
  <2> QED
    BY <1>2, <2>1 DEF Books!RowsOf
<1>4. CASE r \in Settles
  <2>1. q \in Settles /\ q.at = "commit" /\ q.saw = saw /\ q.what = "settle" /\ r.what = "settle"
        /\ q.month = r.month /\ q.sources = r.sources /\ q.to = r.to
    BY <1>4
  <2> QED
    BY <1>2, <2>1 DEF Books!RowsOf
<1>5. CASE r \in Changes
  <2>1. q \in Changes /\ q.at = "commit" /\ q.saw = saw /\ q.what = "change" /\ r.what = "change"
        /\ q.month = r.month /\ q.settlement = r.settlement /\ q.read = r.read /\ q.to = r.to
    BY <1>5
  <2> QED
    BY <1>2, <2>1 DEF Books!RowsOf
<1>6. CASE r \in Reviews
  <2>1. q \in Reviews /\ q.at = "commit" /\ q.saw = saw /\ q.what = "review" /\ r.what = "review"
        /\ q.month = r.month /\ q.expense = r.expense /\ q.to = r.to
    BY <1>6
  <2> QED
    BY <1>2, <2>1 DEF Books!RowsOf
<1> QED
  BY <1>1, <1>3, <1>4, <1>5, <1>6

\* A command starts: it has read what it needs.
LEMMA CommandStarts ==
  ASSUME BooksInv, NEW c \in Books!Requests, NEW r \in Books!Pending, r.at = "write",
         request[c] = Books!Idle, request' = [request EXCEPT ![c] = r], UNCHANGED Books!Books,
         r.what = "change" => /\ r.settlement \in DOMAIN settlements
                              /\ r.read.net = settlements[r.settlement].net
                              /\ r.read.status # "paid"
  PROVE  BooksInv'
<1>1. /\ request \in [Books!Requests -> Books!Pending] /\ request'[c] = r
      /\ \A d \in Books!Requests : d # c => request'[d] = request[d]
      /\ request' \in [Books!Requests -> Books!Pending]
  BY DEF BooksInv, Books!TypeOK
<1>2. UNCHANGED <<entries, settlements, lines, payments, expenses, booked, closed, month>>
  BY DEF Books!Books
<1>3. Books!TypeOK'
  BY <1>1, <1>2 DEF BooksInv, Books!TypeOK
<1>4. MadeByEnded'
  BY <1>1, <1>2 DEF BooksInv, MadeByEnded, Books!Idle, Books!Done, Books!TypeOK
<1>5. ReadsHold'
  BY <1>1, <1>2 DEF BooksInv, ReadsHold, Doing
<1>6. Locked' /\ WritesHold' /\ GuardHeld'
  BY <1>1, <1>2 DEF BooksInv, Locked, WritesHold, GuardHeld, Commits
<1>7. (\A s \in DOMAIN settlements : PaymentOf(s))'
  BY <1>2 DEF BooksInv, PaymentOf
<1>8. Books!SettledOnce' /\ Books!ExpenseBooked'
  BY <1>2 DEF BooksInv, Books!SettledOnce, Books!ExpenseBooked
<1> QED
  BY <1>3, <1>4, <1>5, <1>6, <1>7, <1>8 DEF BooksInv

LEMMA WriteStep ==
  ASSUME BooksInv, NEW c \in Books!Requests, Books!Write(c)
  PROVE  BooksInv'
<1>1. PICK r : r = request[c]
  OBVIOUS
<1>2. PICK q : q = IF Books!Wins(r) /\ Books!GuardPasses(r)
                   THEN Written(r, closed) ELSE Books!Done
  OBVIOUS
<1>3. /\ request \in [Books!Requests -> Books!Pending] /\ r \in Books!Pending /\ r.at = "write"
      /\ closed \in SUBSET Books!Periods
  BY <1>1 DEF BooksInv, Books!TypeOK, Books!Write
<1>4. q \in Books!Pending
  BY <1>2, <1>3, WrittenShape DEF Books!Pending
<1>5. /\ request' = [request EXCEPT ![c] = q] /\ request'[c] = q
      /\ \A d \in Books!Requests : d # c => request'[d] = request[d]
      /\ request' \in [Books!Requests -> Books!Pending]
  BY <1>1, <1>2, <1>3, <1>4 DEF Books!Write, Books!Then, Written
<1>6. UNCHANGED <<entries, settlements, lines, payments, expenses, booked, closed, month>>
  BY DEF Books!Write, Books!Books
<1>7. \A row \in Books!RowsOf(r) : \A d \in Books!Requests : row \notin Books!Writes(d)
  BY <1>1 DEF Books!Write, Books!Free
<1>8. \A d \in Books!Requests : request[d].at = "commit" => Books!Writes(d) = Books!RowsOf(request[d])
  BY <1>3 DEF Books!Writes, Books!RowsOf
<1>9. q.at = "commit" =>
        /\ Books!Wins(r) /\ Books!GuardPasses(r) /\ q.saw = closed
        /\ q.what = r.what /\ q.month = r.month
        /\ r.what = "pay" => q.entry = r.entry
        /\ r.what = "settle" => q.sources = r.sources /\ q.to = r.to
        /\ r.what = "change" => q.settlement = r.settlement /\ q.read = r.read /\ q.to = r.to
        /\ r.what = "review" => q.expense = r.expense /\ q.to = r.to
        /\ Books!RowsOf(q) = Books!RowsOf(r)
  <2>1. CASE Books!Wins(r) /\ Books!GuardPasses(r)
    <3>1. q = Written(r, closed)
      BY <1>2, <2>1
    <3> QED
      BY <1>3, <2>1, <3>1, WrittenShape
  <2>2. CASE ~ (Books!Wins(r) /\ Books!GuardPasses(r))
    BY <1>2, <2>2 DEF Books!Done
  <2> QED
    BY <2>1, <2>2
<1>10. q.at # "commit" => q = Books!Done
  <2>1. CASE Books!Wins(r) /\ Books!GuardPasses(r)
    <3>1. q = Written(r, closed)
      BY <1>2, <2>1
    <3> QED
      BY <1>3, <3>1, WrittenShape
  <2> QED
    BY <1>2, <2>1
<1>11. Books!TypeOK'
  BY <1>5, <1>6 DEF BooksInv, Books!TypeOK
<1>12. MadeByEnded'
  BY <1>1, <1>3, <1>5, <1>6 DEF BooksInv, MadeByEnded, Books!Done, Books!TypeOK
<1>13. ReadsHold'
  BY <1>1, <1>3, <1>5, <1>6, <1>9, <1>10 DEF BooksInv, ReadsHold, Doing, Books!Done
<1>14. Locked'
  BY <1>5, <1>7, <1>8, <1>9 DEF BooksInv, Locked
<1>15. WritesHold'
  <2>1. Commits(c, "change")' => settlements[q.settlement].status = q.read.status
    BY <1>5, <1>9 DEF Commits, Books!Wins, Books!ChangeWins
  <2>2. Commits(c, "settle")' => \A l \in lines : l.entry \notin q.sources
    BY <1>5, <1>9 DEF Commits, Books!Wins, Books!LinesFit
  <2>3. Commits(c, "review")' => expenses[q.expense] = "pending"
    BY <1>5, <1>9 DEF Commits, Books!Wins, Books!ReviewWins
  <2> QED
    BY <1>5, <1>6, <2>1, <2>2, <2>3 DEF BooksInv, WritesHold, Commits
<1>16. GuardHeld'
  <2>1. q.at = "commit" => \A p \in Books!Touched(r) : p \notin closed
    BY <1>9 DEF Books!GuardPasses, Books!Open
  <2>2. Commits(c, "pay")' => 1 \notin q.saw /\ q.month \notin q.saw
    BY <1>5, <1>9, <2>1 DEF Commits, Books!Touched
  <2>3. Commits(c, "settle")' =>
          /\ \A e \in q.sources : entries[e].settlement = None => 1 \notin q.saw
          /\ q.to = "paid" => q.month \notin q.saw
    BY <1>5, <1>9, <2>1 DEF Commits, Books!Touched
  <2>4. Commits(c, "change")' => (q.to = "paid" => q.month \notin q.saw)
    BY <1>5, <1>9, <2>1 DEF Commits, Books!Touched
  <2>5. Commits(c, "review")' => (q.to = "approved" => 1 \notin q.saw)
    BY <1>5, <1>9, <2>1 DEF Commits, Books!Touched
  <2> QED
    BY <1>5, <1>6, <2>2, <2>3, <2>4, <2>5 DEF BooksInv, GuardHeld, Commits
<1>17. (\A s \in DOMAIN settlements : PaymentOf(s))'
  BY <1>6 DEF BooksInv, PaymentOf
<1>18. Books!SettledOnce' /\ Books!ExpenseBooked'
  BY <1>6 DEF BooksInv, Books!SettledOnce, Books!ExpenseBooked
<1> QED
  BY <1>11, <1>12, <1>13, <1>14, <1>15, <1>16, <1>17, <1>18 DEF BooksInv

\* A transaction that commits leaves to the others what they have read and written.
LEMMA OthersHold ==
  ASSUME BooksInv, NEW c \in Books!Requests, request[c].at = "commit", Books!End(c),
         DOMAIN settlements \subseteq DOMAIN settlements',
         DOMAIN settlements' \subseteq DOMAIN settlements \cup {c},
         \A s \in DOMAIN settlements :
           /\ settlements'[s].net = settlements[s].net
           /\ s \notin Books!RowsOf(request[c]) => settlements'[s] = settlements[s],
         \A l \in lines' : l \in lines \/ l.entry \in Books!RowsOf(request[c]),
         \A x \in Expenses["books"] : x \notin Books!RowsOf(request[c]) => expenses'[x] = expenses[x],
         \A e \in Entries : entries'[e].settlement = None => entries[e].settlement = None
  PROVE  MadeByEnded' /\ ReadsHold' /\ Locked' /\ WritesHold' /\ GuardHeld'
         /\ request' \in [Books!Requests -> Books!Pending]
<1>1. /\ request \in [Books!Requests -> Books!Pending] /\ request'[c] = Books!Done
      /\ \A d \in Books!Requests : d # c => request'[d] = request[d]
      /\ request' \in [Books!Requests -> Books!Pending]
  BY DEF BooksInv, Books!TypeOK, Books!End, Books!Then, Books!Pending
<1>2. Books!Done.at = "done"
  BY DEF Books!Done
<1>3. ASSUME NEW d \in Books!Requests, d # c, request[d].at = "commit"
      PROVE  Books!RowsOf(request[c]) \cap Books!RowsOf(request[d]) = {}
  BY <1>3 DEF BooksInv, Locked
<1>4. MadeByEnded'
  BY <1>1 DEF BooksInv, MadeByEnded, Books!TypeOK
<1>5. ReadsHold'
  BY <1>1, <1>2 DEF BooksInv, ReadsHold, Doing
<1>6. Locked'
  BY <1>1, <1>2 DEF BooksInv, Locked
<1>7. WritesHold'
  <2> SUFFICES ASSUME NEW d \in Books!Requests, d # c, request[d].at = "commit"
               PROVE  LET r == request[d] IN
                      /\ r.what = "change" => settlements'[r.settlement].status = r.read.status
                      /\ r.what = "settle" => \A l \in lines' : l.entry \notin r.sources
                      /\ r.what = "review" => expenses'[r.expense] = "pending"
    BY <1>1, <1>2 DEF WritesHold, Commits
  <2>1. request[d] \in Books!Pending
    BY <1>1
  <2>2. CASE request[d].what = "change"
    <3>1. request[d].settlement \in Books!RowsOf(request[d])
      BY <2>2 DEF Books!RowsOf
    <3>2. settlements[request[d].settlement].status = request[d].read.status
          /\ request[d].settlement \in DOMAIN settlements
      BY <2>2 DEF BooksInv, WritesHold, ReadsHold, Commits, Doing
    <3> QED
      BY <1>3, <2>2, <3>1, <3>2
  <2>3. CASE request[d].what = "settle"
    <3>1. Books!RowsOf(request[d]) = request[d].sources
      BY <2>3 DEF Books!RowsOf
    <3>2. \A l \in lines : l.entry \notin request[d].sources
      BY <2>3 DEF BooksInv, WritesHold, Commits
    <3> QED
      BY <1>3, <2>3, <3>1, <3>2
  <2>4. CASE request[d].what = "review"
    <3>1. request[d].expense \in Books!RowsOf(request[d])
      BY <2>4 DEF Books!RowsOf
    <3>2. request[d].expense \in Expenses["books"]
      BY <2>1, <2>4, PendingShape
    <3>3. expenses[request[d].expense] = "pending"
      BY <2>4 DEF BooksInv, WritesHold, Commits
    <3> QED
      BY <1>3, <2>4, <3>1, <3>2, <3>3
  <2> QED
    BY <2>2, <2>3, <2>4
<1>8. GuardHeld'
  <2> SUFFICES ASSUME NEW d \in Books!Requests, d # c, Commits(d, "settle"),
                      NEW e \in request[d].sources, entries'[e].settlement = None
               PROVE  1 \notin request[d].saw
    BY <1>1, <1>2 DEF BooksInv, GuardHeld, Commits
  <2>1. e \in Entries
    BY <1>1, PendingShape DEF Commits
  <2> QED
    BY <2>1 DEF BooksInv, GuardHeld, Commits
<1> QED
  BY <1>1, <1>4, <1>5, <1>6, <1>7, <1>8

\* A settlement that is made has its payment if it is made paid.
LEMMA MadeWithPayment ==
  ASSUME BooksInv, NEW c \in Books!Requests, request[c].at = "commit",
         NEW to \in Books!settlementStatuses, NEW net \in Nat, NEW p \in Books!Periods,
         Books!NewSettlement(c, c, to, net),
         IF to = "paid" THEN Books!NewPayment(c, net, p) ELSE UNCHANGED payments
  PROVE  /\ c \notin DOMAIN settlements /\ DOMAIN settlements' = DOMAIN settlements \cup {c}
         /\ \A s \in DOMAIN settlements : settlements'[s] = settlements[s]
         /\ \A s \in DOMAIN settlements' : settlements'[s] \in Books!Settlement
         /\ payments' \subseteq
              [settlement : DOMAIN settlements', amount : Nat, period : Books!Periods]
         /\ (\A s \in DOMAIN settlements : PaymentOf(s))'
         /\ \A q \in payments' : q \notin payments => q.period = p /\ to = "paid"
<1>1. c \notin DOMAIN settlements
  BY DEF BooksInv, MadeByEnded, Books!Done
<1>2. /\ DOMAIN settlements' = DOMAIN settlements \cup {c}
      /\ settlements'[c] = [status |-> to, net |-> net, stamp |-> c]
      /\ \A s \in DOMAIN settlements : settlements'[s] = settlements[s]
  BY <1>1 DEF Books!NewSettlement
<1>3. payments \subseteq [settlement : DOMAIN settlements, amount : Nat, period : Books!Periods]
      /\ \A s \in DOMAIN settlements : settlements[s] \in Books!Settlement
  BY DEF BooksInv, Books!TypeOK
<1>4. settlements'[c] \in Books!Settlement /\ settlements'[c].status = to
      /\ settlements'[c].net = net
  BY <1>2 DEF Books!Settlement
<1>5. \A q \in payments : q.settlement # c
  BY <1>1, <1>3
<1>6. PICK one : one = [settlement |-> c, amount |-> net, period |-> p]
  OBVIOUS
<1>7. payments' = IF to = "paid" THEN payments \cup {one} ELSE payments
  BY <1>5, <1>6 DEF Books!NewPayment
<1>8. one.settlement = c /\ one.amount = net /\ one.period = p
      /\ one \in [settlement : DOMAIN settlements', amount : Nat, period : Books!Periods]
  BY <1>2, <1>6
<1>9. (\A s \in DOMAIN settlements : PaymentOf(s))'
  <2> SUFFICES ASSUME NEW s \in DOMAIN settlements' PROVE PaymentOf(s)'
    OBVIOUS
  <2>1. CASE s = c
    BY <1>4, <1>5, <1>7, <1>8, <2>1 DEF PaymentOf
  <2>2. CASE s \in DOMAIN settlements /\ s # c
    <3>1. PaymentOf(s)
      BY <2>2 DEF BooksInv
    <3> QED
      BY <1>2, <1>7, <1>8, <2>2, <3>1 DEF PaymentOf
  <2> QED
    BY <1>2, <2>1, <2>2
<1> QED
  BY <1>1, <1>2, <1>3, <1>4, <1>7, <1>8, <1>9

LEMMA PayCommits ==
  ASSUME BooksAreCounted, BooksInv, NEW c \in Books!Requests, Books!CommitPay(c)
  PROVE  BooksInv'
<1>1. PICK r : r = request[c]
  OBVIOUS
<1>2. /\ request \in [Books!Requests -> Books!Pending] /\ r \in Books!Pending
      /\ r.at = "commit" /\ r.what = "pay" /\ request[c].at = "commit"
      /\ r.entry \in Entries /\ r.month \in Books!Periods
      /\ Books!RowsOf(request[c]) = {r.entry}
  BY <1>1, PendingShape DEF BooksInv, Books!TypeOK, Books!CommitPay, Books!RowsOf
<1>3. /\ entries' = [entries EXCEPT ![r.entry] = [status |-> "paid", settlement |-> c]]
      /\ Books!NewSettlement(c, c, "paid", 1) /\ Books!NewPayment(c, 1, r.month) /\ Books!End(c)
      /\ UNCHANGED <<lines, expenses, booked, closed, month>>
  BY <1>1 DEF Books!CommitPay
<1>4. /\ c \notin DOMAIN settlements /\ DOMAIN settlements' = DOMAIN settlements \cup {c}
      /\ \A s \in DOMAIN settlements : settlements'[s] = settlements[s]
      /\ \A s \in DOMAIN settlements' : settlements'[s] \in Books!Settlement
      /\ payments' \subseteq
           [settlement : DOMAIN settlements', amount : Nat, period : Books!Periods]
      /\ (\A s \in DOMAIN settlements : PaymentOf(s))'
  BY <1>2, <1>3, MadeWithPayment DEF Books!settlementStatuses
<1>5. \A e \in Entries : entries'[e].settlement = None => entries[e].settlement = None
  BY <1>2, <1>3 DEF BooksAreCounted, BooksInv, Books!TypeOK
<1>6. /\ MadeByEnded' /\ ReadsHold' /\ Locked' /\ WritesHold' /\ GuardHeld'
      /\ request' \in [Books!Requests -> Books!Pending]
  BY <1>2, <1>3, <1>4, <1>5, OthersHold
<1>7. Books!TypeOK'
  <2>1. entries' \in [Entries -> [status : {"pending", "earned", "paid", "voided"},
                                  settlement : Books!Requests \cup {None}]]
    BY <1>2, <1>3 DEF BooksInv, Books!TypeOK
  <2> QED
    BY <1>3, <1>4, <1>6, <2>1 DEF BooksInv, Books!TypeOK
<1>8. Books!SettledOnce' /\ Books!ExpenseBooked'
  BY <1>3 DEF BooksInv, Books!SettledOnce, Books!ExpenseBooked
<1> QED
  BY <1>4, <1>6, <1>7, <1>8 DEF BooksInv

\* Ledger counts as FiniteSets does.
LEMMA SameCardinality == \A S : Books!Cardinality(S) = Cardinality(S)
BY DEF Books!Cardinality, Cardinality

LEMMA SettleCommits ==
  ASSUME BooksAreCounted, BooksInv, NEW c \in Books!Requests, Books!CommitSettle(c)
  PROVE  BooksInv'
<1>1. PICK r : r = request[c]
  OBVIOUS
<1>2. /\ request \in [Books!Requests -> Books!Pending] /\ r \in Books!Pending
      /\ r.at = "commit" /\ r.what = "settle" /\ request[c].at = "commit"
      /\ r.sources \in SUBSET Entries /\ r.to \in Books!settlementStatuses
      /\ r.month \in Books!Periods /\ Books!RowsOf(request[c]) = r.sources
  BY <1>1, PendingShape DEF BooksInv, Books!TypeOK, Books!CommitSettle, Books!RowsOf
<1>3. /\ Books!NewSettlement(c, c, r.to, Cardinality(r.sources))
      /\ lines' = lines \cup {[entry |-> e, settlement |-> c] : e \in r.sources}
      /\ entries' = [e \in Entries |->
           IF e \in r.sources /\ entries[e].settlement = None
           THEN [entries[e] EXCEPT !.settlement = c] ELSE entries[e]]
      /\ IF r.to = "paid" THEN Books!NewPayment(c, Cardinality(r.sources), r.month)
         ELSE UNCHANGED payments
      /\ Books!End(c) /\ UNCHANGED <<expenses, booked, closed, month>>
  BY <1>1, SameCardinality DEF Books!CommitSettle
<1>4. Cardinality(r.sources) \in Nat
  BY <1>2, FS_Subset, FS_CardinalityType DEF BooksAreCounted
<1>5. /\ c \notin DOMAIN settlements /\ DOMAIN settlements' = DOMAIN settlements \cup {c}
      /\ \A s \in DOMAIN settlements : settlements'[s] = settlements[s]
      /\ \A s \in DOMAIN settlements' : settlements'[s] \in Books!Settlement
      /\ payments' \subseteq
           [settlement : DOMAIN settlements', amount : Nat, period : Books!Periods]
      /\ (\A s \in DOMAIN settlements : PaymentOf(s))'
  BY <1>2, <1>3, <1>4, MadeWithPayment
<1>6. \A e \in Entries : entries'[e].settlement = None => entries[e].settlement = None
  BY <1>2, <1>3 DEF BooksInv, Books!TypeOK
<1>7. \A l \in lines' : l \in lines \/ (l.entry \in r.sources /\ l = [entry |-> l.entry, settlement |-> c])
  BY <1>3
<1>8. /\ MadeByEnded' /\ ReadsHold' /\ Locked' /\ WritesHold' /\ GuardHeld'
      /\ request' \in [Books!Requests -> Books!Pending]
  BY <1>2, <1>3, <1>5, <1>6, <1>7, OthersHold
<1>9. Books!TypeOK'
  <2>1. entries' \in [Entries -> [status : {"pending", "earned", "paid", "voided"},
                                  settlement : Books!Requests \cup {None}]]
    BY <1>2, <1>3 DEF BooksInv, Books!TypeOK
  <2>2. lines' \subseteq [entry : Entries, settlement : DOMAIN settlements']
    <3>1. \A e \in r.sources :
            [entry |-> e, settlement |-> c] \in [entry : Entries, settlement : DOMAIN settlements']
      BY <1>2, <1>5
    <3>2. [entry : Entries, settlement : DOMAIN settlements]
            \subseteq [entry : Entries, settlement : DOMAIN settlements']
      BY <1>5
    <3> QED
      BY <1>3, <3>1, <3>2 DEF BooksInv, Books!TypeOK
  <2> QED
    BY <1>3, <1>5, <1>8, <2>1, <2>2 DEF BooksInv, Books!TypeOK
<1>10. Books!SettledOnce'
  <2>1. \A l \in lines : l.entry \notin r.sources
    BY <1>1, <1>2 DEF BooksInv, WritesHold, Commits
  <2>2. \A k, l \in lines : k.entry = l.entry => k = l
    BY DEF BooksInv, Books!SettledOnce
  <2>3. \A k, l \in lines' : k.entry = l.entry => k = l
    <3> SUFFICES ASSUME NEW k \in lines', NEW l \in lines', k.entry = l.entry PROVE k = l
      OBVIOUS
    <3>1. CASE k.entry \in r.sources
      <4>1. k \notin lines /\ l \notin lines
        BY <2>1, <3>1
      <4> QED
        BY <1>7, <4>1
    <3>2. CASE k.entry \notin r.sources
      BY <1>7, <2>2, <3>2
    <3> QED
      BY <3>1, <3>2
  <2> QED
    BY <2>3 DEF Books!SettledOnce
<1>11. Books!ExpenseBooked'
  BY <1>3 DEF BooksInv, Books!ExpenseBooked
<1> QED
  BY <1>5, <1>8, <1>9, <1>10, <1>11 DEF BooksInv

LEMMA ChangeCommits ==
  ASSUME BooksInv, NEW c \in Books!Requests, Books!CommitChange(c)
  PROVE  BooksInv'
<1>1. PICK r, s, net : r = request[c] /\ s = r.settlement /\ net = r.read.net
  OBVIOUS
<1>2. /\ request \in [Books!Requests -> Books!Pending] /\ r \in Books!Pending
      /\ r.at = "commit" /\ r.what = "change" /\ request[c].at = "commit"
      /\ r.to \in Books!settlementStatuses /\ r.month \in Books!Periods
      /\ Books!RowsOf(request[c]) = {s}
  BY <1>1, PendingShape DEF BooksInv, Books!TypeOK, Books!CommitChange, Books!RowsOf
<1>3. /\ Books!NewSettlement(c, s, r.to, net)
      /\ IF r.to = "paid" THEN Books!NewPayment(s, net, r.month) ELSE UNCHANGED payments
      /\ Books!End(c) /\ UNCHANGED <<entries, lines, expenses, booked, closed, month>>
  BY <1>1 DEF Books!CommitChange
<1>4. s \in DOMAIN settlements /\ settlements[s].net = net /\ settlements[s].status # "paid"
  BY <1>1, <1>2 DEF BooksInv, ReadsHold, WritesHold, Doing, Commits
<1>5. /\ payments \subseteq [settlement : DOMAIN settlements, amount : Nat, period : Books!Periods]
      /\ \A t \in DOMAIN settlements : settlements[t] \in Books!Settlement
      /\ net \in Nat
  <2>1. settlements[s] \in Books!Settlement
    BY <1>4 DEF BooksInv, Books!TypeOK
  <2> QED
    BY <1>4, <2>1 DEF BooksInv, Books!TypeOK, Books!Settlement
<1>6. /\ DOMAIN settlements' = DOMAIN settlements
      /\ settlements'[s] = [status |-> r.to, net |-> net, stamp |-> c]
      /\ \A t \in DOMAIN settlements : t # s => settlements'[t] = settlements[t]
  BY <1>3, <1>4 DEF Books!NewSettlement
<1>7. settlements'[s] \in Books!Settlement /\ settlements'[s].status = r.to
      /\ settlements'[s].net = net
  BY <1>2, <1>5, <1>6 DEF Books!Settlement
<1>8. /\ MadeByEnded' /\ ReadsHold' /\ Locked' /\ WritesHold' /\ GuardHeld'
      /\ request' \in [Books!Requests -> Books!Pending]
  BY <1>2, <1>3, <1>4, <1>6, <1>7, OthersHold
<1>9. \A q \in payments : q.settlement # s
  BY <1>4 DEF BooksInv, PaymentOf
<1>10. PICK one : one = [settlement |-> s, amount |-> net, period |-> r.month]
  OBVIOUS
<1>11. /\ payments' = IF r.to = "paid" THEN payments \cup {one} ELSE payments
       /\ one.settlement = s /\ one.amount = net
       /\ one \in [settlement : DOMAIN settlements, amount : Nat, period : Books!Periods]
  BY <1>2, <1>3, <1>4, <1>5, <1>9, <1>10 DEF Books!NewPayment
<1>12. Books!TypeOK'
  <2>1. \A t \in DOMAIN settlements' : settlements'[t] \in Books!Settlement
    BY <1>5, <1>6, <1>7
  <2> QED
    BY <1>3, <1>5, <1>6, <1>8, <1>11, <2>1 DEF BooksInv, Books!TypeOK
<1>13. (\A t \in DOMAIN settlements : PaymentOf(t))'
  <2> SUFFICES ASSUME NEW t \in DOMAIN settlements' PROVE PaymentOf(t)'
    OBVIOUS
  <2>1. CASE t = s
    BY <1>7, <1>9, <1>11, <2>1 DEF PaymentOf
  <2>2. CASE t # s
    <3>1. PaymentOf(t)
      BY <1>6 DEF BooksInv
    <3> QED
      BY <1>6, <1>11, <2>2, <3>1 DEF PaymentOf
  <2> QED
    BY <2>1, <2>2
<1>14. Books!SettledOnce' /\ Books!ExpenseBooked'
  BY <1>3 DEF BooksInv, Books!SettledOnce, Books!ExpenseBooked
<1> QED
  BY <1>8, <1>12, <1>13, <1>14 DEF BooksInv

LEMMA ReviewCommits ==
  ASSUME BooksInv, NEW c \in Books!Requests, Books!CommitReview(c)
  PROVE  BooksInv'
<1>1. PICK r : r = request[c]
  OBVIOUS
<1>2. /\ request \in [Books!Requests -> Books!Pending] /\ r \in Books!Pending
      /\ r.at = "commit" /\ r.what = "review" /\ request[c].at = "commit"
      /\ r.expense \in Expenses["books"] /\ r.to \in {"approved", "rejected"}
      /\ Books!RowsOf(request[c]) = {r.expense}
  BY <1>1, PendingShape DEF BooksInv, Books!TypeOK, Books!CommitReview, Books!RowsOf
<1>3. /\ expenses' = [expenses EXCEPT ![r.expense] = r.to]
      /\ booked' = IF r.to = "approved" THEN booked \cup {r.expense} ELSE booked
      /\ Books!End(c) /\ UNCHANGED <<entries, settlements, lines, payments, closed, month>>
  BY <1>1 DEF Books!CommitReview
<1>4. expenses[r.expense] = "pending"
      /\ expenses \in [Expenses["books"] -> {"none", "pending", "approved", "rejected"}]
  BY <1>1, <1>2 DEF BooksInv, WritesHold, Commits, Books!TypeOK
<1>5. \A x \in Expenses["books"] : x \notin Books!RowsOf(request[c]) => expenses'[x] = expenses[x]
  BY <1>2, <1>3, <1>4
<1>6. /\ MadeByEnded' /\ ReadsHold' /\ Locked' /\ WritesHold' /\ GuardHeld'
      /\ request' \in [Books!Requests -> Books!Pending]
  BY <1>2, <1>3, <1>5, OthersHold
<1>7. Books!TypeOK'
  BY <1>2, <1>3, <1>4, <1>6 DEF BooksInv, Books!TypeOK
<1>8. (\A s \in DOMAIN settlements : PaymentOf(s))'
  BY <1>3 DEF BooksInv, PaymentOf
<1>9. Books!SettledOnce' /\ Books!ExpenseBooked'
  BY <1>2, <1>3, <1>4 DEF BooksInv, Books!SettledOnce, Books!ExpenseBooked
<1> QED
  BY <1>6, <1>7, <1>8, <1>9 DEF BooksInv

LEMMA CommandReads ==
  ASSUME BooksInv, NEW c \in Books!Requests,
         Books!PayRead(c) \/ Books!SettleRead(c) \/ Books!ChangeRead(c) \/ Books!ReviewRead(c)
  PROVE  BooksInv'
<1>1. /\ {} \in SUBSET Books!Periods /\ month \in Books!Periods
      /\ \A s \in DOMAIN settlements :
           s \in Books!Requests /\ settlements[s] \in Books!Settlement
  BY DEF BooksInv, Books!TypeOK
<1>2. CASE Books!PayRead(c)
  <2>1. PICK e \in Entries :
          Books!Begin(c, [at |-> "write", what |-> "pay", entry |-> e, month |-> month, saw |-> {}])
    BY <1>2 DEF Books!PayRead
  <2>2. PICK r : r = [at |-> "write", what |-> "pay", entry |-> e, month |-> month, saw |-> {}]
    OBVIOUS
  <2>3. r \in Books!Pending /\ r.at = "write" /\ r.what # "change"
    BY <1>1, <2>2 DEF Books!Pending
  <2> QED
    BY <1>2, <2>1, <2>2, <2>3, CommandStarts DEF Books!PayRead, Books!Begin, Books!Then
<1>3. CASE Books!SettleRead(c)
  <2>1. PICK S \in SUBSET Entries : S = {e \in Entries : Books!Payable(e)}
    OBVIOUS
  <2>2. PICK to \in Books!settlementStatuses :
          Books!Begin(c, [at |-> "write", what |-> "settle", sources |-> S, to |-> to,
                          month |-> month, saw |-> {}])
    BY <1>3, <2>1 DEF Books!SettleRead
  <2>3. PICK r : r = [at |-> "write", what |-> "settle", sources |-> S, to |-> to,
                      month |-> month, saw |-> {}]
    OBVIOUS
  <2>4. r \in Books!Pending /\ r.at = "write" /\ r.what # "change"
    BY <1>1, <2>3 DEF Books!Pending
  <2> QED
    BY <1>3, <2>2, <2>3, <2>4, CommandStarts DEF Books!SettleRead, Books!Begin, Books!Then
<1>4. CASE Books!ChangeRead(c)
  <2>1. PICK s \in DOMAIN settlements, to \in Books!settlementStatuses :
          /\ settlements[s].status # "paid"
          /\ Books!Begin(c, [at |-> "write", what |-> "change", settlement |-> s,
                             read |-> settlements[s], to |-> to, month |-> month, saw |-> {}])
    BY <1>4 DEF Books!ChangeRead
  <2>2. PICK r : r = [at |-> "write", what |-> "change", settlement |-> s,
                      read |-> settlements[s], to |-> to, month |-> month, saw |-> {}]
    OBVIOUS
  <2>3. r \in Books!Pending /\ r.at = "write" /\ r.settlement = s /\ r.read = settlements[s]
    BY <1>1, <2>2 DEF Books!Pending
  <2> QED
    BY <1>4, <2>1, <2>2, <2>3, CommandStarts DEF Books!ChangeRead, Books!Begin, Books!Then
<1>5. CASE Books!ReviewRead(c)
  <2>1. PICK x \in Expenses["books"], to \in {"approved", "rejected"} :
          Books!Begin(c, [at |-> "write", what |-> "review", expense |-> x, to |-> to,
                          month |-> month, saw |-> {}])
    BY <1>5 DEF Books!ReviewRead
  <2>2. PICK r : r = [at |-> "write", what |-> "review", expense |-> x, to |-> to,
                      month |-> month, saw |-> {}]
    OBVIOUS
  <2>3. r \in Books!Pending /\ r.at = "write" /\ r.what # "change"
    BY <1>1, <2>2 DEF Books!Pending
  <2> QED
    BY <1>5, <2>1, <2>2, <2>3, CommandStarts DEF Books!ReviewRead, Books!Begin, Books!Then
<1> QED
  BY <1>2, <1>3, <1>4, <1>5

\* What happens without a request leaves the settlements as they are.
LEMMA OthersStep ==
  ASSUME BooksInv,
         \/ \E e \in Entries : Books!Earn(e) \/ Books!Void(e)
         \/ \E x \in Expenses["books"] : Books!SubmitExpense(x)
         \/ \E p \in Books!Periods : Books!ClosePeriod(p)
         \/ Books!NextMonth
         \/ UNCHANGED Books!vars
  PROVE  BooksInv'
<1>1. /\ UNCHANGED <<settlements, lines, payments, booked, request>>
      /\ Books!TypeOK
  BY DEF BooksInv, Books!Earn, Books!Void, Books!SubmitExpense, Books!ClosePeriod,
         Books!NextMonth, Books!vars
<1>2. \A e \in Entries : entries'[e].settlement = entries[e].settlement
  BY <1>1 DEF Books!TypeOK, Books!Earn, Books!Void, Books!SubmitExpense, Books!ClosePeriod,
              Books!NextMonth, Books!vars
<1>3. \A x \in Expenses["books"] : expenses'[x] # expenses[x] =>
        expenses[x] = "none" /\ expenses'[x] = "pending"
  BY <1>1 DEF Books!TypeOK, Books!Earn, Books!Void, Books!SubmitExpense, Books!ClosePeriod,
              Books!NextMonth, Books!vars
<1>4. Books!TypeOK'
  BY <1>1 DEF Books!TypeOK, Books!Earn, Books!Void, Books!SubmitExpense, Books!ClosePeriod,
              Books!NextMonth, Books!vars, Books!Periods
<1>5. MadeByEnded' /\ ReadsHold' /\ Locked'
  BY <1>1 DEF BooksInv, MadeByEnded, ReadsHold, Locked, Doing
<1>6. WritesHold'
  <2> SUFFICES ASSUME NEW c \in Books!Requests
               PROVE  Commits(c, "review") => expenses'[request[c].expense] = "pending"
    BY <1>1 DEF BooksInv, WritesHold, Commits
  <2>1. Commits(c, "review") =>
          expenses[request[c].expense] = "pending" /\ request[c].expense \in Expenses["books"]
    BY <1>1, PendingShape DEF BooksInv, WritesHold, Commits, Books!TypeOK
  <2> QED
    BY <1>3, <2>1
<1>7. GuardHeld'
  <2> SUFFICES ASSUME NEW c \in Books!Requests, Commits(c, "settle"),
                      NEW e \in request[c].sources, entries'[e].settlement = None
               PROVE  1 \notin request[c].saw
    BY <1>1 DEF BooksInv, GuardHeld, Commits
  <2>1. e \in Entries
    BY <1>1, PendingShape DEF Commits, Books!TypeOK
  <2> QED
    BY <1>2, <2>1 DEF BooksInv, GuardHeld, Commits
<1>8. (\A s \in DOMAIN settlements : PaymentOf(s))'
  BY <1>1 DEF BooksInv, PaymentOf
<1>9. Books!SettledOnce'
  BY <1>1 DEF BooksInv, Books!SettledOnce
<1>10. Books!ExpenseBooked'
  BY <1>1, <1>3 DEF BooksInv, Books!ExpenseBooked
<1> QED
  BY <1>4, <1>5, <1>6, <1>7, <1>8, <1>9, <1>10 DEF BooksInv

LEMMA BooksStart == Books!Init => BooksInv
<1> SUFFICES ASSUME Books!Init PROVE BooksInv
  OBVIOUS
<1>1. /\ \A c \in Books!Requests : request[c] = Books!Idle /\ request[c].at = "idle"
      /\ lines = {} /\ payments = {} /\ booked = {} /\ closed = {} /\ month \in Books!Periods
      /\ expenses = [x \in Expenses["books"] |-> "none"] /\ DOMAIN settlements = {}
      /\ request \in [Books!Requests -> Books!Pending]
  BY DEF Books!Init, Books!Idle, Books!Periods, Books!Pending
<1>2. entries \in [Entries -> [status : {"pending", "earned", "paid", "voided"},
                               settlement : Books!Requests \cup {None}]]
  BY DEF Books!Init
<1>3. Books!TypeOK
  BY <1>1, <1>2 DEF Books!TypeOK
<1>4. MadeByEnded /\ ReadsHold /\ Locked /\ WritesHold /\ GuardHeld
  BY <1>1 DEF MadeByEnded, ReadsHold, Locked, WritesHold, GuardHeld, Doing, Commits
<1>5. Books!SettledOnce /\ Books!ExpenseBooked
  BY <1>1 DEF Books!SettledOnce, Books!ExpenseBooked
<1> QED
  BY <1>1, <1>3, <1>4, <1>5 DEF BooksInv

LEMMA BooksStep ==
  ASSUME BooksAreCounted
  PROVE  BooksInv /\ [Books!Next]_(Books!vars) => BooksInv'
<1> SUFFICES ASSUME BooksInv, [Books!Next]_(Books!vars) PROVE BooksInv'
  OBVIOUS
<1>1. CASE \E c \in Books!Requests :
             \/ Books!PayRead(c) \/ Books!SettleRead(c) \/ Books!ChangeRead(c)
             \/ Books!ReviewRead(c)
  BY <1>1, CommandReads
<1>2. CASE \E c \in Books!Requests : Books!Write(c)
  BY <1>2, WriteStep
<1>3. CASE \E c \in Books!Requests : Books!CommitPay(c) \/ Books!CommitSettle(c)
  BY <1>3, PayCommits, SettleCommits
<1>4. CASE \E c \in Books!Requests : Books!CommitChange(c) \/ Books!CommitReview(c)
  BY <1>4, ChangeCommits, ReviewCommits
<1> QED
  BY <1>1, <1>2, <1>3, <1>4, OthersStep DEF Books!Next

LEMMA BooksHold == ASSUME BooksAreCounted PROVE Books!Spec => []BooksInv
<1>1. Books!Init => BooksInv
  BY BooksStart
<1>2. BooksInv /\ [Books!Next]_(Books!vars) => BooksInv'
  BY BooksStep
<1> QED
  BY <1>1, <1>2, PTL DEF Books!Spec

\* What a command of the books has read is what its transaction may rely on.
THEOREM BooksHaveTheirTypes == ASSUME BooksAreCounted PROVE Books!Spec => []Books!TypeOK
<1>1. BooksInv => Books!TypeOK
  BY DEF BooksInv
<1> QED
  BY <1>1, BooksHold, PTL

\* However approvals, payments and changes of a settlement race, it is paid if and only if
\* the ledger holds one payment of it, of its net amount.
THEOREM PaidHasPaymentHolds ==
  ASSUME BooksAreCounted PROVE Books!Spec => []Books!PaidHasPayment
<1>1. ASSUME BooksInv, NEW s \in DOMAIN settlements
      PROVE  LET of == {p \in payments : p.settlement = s} IN
             IF settlements[s].status = "paid"
             THEN Cardinality(of) = 1 /\ \A p \in of : p.amount = settlements[s].net
             ELSE of = {}
  <2>1. PaymentOf(s)
    BY <1>1 DEF BooksInv
  <2>2. CASE settlements[s].status = "paid"
    <3>1. PICK p \in payments :
            /\ p.settlement = s /\ p.amount = settlements[s].net
            /\ \A q \in payments : q.settlement = s => q = p
      BY <2>1, <2>2 DEF PaymentOf
    <3>2. {q \in payments : q.settlement = s} = {p}
      BY <3>1
    <3>3. Cardinality({p}) = 1
      BY FS_Singleton
    <3> QED
      BY <2>2, <3>1, <3>2, <3>3
  <2>3. CASE settlements[s].status # "paid"
    BY <2>1, <2>3 DEF PaymentOf
  <2> QED
    BY <2>2, <2>3
<1>2. BooksInv => Books!PaidHasPayment
  BY <1>1, SameCardinality DEF Books!PaidHasPayment
<1> QED
  BY <1>2, BooksHold, PTL

\* Settlements of overlapping periods may read the same commission as payable: it is on
\* the lines of one of them only.
THEOREM SettledOnceHolds == ASSUME BooksAreCounted PROVE Books!Spec => []Books!SettledOnce
<1>1. BooksInv => Books!SettledOnce
  BY DEF BooksInv
<1> QED
  BY <1>1, BooksHold, PTL

\* An approval and a rejection of an expense may both have read it as pending: the ledger
\* holds its outflow exactly when the one that won approved it.
THEOREM ExpenseBookedHolds == ASSUME BooksAreCounted PROVE Books!Spec => []Books!ExpenseBooked
<1>1. BooksInv => Books!ExpenseBooked
  BY DEF BooksInv
<1> QED
  BY <1>1, BooksHold, PTL

\* The books of a closed period change only by a transaction that had written before the
\* period was closed and commits after it.
THEOREM ClosedBooksStayHolds ==
  ASSUME BooksAreCounted PROVE Books!Spec => [][Books!ClosedBooksStay]_(Books!vars)
<1>1. ASSUME BooksInv, Books!Next, NEW p \in closed, (Books!BooksOf(p))' # Books!BooksOf(p)
      PROVE  \E c \in Books!Requests : request[c].at = "commit" /\ p \notin request[c].saw
  <2> SUFFICES ASSUME NEW c \in Books!Requests,
                      \/ Books!CommitPay(c) \/ Books!CommitSettle(c)
                      \/ Books!CommitChange(c) \/ Books!CommitReview(c)
               PROVE  request[c].at = "commit" /\ p \notin request[c].saw
    <3>1. ~ \E e \in Entries : Books!Earn(e) \/ Books!Void(e)
      <4> SUFFICES ASSUME \E e \in Entries : Books!Earn(e) \/ Books!Void(e) PROVE FALSE
        OBVIOUS
      <4>1. UNCHANGED <<payments, booked>> /\ p # 1
        BY <1>1 DEF Books!Earn, Books!Void, Books!Open
      <4> QED
        BY <1>1, <4>1 DEF Books!BooksOf
    <3>2. UNCHANGED <<payments, booked, entries>> => (Books!BooksOf(p))' = Books!BooksOf(p)
      BY DEF Books!BooksOf
    <3>3. CASE \E c \in Books!Requests :
                 \/ Books!PayRead(c) \/ Books!SettleRead(c) \/ Books!ChangeRead(c)
                 \/ Books!ReviewRead(c) \/ Books!Write(c)
      BY <1>1, <3>2, <3>3
         DEF Books!PayRead, Books!SettleRead, Books!ChangeRead, Books!ReviewRead,
             Books!Write, Books!Books
    <3>4. CASE (\E x \in Expenses["books"] : Books!SubmitExpense(x))
               \/ (\E q \in Books!Periods : Books!ClosePeriod(q)) \/ Books!NextMonth
      BY <1>1, <3>2, <3>4 DEF Books!SubmitExpense, Books!ClosePeriod, Books!NextMonth
    <3> QED
      BY <1>1, <3>1, <3>3, <3>4 DEF Books!Next
  <2>1. PICK r : r = request[c]
    OBVIOUS
  <2>2. /\ r \in Books!Pending /\ r.at = "commit"
        /\ entries \in [Entries -> [status : {"pending", "earned", "paid", "voided"},
                                    settlement : Books!Requests \cup {None}]]
    BY <1>1, <2>1 DEF BooksInv, Books!TypeOK, Books!CommitPay, Books!CommitSettle,
                      Books!CommitChange, Books!CommitReview
  <2>3. (\A q \in payments' : q \in payments \/ q.period # p) /\ payments \subseteq payments'
        => {q \in payments' : q.period = p} = {q \in payments : q.period = p}
    OBVIOUS
  <2>4. \A s, net : Books!NewPayment(s, net, r.month) =>
          /\ payments \subseteq payments'
          /\ \A q \in payments' : q \in payments \/ q.period = r.month
    BY DEF Books!NewPayment
  <2>5. CASE Books!CommitPay(c)
    <3>1. r.what = "pay" /\ Books!NewPayment(c, 1, r.month) /\ UNCHANGED booked
      BY <2>1, <2>5 DEF Books!CommitPay
    <3>2. 1 \notin r.saw /\ r.month \notin r.saw
      BY <1>1, <2>1, <2>2, <3>1 DEF BooksInv, GuardHeld, Commits
    <3>3. p # 1 => r.month = p
      BY <1>1, <2>3, <2>4, <3>1 DEF Books!BooksOf
    <3> QED
      BY <2>1, <2>2, <3>2, <3>3
  <2>6. CASE Books!CommitSettle(c)
    <3>1. /\ r.what = "settle" /\ UNCHANGED booked
          /\ entries' = [e \in Entries |->
               IF e \in r.sources /\ entries[e].settlement = None
               THEN [entries[e] EXCEPT !.settlement = c] ELSE entries[e]]
          /\ IF r.to = "paid" THEN Books!NewPayment(c, Cardinality(r.sources), r.month)
             ELSE UNCHANGED payments
      BY <2>1, <2>6, SameCardinality DEF Books!CommitSettle
    <3>2. /\ \A e \in r.sources : entries[e].settlement = None => 1 \notin r.saw
          /\ r.to = "paid" => r.month \notin r.saw
      BY <1>1, <2>1, <2>2, <3>1 DEF BooksInv, GuardHeld, Commits
    <3>3. CASE entries' # entries /\ p = 1
      <4>1. PICK e \in Entries : entries'[e] # entries[e]
        BY <2>2, <3>1, <3>3
      <4> QED
        BY <2>1, <2>2, <3>1, <3>2, <3>3, <4>1
    <3>4. CASE entries' = entries \/ p # 1
      <4>1. {q \in payments' : q.period = p} # {q \in payments : q.period = p}
        BY <1>1, <3>1, <3>4 DEF Books!BooksOf
      <4>2. r.to = "paid" /\ r.month = p
        BY <2>3, <2>4, <3>1, <4>1
      <4> QED
        BY <2>1, <2>2, <3>2, <4>2
    <3> QED
      BY <3>3, <3>4
  <2>7. CASE Books!CommitChange(c)
    <3>1. /\ r.what = "change" /\ UNCHANGED <<entries, booked>>
          /\ IF r.to = "paid" THEN Books!NewPayment(r.settlement, r.read.net, r.month)
             ELSE UNCHANGED payments
      BY <2>1, <2>7 DEF Books!CommitChange
    <3>2. r.to = "paid" => r.month \notin r.saw
      BY <1>1, <2>1, <2>2, <3>1 DEF BooksInv, GuardHeld, Commits
    <3>3. r.to = "paid" /\ r.month = p
      BY <1>1, <2>3, <2>4, <3>1 DEF Books!BooksOf
    <3> QED
      BY <2>1, <2>2, <3>2, <3>3
  <2>8. CASE Books!CommitReview(c)
    <3>1. /\ r.what = "review" /\ UNCHANGED <<entries, payments>>
          /\ booked' = IF r.to = "approved" THEN booked \cup {r.expense} ELSE booked
      BY <2>1, <2>8 DEF Books!CommitReview
    <3>2. r.to = "approved" => 1 \notin r.saw
      BY <1>1, <2>1, <2>2, <3>1 DEF BooksInv, GuardHeld, Commits
    <3>3. r.to = "approved" /\ p = 1
      BY <1>1, <3>1 DEF Books!BooksOf
    <3> QED
      BY <2>1, <2>2, <3>2, <3>3
  <2> QED
    BY <2>5, <2>6, <2>7, <2>8
<1>2. BooksInv /\ [Books!Next]_(Books!vars) => [Books!ClosedBooksStay]_(Books!vars)
  BY <1>1 DEF Books!ClosedBooksStay
<1> QED
  BY <1>2, BooksHold, PTL DEF Books!Spec

-----------------------------------------------------------------------------
(***************************************************************************)
(* CashDrawer.  The till: a row of it has its columns, what a request is    *)
(* about to insert is not yet remitted, and who closed a shift has ended.  *)
(***************************************************************************)

HasColumns(r) ==
  r \in [by : {r.by}, shift : {r.shift}, type : {r.type}, amount : {r.amount},
         order : {r.order}, actor : {r.actor}, remittedBy : {r.remittedBy},
         remittedShift : {r.remittedShift}]
IsShift(w) ==
  w \in [status : {w.status}, user : {w.user}, closedBy : {w.closedBy}, opening : {w.opening},
         expected : {w.expected}, counted : {w.counted}]

TillTables ==
  /\ shifts = [s \in DOMAIN shifts |-> shifts[s]] /\ (\A s \in DOMAIN shifts : IsShift(shifts[s]))
  /\ request = [c \in Drawer!Requests |-> request[c]]
  /\ \A r \in movements : HasColumns(r) /\ r.by \in Drawer!Requests

\* A row that waits for its insertion is the request's own, and no voucher names a shipper.
NewRow(c, r) ==
  HasColumns(r) /\ r.by = c /\ r.remittedBy = None /\ (r.type = "float_in" => r.actor = None)

TillWaits ==
  \A c \in Drawer!Requests :
    /\ request[c].at = "close" => request[c].shift \in DOMAIN shifts
    /\ request[c].at \in {"insert", "post"} => NewRow(c, request[c].row)

ClosedByEnded ==
  \A s \in DOMAIN shifts : shifts[s].closedBy # None =>
    shifts[s].closedBy \in Drawer!Requests /\ request[shifts[s].closedBy] = Drawer!Done

OneOpen == \A s, t \in Drawer!OpenShifts : s = t

TillInv == TillTables /\ TillWaits /\ ClosedByEnded /\ OneOpen /\ Drawer!RemittanceIsBacked

LEMMA RowHasColumns ==
  ASSUME NEW c, NEW s, NEW t, NEW n, NEW o, NEW a
  PROVE  LET r == Drawer!Row(c, s, t, n, o, a) IN
         /\ HasColumns(r) /\ r.by = c /\ r.shift = s /\ r.type = t /\ r.actor = a
         /\ r.remittedBy = None
BY DEF Drawer!Row, HasColumns

\* A request starts with what it has read: the rows of the till stay as they are.
LEMMA RequestStarts ==
  ASSUME TillInv, NEW c \in Drawer!Requests, NEW what, request[c] = Drawer!Idle,
         Drawer!Then(c, what), UNCHANGED <<shifts, movements>>,
         what.at = "close" => what.shift \in DOMAIN shifts,
         what.at \in {"insert", "post"} => NewRow(c, what.row)
  PROVE  TillInv'
<1>1. /\ request'[c] = what /\ request' = [d \in Drawer!Requests |-> request'[d]]
      /\ \A d \in Drawer!Requests : d # c => request'[d] = request[d]
  BY DEF TillInv, TillTables, Drawer!Then
<1>2. TillTables'
  BY <1>1 DEF TillInv, TillTables
<1>3. TillWaits'
  BY <1>1 DEF TillInv, TillWaits, NewRow
<1>4. ClosedByEnded'
  BY <1>1 DEF TillInv, ClosedByEnded, Drawer!Idle, Drawer!Done
<1>5. OneOpen' /\ Drawer!RemittanceIsBacked'
  BY DEF TillInv, OneOpen, Drawer!OpenShifts, Drawer!RemittanceIsBacked, Drawer!OfType
<1> QED
  BY <1>2, <1>3, <1>4, <1>5 DEF TillInv

LEMMA TillReads ==
  ASSUME TillInv, NEW c \in Drawer!Requests,
         \/ Drawer!OpenRead(c) \/ Drawer!CloseRead(c) \/ Drawer!VoucherRead(c)
         \/ Drawer!SaleRead(c) \/ Drawer!RefundRead(c) \/ Drawer!RemitRead(c)
  PROVE  TillInv'
<1>1. \A what : Drawer!Begin(c, what) => request[c] = Drawer!Idle /\ Drawer!Then(c, what)
  BY DEF Drawer!Begin, Drawer!Fresh
<1>2. ASSUME NEW what, Drawer!Begin(c, what), what.at \notin {"close", "insert", "post"},
             UNCHANGED <<shifts, movements>>
      PROVE  TillInv'
  BY <1>1, <1>2, RequestStarts
<1>3. ASSUME NEW s, NEW t, NEW n, NEW o, NEW a, NEW at \in {"insert", "post"},
             t = "float_in" => a = None, UNCHANGED <<shifts, movements>>,
             Drawer!Begin(c, [at |-> at, row |-> Drawer!Row(c, s, t, n, o, a)])
      PROVE  TillInv'
  <2>1. PICK r : r = Drawer!Row(c, s, t, n, o, a)
    OBVIOUS
  <2>2. NewRow(c, r)
    BY <1>3, <2>1, RowHasColumns DEF NewRow
  <2>3. PICK what : what = [at |-> at, row |-> r]
    OBVIOUS
  <2>4. what.at \in {"insert", "post"} /\ what.row = r
    BY <2>3
  <2> QED
    BY <1>1, <1>3, <2>1, <2>2, <2>3, <2>4, RequestStarts
<1>4. CASE Drawer!OpenRead(c)
  <2>1. PICK u \in Drawer!Users, cash \in Opening :
          Drawer!Begin(c, [at |-> "open", user |-> u, opening |-> cash])
    BY <1>4 DEF Drawer!OpenRead
  <2> QED
    BY <1>2, <1>4, <2>1 DEF Drawer!OpenRead
<1>5. CASE Drawer!CloseRead(c)
  <2>1. PICK s \in Drawer!OpenShifts, off \in {0, Tolerance, -Tolerance - 1} :
          Drawer!Begin(c, [at |-> "close", shift |-> s, expected |-> Drawer!Expected(s),
                           counted |-> Drawer!Expected(s) + off])
    BY <1>5 DEF Drawer!CloseRead
  <2>2. PICK what : what = [at |-> "close", shift |-> s, expected |-> Drawer!Expected(s),
                            counted |-> Drawer!Expected(s) + off]
    OBVIOUS
  <2>3. what.at = "close" /\ what.shift \in DOMAIN shifts
    BY <2>2 DEF Drawer!OpenShifts
  <2> QED
    BY <1>1, <1>5, <2>1, <2>2, <2>3, RequestStarts DEF Drawer!CloseRead
<1>6. CASE Drawer!VoucherRead(c)
  <2>1. PICK s, t, amount :
          Drawer!Begin(c, [at |-> "insert", row |-> Drawer!Row(c, s, t, amount, None, None)])
    BY <1>6 DEF Drawer!VoucherRead
  <2> QED
    BY <1>3, <1>6, <2>1 DEF Drawer!VoucherRead
<1>7. CASE Drawer!SaleRead(c)
  <2>1. PICK s, n, o, a :
          Drawer!Begin(c, [at |-> "post", row |-> Drawer!Row(c, s, "sale", n, o, a)])
    BY <1>7 DEF Drawer!SaleRead
  <2>2. PICK t, at : t = "sale" /\ at = "post"
    OBVIOUS
  <2>3. /\ UNCHANGED <<shifts, movements>> /\ t # "float_in" /\ at \in {"insert", "post"}
        /\ Drawer!Begin(c, [at |-> at, row |-> Drawer!Row(c, s, t, n, o, a)])
    BY <1>7, <2>1, <2>2 DEF Drawer!SaleRead
  <2> QED
    BY <1>3, <2>3
<1>8. CASE Drawer!RefundRead(c)
  <2>1. PICK s, n, o :
          Drawer!Begin(c, [at |-> "post", row |-> Drawer!Row(c, s, "refund", n, o, None)])
    BY <1>8 DEF Drawer!RefundRead
  <2> QED
    BY <1>3, <1>8, <2>1 DEF Drawer!RefundRead
<1>9. CASE Drawer!RemitRead(c)
  <2>1. PICK s, h, held :
          Drawer!Begin(c, [at |-> "remit", shift |-> s, holder |-> h, held |-> held])
    BY <1>9 DEF Drawer!RemitRead
  <2> QED
    BY <1>2, <1>9, <2>1 DEF Drawer!RemitRead
<1> QED
  BY <1>4, <1>5, <1>6, <1>7, <1>8, <1>9

\* A request that ends: what the others wait for stays as it was.
LEMMA RequestEnds ==
  ASSUME TillInv, NEW c \in Drawer!Requests, request[c] # Drawer!Done,
         Drawer!Then(c, Drawer!Done), DOMAIN shifts \subseteq DOMAIN shifts'
  PROVE  /\ request' = [d \in Drawer!Requests |-> request'[d]] /\ TillWaits'
         /\ request'[c] = Drawer!Done
         /\ \A d \in Drawer!Requests : request[d] = Drawer!Done => request'[d] = Drawer!Done
<1>1. /\ request'[c] = Drawer!Done /\ request' = [d \in Drawer!Requests |-> request'[d]]
      /\ \A d \in Drawer!Requests : d # c => request'[d] = request[d]
  BY DEF TillInv, TillTables, Drawer!Then
<1>2. Drawer!Done.at = "done"
  BY DEF Drawer!Done
<1>3. TillWaits'
  BY <1>1, <1>2 DEF TillInv, TillWaits, NewRow
<1> QED
  BY <1>1, <1>3

LEMMA ShiftOpens ==
  ASSUME TillIsNamed, TillInv, NEW c \in Drawer!Requests, Drawer!OpenInsert(c)
  PROVE  TillInv'
<1>1. request[c].at = "open" /\ request[c] # Drawer!Done /\ Drawer!Then(c, Drawer!Done)
      /\ UNCHANGED movements
  BY DEF Drawer!OpenInsert, Drawer!Done
<1>2. CASE UNCHANGED shifts
  <2>1. /\ request' = [d \in Drawer!Requests |-> request'[d]] /\ TillWaits'
        /\ \A d \in Drawer!Requests : request[d] = Drawer!Done => request'[d] = Drawer!Done
    BY <1>1, <1>2, RequestEnds
  <2> QED
    BY <1>1, <1>2, <2>1 DEF TillInv, TillTables, ClosedByEnded, OneOpen, Drawer!OpenShifts,
                            Drawer!RemittanceIsBacked, Drawer!OfType
<1>3. CASE ~ UNCHANGED shifts
  <2>1. PICK s, w :
          /\ w = [status |-> "open", user |-> request[c].user, closedBy |-> None,
                  opening |-> request[c].opening, expected |-> 0, counted |-> 0]
          /\ shifts' = [t \in DOMAIN shifts \cup {s} |-> IF t # s THEN shifts[t] ELSE w]
          /\ Drawer!OpenShifts = {} /\ s \notin DOMAIN shifts
    BY <1>3 DEF Drawer!OpenInsert
  <2>2. IsShift(w) /\ w.closedBy = None
    BY <2>1 DEF IsShift
  <2>3. /\ DOMAIN shifts' = DOMAIN shifts \cup {s} /\ shifts'[s] = w
        /\ \A t \in DOMAIN shifts : shifts'[t] = shifts[t]
        /\ shifts' = [t \in DOMAIN shifts' |-> shifts'[t]]
    BY <2>1
  <2>4. /\ request' = [d \in Drawer!Requests |-> request'[d]] /\ TillWaits'
        /\ \A d \in Drawer!Requests : request[d] = Drawer!Done => request'[d] = Drawer!Done
    BY <1>1, <2>3, RequestEnds
  <2>5. TillTables'
    BY <1>1, <2>2, <2>3, <2>4 DEF TillInv, TillTables
  <2>6. ClosedByEnded'
    BY <2>2, <2>3, <2>4 DEF TillInv, ClosedByEnded
  <2>7. OneOpen'
    <3>1. \A t \in Drawer!OpenShifts' : t = s
      BY <2>1, <2>3 DEF Drawer!OpenShifts
    <3> QED
      BY <3>1 DEF OneOpen
  <2>8. Drawer!RemittanceIsBacked'
    BY <1>1 DEF TillInv, Drawer!RemittanceIsBacked, Drawer!OfType
  <2> QED
    BY <2>4, <2>5, <2>6, <2>7, <2>8 DEF TillInv
<1> QED
  BY <1>2, <1>3

\* Closing a shift: the row as it is after it.
LEMMA ShiftCloses ==
  ASSUME TillInv, NEW c \in Drawer!Requests, Drawer!CloseBatch(c)
  PROVE  /\ DOMAIN shifts' = DOMAIN shifts /\ shifts' = [t \in DOMAIN shifts |-> shifts'[t]]
         /\ \A s \in DOMAIN shifts :
              \/ shifts'[s] = shifts[s]
              \/ /\ s = request[c].shift /\ shifts[s].status = "open"
                 /\ IsShift(shifts'[s]) /\ shifts'[s].status = "closed"
                 /\ shifts'[s].closedBy = c
<1>1. PICK s : s = request[c].shift
  OBVIOUS
<1>2. s \in DOMAIN shifts
  BY <1>1 DEF TillInv, TillWaits, Drawer!CloseBatch
<1>3. PICK w : w = [shifts[s] EXCEPT !.status = "closed", !.expected = request[c].expected,
                                     !.counted = request[c].counted, !.closedBy = c]
  OBVIOUS
<1>4. IsShift(w) /\ w.status = "closed" /\ w.closedBy = c
  <2>1. IsShift(shifts[s])
    BY <1>2 DEF TillInv, TillTables
  <2>2. w \in [status : {"closed"}, user : {shifts[s].user}, closedBy : {c},
               opening : {shifts[s].opening}, expected : {request[c].expected},
               counted : {request[c].counted}]
    BY <1>3, <2>1 DEF IsShift
  <2> QED
    BY <2>2 DEF IsShift
<1>5. shifts = [t \in DOMAIN shifts |-> shifts[t]]
  BY DEF TillInv, TillTables
<1>7. Drawer!Closed(c) = [shifts EXCEPT ![s] = w]
  BY <1>1, <1>3 DEF Drawer!Closed
<1>8. CASE Drawer!CloseWins(c)
  <2>1. shifts' = [shifts EXCEPT ![s] = w]
    BY <1>7, <1>8 DEF Drawer!CloseBatch
  <2> QED
    BY <1>1, <1>2, <1>4, <1>5, <1>8, <2>1 DEF Drawer!CloseWins
<1>9. CASE ~ Drawer!CloseWins(c)
  BY <1>5, <1>9 DEF Drawer!CloseBatch
<1> QED
  BY <1>8, <1>9

LEMMA ShiftCloseStep ==
  ASSUME TillInv, NEW c \in Drawer!Requests, Drawer!CloseBatch(c)
  PROVE  TillInv'
<1>1. request[c] # Drawer!Done /\ Drawer!Then(c, Drawer!Done) /\ UNCHANGED movements
  BY DEF Drawer!CloseBatch, Drawer!Done
<1>2. /\ DOMAIN shifts' = DOMAIN shifts /\ shifts' = [t \in DOMAIN shifts |-> shifts'[t]]
      /\ \A s \in DOMAIN shifts :
           \/ shifts'[s] = shifts[s]
           \/ /\ IsShift(shifts'[s]) /\ shifts'[s].status = "closed"
              /\ shifts'[s].closedBy = c
  BY ShiftCloses
<1>3. /\ request' = [d \in Drawer!Requests |-> request'[d]] /\ TillWaits'
      /\ request'[c] = Drawer!Done
      /\ \A d \in Drawer!Requests : request[d] = Drawer!Done => request'[d] = Drawer!Done
  BY <1>1, <1>2, RequestEnds
<1>4. TillTables'
  BY <1>1, <1>2, <1>3 DEF TillInv, TillTables
<1>5. ClosedByEnded'
  BY <1>2, <1>3 DEF TillInv, ClosedByEnded
<1>6. OneOpen'
  <2>1. Drawer!OpenShifts' \subseteq Drawer!OpenShifts
    BY <1>2 DEF Drawer!OpenShifts
  <2> QED
    BY <2>1 DEF TillInv, OneOpen
<1>7. Drawer!RemittanceIsBacked'
  BY <1>1 DEF TillInv, Drawer!RemittanceIsBacked, Drawer!OfType
<1> QED
  BY <1>3, <1>4, <1>5, <1>6, <1>7 DEF TillInv

LEMMA VoucherStep ==
  ASSUME TillInv, NEW c \in Drawer!Requests, Drawer!VoucherInsert(c)
  PROVE  TillInv'
<1>1. PICK r, what :
        /\ r = request[c].row
        /\ what = IF r.shift \in Drawer!OpenShifts THEN [at |-> "post", row |-> r] ELSE Drawer!Done
  OBVIOUS
<1>2. NewRow(c, r)
  BY <1>1 DEF TillInv, TillWaits, Drawer!VoucherInsert
<1>3. what.at \in {"post", "done"} /\ (what.at = "post" => what.row = r)
      /\ request[c].at = "insert" /\ request[c] # Drawer!Done
  BY <1>1 DEF Drawer!Done, Drawer!VoucherInsert
<1>4. /\ request'[c] = what /\ request' = [d \in Drawer!Requests |-> request'[d]]
      /\ \A d \in Drawer!Requests : d # c => request'[d] = request[d]
      /\ UNCHANGED <<shifts, movements>>
  BY <1>1 DEF TillInv, TillTables, Drawer!Then, Drawer!VoucherInsert
<1>5. TillTables'
  BY <1>4 DEF TillInv, TillTables
<1>6. TillWaits'
  BY <1>2, <1>3, <1>4 DEF TillInv, TillWaits, NewRow
<1>7. ClosedByEnded'
  BY <1>3, <1>4 DEF TillInv, ClosedByEnded
<1>8. OneOpen' /\ Drawer!RemittanceIsBacked'
  BY <1>4 DEF TillInv, OneOpen, Drawer!OpenShifts, Drawer!RemittanceIsBacked, Drawer!OfType
<1> QED
  BY <1>5, <1>6, <1>7, <1>8 DEF TillInv

LEMMA PostStep ==
  ASSUME TillIsNamed, TillInv, NEW c \in Drawer!Requests, Drawer!Post(c)
  PROVE  TillInv'
<1>1. PICK row : row = request[c].row
  OBVIOUS
<1>2. NewRow(c, row) /\ request[c] # Drawer!Done /\ Drawer!Then(c, Drawer!Done)
      /\ UNCHANGED shifts
  BY <1>1 DEF TillInv, TillWaits, Drawer!Post, Drawer!Done
<1>3. movements \subseteq movements' /\ \A r \in movements' : r \in movements \/ r = row
  BY <1>1 DEF Drawer!Post
<1>4. /\ request' = [d \in Drawer!Requests |-> request'[d]] /\ TillWaits'
      /\ \A d \in Drawer!Requests : request[d] = Drawer!Done => request'[d] = Drawer!Done
  BY <1>2, RequestEnds
<1>5. TillTables'
  BY <1>2, <1>3, <1>4 DEF TillInv, TillTables, NewRow
<1>6. ClosedByEnded' /\ OneOpen'
  BY <1>2, <1>4 DEF TillInv, ClosedByEnded, OneOpen, Drawer!OpenShifts
<1>7. Drawer!RemittanceIsBacked'
  BY <1>2, <1>3 DEF TillIsNamed, TillInv, NewRow, Drawer!RemittanceIsBacked, Drawer!OfType
<1> QED
  BY <1>4, <1>5, <1>6, <1>7 DEF TillInv

\* The sales a shipper hands over are marked with the request, and one float_in comes in.
LEMMA RemitStep ==
  ASSUME TillIsNamed, TillInv, NEW c \in Drawer!Requests, Drawer!RemitBatch(c)
  PROVE  TillInv'
<1>1. PICK h, s, f, Given, Marks :
        /\ h = request[c].holder /\ s = request[c].shift /\ f = Drawer!FloatIn(c)
        /\ Given = Drawer!Held(h) /\ Marks = Drawer!Remitted(c)
  OBVIOUS
<1>2. request[c] # Drawer!Done /\ Drawer!Then(c, Drawer!Done) /\ UNCHANGED shifts
  BY DEF Drawer!RemitBatch, Drawer!Done
<1>3. movements' = IF Given = {} THEN movements ELSE (movements \ Given) \cup Marks \cup {f}
  BY <1>1 DEF Drawer!RemitBatch
<1>4. /\ request' = [d \in Drawer!Requests |-> request'[d]] /\ TillWaits'
      /\ \A d \in Drawer!Requests : request[d] = Drawer!Done => request'[d] = Drawer!Done
  BY <1>2, RequestEnds
<1>5. \A r \in Given : /\ r \in movements /\ r.actor = h /\ r.type = "sale"
                       /\ r.remittedBy = None /\ HasColumns(r) /\ r.by \in Drawer!Requests
  BY <1>1 DEF TillInv, TillTables, Drawer!Held
<1>6. /\ HasColumns(f) /\ f.by = c /\ f.shift = s /\ f.type = "float_in" /\ f.actor = h
      /\ f.remittedBy = None
  BY <1>1, RowHasColumns DEF Drawer!FloatIn
<1>7. ASSUME NEW r \in Given
      PROVE  LET m == [r EXCEPT !.remittedBy = c, !.remittedShift = s] IN
             /\ HasColumns(m) /\ m.by = r.by /\ m.type = "sale" /\ m.actor = h
             /\ m.remittedBy = c /\ m.remittedShift = s
  <2>1. HasColumns(r)
    BY <1>5
  <2>2. PICK m : m = [r EXCEPT !.remittedBy = c, !.remittedShift = s]
    OBVIOUS
  <2>3. m \in [by : {r.by}, shift : {r.shift}, type : {r.type}, amount : {r.amount},
               order : {r.order}, actor : {r.actor}, remittedBy : {c}, remittedShift : {s}]
    BY <2>1, <2>2 DEF HasColumns
  <2>4. /\ HasColumns(m) /\ m.by = r.by /\ m.type = r.type /\ m.actor = r.actor
        /\ m.remittedBy = c /\ m.remittedShift = s
    BY <2>3 DEF HasColumns
  <2> QED
    BY <1>5, <2>2, <2>4
<1>8. /\ Marks = {[r EXCEPT !.remittedBy = c, !.remittedShift = s] : r \in Given}
  BY <1>1 DEF Drawer!Remitted
<1>9. \A m \in Marks : /\ HasColumns(m) /\ m.by \in Drawer!Requests /\ m.type = "sale"
                       /\ m.actor = h /\ m.remittedBy = c /\ m.remittedShift = s
  BY <1>5, <1>7, <1>8
<1>10. Given # {} => Marks # {}
  BY <1>8
<1>11. TillTables'
  BY <1>2, <1>3, <1>4, <1>6, <1>9 DEF TillInv, TillTables
<1>12. ClosedByEnded' /\ OneOpen'
  BY <1>2, <1>4 DEF TillInv, ClosedByEnded, OneOpen, Drawer!OpenShifts
<1>13. Drawer!RemittanceIsBacked'
  <2>1. CASE Given = {}
    BY <1>3, <2>1 DEF TillInv, Drawer!RemittanceIsBacked, Drawer!OfType
  <2>2. CASE Given # {}
    <3>1. movements' = (movements \ Given) \cup Marks \cup {f}
      BY <1>3, <2>2
    <3>2. \A g \in movements : g.type = "float_in" => g \in movements'
      BY <1>5, <3>1
    <3>3. ASSUME NEW r \in movements', r.remittedBy # None
          PROVE  \E g \in movements' : /\ g.type = "float_in" /\ g.by = r.remittedBy
                                       /\ g.shift = r.remittedShift /\ g.actor = r.actor
      <4>1. CASE r \in Marks
        BY <1>6, <1>9, <3>1, <4>1
      <4>2. CASE r \in movements
        BY <3>2, <3>3, <4>2 DEF TillInv, Drawer!RemittanceIsBacked, Drawer!OfType
      <4> QED
        BY <1>6, <3>1, <3>3, <4>1, <4>2
    <3>4. ASSUME NEW g \in movements', g.type = "float_in", g.actor \in Shippers["drawer"]
          PROVE  \E r \in movements' : r.remittedBy = g.by
      <4>1. CASE g = f
        BY <1>6, <1>9, <1>10, <2>2, <3>1, <4>1
      <4>2. CASE g \in movements
        <5>1. PICK r \in movements : r.remittedBy = g.by
          BY <3>4, <4>2 DEF TillInv, Drawer!RemittanceIsBacked, Drawer!OfType
        <5>2. r \notin Given
          BY <1>5, <4>2, <5>1 DEF TillIsNamed, TillInv, TillTables
        <5> QED
          BY <3>1, <5>1, <5>2
      <4> QED
        BY <1>9, <3>1, <3>4, <4>1, <4>2
    <3> QED
      BY <3>3, <3>4 DEF Drawer!RemittanceIsBacked, Drawer!OfType
  <2> QED
    BY <2>1, <2>2
<1> QED
  BY <1>4, <1>11, <1>12, <1>13 DEF TillInv

LEMMA TillStarts == TillIsNamed /\ Drawer!Init => TillInv
<1> SUFFICES ASSUME TillIsNamed, Drawer!Init PROVE TillInv
  OBVIOUS
<1>1. /\ movements = {} /\ request = [c \in Drawer!Requests |-> Drawer!Idle]
      /\ \A c \in Drawer!Requests : request[c].at = "idle"
  BY DEF Drawer!Init, Drawer!Idle
<1>2. /\ shifts = [s \in DOMAIN shifts |-> shifts[s]]
      /\ \A s \in DOMAIN shifts : IsShift(shifts[s]) /\ shifts[s].closedBy = None
      /\ \A s, t \in DOMAIN shifts : s = t
  <2>1. CASE shifts = <<>>
    BY <2>1
  <2>2. CASE shifts # <<>>
    <3>1. PICK t \in Shifts, u \in Staff["drawer"], cash \in Opening :
            shifts = [s \in {t} |-> [status |-> "open", user |-> u, closedBy |-> None,
                                    opening |-> cash, expected |-> 0, counted |-> 0]]
      BY <2>2 DEF Drawer!Init
    <3>2. PICK w : w = [status |-> "open", user |-> u, closedBy |-> None, opening |-> cash,
                        expected |-> 0, counted |-> 0]
      OBVIOUS
    <3>3. IsShift(w) /\ w.closedBy = None /\ shifts = [s \in {t} |-> w]
      BY <3>1, <3>2 DEF IsShift
    <3> QED
      BY <3>3
  <2> QED
    BY <2>1, <2>2
<1>3. TillTables /\ TillWaits /\ ClosedByEnded
  BY <1>1, <1>2 DEF TillTables, TillWaits, ClosedByEnded
<1>4. OneOpen
  BY <1>2 DEF OneOpen, Drawer!OpenShifts
<1>5. Drawer!RemittanceIsBacked
  BY <1>1 DEF Drawer!RemittanceIsBacked, Drawer!OfType
<1> QED
  BY <1>3, <1>4, <1>5 DEF TillInv

LEMMA TillHolds == ASSUME TillIsNamed PROVE Drawer!Spec => []TillInv
<1>1. Drawer!Init => TillInv
  BY TillStarts
<1>2. TillInv /\ [Drawer!Next]_(Drawer!vars) => TillInv'
  <2> SUFFICES ASSUME TillInv, [Drawer!Next]_(Drawer!vars) PROVE TillInv'
    OBVIOUS
  <2>1. CASE UNCHANGED Drawer!vars
    BY <2>1 DEF Drawer!vars, TillInv, TillTables, TillWaits, ClosedByEnded, OneOpen,
                Drawer!OpenShifts, Drawer!RemittanceIsBacked, Drawer!OfType
  <2> QED
    BY <2>1, TillReads, ShiftOpens, ShiftCloseStep, VoucherStep, PostStep, RemitStep
       DEF Drawer!Next
<1> QED
  BY <1>1, <1>2, PTL DEF Drawer!Spec

\* Two clerks may both have seen no open shift: one is open at a time.
THEOREM OneOpenShiftHolds == ASSUME TillIsNamed PROVE Drawer!Spec => []Drawer!OneOpenShift
<1>1. TillInv => Drawer!OneOpenShift
  <2> SUFFICES ASSUME TillInv PROVE Drawer!Cardinality(Drawer!OpenShifts) <= 1
    BY DEF Drawer!OneOpenShift
  <2>1. \A S : Drawer!Cardinality(S) = Cardinality(S)
    BY DEF Drawer!Cardinality, Cardinality
  <2>2. \A s, t \in Drawer!OpenShifts : s = t
    BY DEF TillInv, OneOpen
  <2>3. CASE Drawer!OpenShifts = {}
    BY <2>1, <2>3, FS_EmptySet
  <2>4. CASE Drawer!OpenShifts # {}
    <3>1. PICK s : Drawer!OpenShifts = {s}
      BY <2>2, <2>4
    <3>2. Cardinality({s}) = 1
      BY FS_Singleton
    <3> QED
      BY <2>1, <3>1, <3>2
  <2> QED
    BY <2>3, <2>4
<1> QED
  BY <1>1, TillHolds, PTL

\* However remittances and new deliveries interleave, a sale that is marked as remitted came
\* into the shift it names with a float_in, and no shipper's float_in stands without a sale.
THEOREM RemittanceIsBackedHolds ==
  ASSUME TillIsNamed PROVE Drawer!Spec => []Drawer!RemittanceIsBacked
<1>1. TillInv => Drawer!RemittanceIsBacked
  BY DEF TillInv
<1> QED
  BY <1>1, TillHolds, PTL

\* The figures of a closed shift are final, and the clerk who lost raises no alert.
THEOREM ClosedShiftIsFinal ==
  ASSUME TillIsNamed PROVE Drawer!Spec => [][Drawer!ClosedIsFinal]_(Drawer!vars)
<1>1. ASSUME TillIsNamed, TillInv, Drawer!Next, NEW s \in DOMAIN shifts,
             shifts[s].status = "closed"
      PROVE  shifts'[s] = shifts[s] /\ (s \in alerts' <=> s \in alerts)
  <2>1. PICK c \in Drawer!Requests :
          \/ Drawer!OpenInsert(c) \/ Drawer!CloseBatch(c)
          \/ UNCHANGED <<shifts, alerts>>
    BY <1>1 DEF Drawer!Next, Drawer!OpenRead, Drawer!CloseRead, Drawer!VoucherRead,
                Drawer!VoucherInsert, Drawer!SaleRead, Drawer!RefundRead, Drawer!Post,
                Drawer!RemitRead, Drawer!RemitBatch
  <2>2. CASE Drawer!OpenInsert(c)
    BY <1>1, <2>2 DEF Drawer!OpenInsert
  <2>3. CASE Drawer!CloseBatch(c)
    <3>1. shifts'[s] = shifts[s]
      BY <1>1, <2>3, ShiftCloses
    <3>2. s = request[c].shift => shifts[s].closedBy # c
      BY <1>1, <2>3 DEF TillIsNamed, TillInv, ClosedByEnded, Drawer!CloseBatch, Drawer!Done
    <3> QED
      BY <2>3, <3>1, <3>2 DEF Drawer!CloseBatch
  <2> QED
    BY <2>1, <2>2, <2>3
<1>2. TillInv /\ [Drawer!Next]_(Drawer!vars) => [Drawer!ClosedIsFinal]_(Drawer!vars)
  BY <1>1 DEF Drawer!ClosedIsFinal
<1> QED
  BY <1>2, TillHolds, PTL DEF Drawer!Spec

-----------------------------------------------------------------------------
(***************************************************************************)
(* GroupRooms.  What a finalisation carries from one statement to the next: *)
(* the order it made, and that the room is linked to it.                    *)
(***************************************************************************)

OrderOf(c, dishes) == \E o \in orders : o.id = c /\ o.lines = dishes

RoomWaits ==
  \A c \in Group!Requests :
    /\ request[c].at \in {"link", "reward"} => OrderOf(c, request[c].lines)
    /\ request[c].at = "reward" => room.order = c

RoomInv ==
  /\ room \in Group!Room /\ items \in Group!Lines /\ request \in [Group!Requests -> Group!Pending]
  /\ RoomWaits
  /\ \A o, p \in orders : o = p
  /\ room.order # None => \E o \in orders : o.id = room.order
  /\ \A w \in reward : w.order \in Group!Requests
  /\ Group!RewardMatchesOrder

LEMMA LinesAreFunctions ==
  ASSUME NEW f \in Group!Lines
  PROVE  f \in [DOMAIN f -> Group!Item] /\ DOMAIN f \subseteq Guests
BY DEF Group!Lines

\* A request that waits for the room: what it holds while it does.
LEMMA WaitingShape ==
  ASSUME NEW r \in Group!Pending
  PROVE  /\ r.at \in {"check", "insert"} => r.name \in Guests /\ r.host \in BOOLEAN
         /\ r.at \in {"create", "link", "reward"} => r.lines \in Group!Lines
         /\ r.at = "check" => /\ [r EXCEPT !.at = "insert"] \in Group!Pending
                              /\ [r EXCEPT !.at = "insert"].at = "insert"
         /\ r.at = "create" => /\ [r EXCEPT !.at = "link"] \in Group!Pending
                               /\ [r EXCEPT !.at = "link"].at = "link"
                               /\ [r EXCEPT !.at = "link"].lines = r.lines
         /\ r.at = "link" => /\ [r EXCEPT !.at = "reward"] \in Group!Pending
                             /\ [r EXCEPT !.at = "reward"].at = "reward"
                             /\ [r EXCEPT !.at = "reward"].lines = r.lines
<1> DEFINE Enters == [at : {"check", "insert"}, name : Guests, host : BOOLEAN]
           Ends == [at : {"create", "link", "reward"}, lines : Group!Lines]
<1>1. CASE r \in Enters
  <2>1. [r EXCEPT !.at = "insert"] \in Enters /\ [r EXCEPT !.at = "insert"].at = "insert"
    BY <1>1
  <2> QED
    BY <1>1, <2>1 DEF Group!Pending
<1>2. CASE r \in Ends
  <2>1. ASSUME NEW at \in {"link", "reward"}
        PROVE  /\ [r EXCEPT !.at = at] \in Ends /\ [r EXCEPT !.at = at].at = at
               /\ [r EXCEPT !.at = at].lines = r.lines
    BY <1>2
  <2>2. Ends \subseteq Group!Pending /\ r.at \in {"create", "link", "reward"}
        /\ r.lines \in Group!Lines
    BY <1>2 DEF Group!Pending
  <2> HIDE DEF Ends
  <2> QED
    BY <2>1, <2>2
<1>3. CASE r \in {Group!Idle, Group!Done, Group!Refused}
  BY <1>3 DEF Group!Idle, Group!Done, Group!Refused
<1> QED
  BY <1>1, <1>2, <1>3 DEF Group!Pending

\* A step of a request that makes no order and links none.
LEMMA RequestMoves ==
  ASSUME RoomInv, NEW c \in Group!Requests, NEW what \in Group!Pending,
         Group!Then(c, what), items' \in Group!Lines, UNCHANGED <<room, orders, reward>>,
         what.at \notin {"link", "reward"}
  PROVE  RoomInv'
<1>1. /\ request' \in [Group!Requests -> Group!Pending] /\ request'[c] = what
      /\ \A d \in Group!Requests : d # c => request'[d] = request[d]
  BY DEF RoomInv, Group!Then
<1>2. RoomWaits'
  BY <1>1 DEF RoomInv, RoomWaits, OrderOf
<1>3. Group!RewardMatchesOrder'
  BY DEF RoomInv, Group!RewardMatchesOrder
<1> QED
  BY <1>1, <1>2, <1>3 DEF RoomInv

LEMMA GuestsStep ==
  ASSUME RoomInv, NEW c \in Group!Requests,
         \/ Group!AddItemRead(c) \/ Group!AddItemCheck(c) \/ Group!AddItemInsert(c)
         \/ Group!FinalizeRead(c) \/ Group!Crash(c)
  PROVE  RoomInv'
<1>1. /\ request[c] \in Group!Pending /\ items \in Group!Lines
      /\ Group!Done \in Group!Pending /\ Group!Refused \in Group!Pending
      /\ Group!Done.at = "done" /\ Group!Refused.at = "refused"
  BY DEF RoomInv, Group!Pending, Group!Done, Group!Refused
<1>2. CASE Group!AddItemRead(c)
  <2>1. PICK g \in Guests, h \in BOOLEAN :
          Group!Then(c, [at |-> "check", name |-> g, host |-> h])
    BY <1>2 DEF Group!AddItemRead, Group!Begin
  <2>2. PICK what : what = [at |-> "check", name |-> g, host |-> h]
    OBVIOUS
  <2>3. what \in Group!Pending /\ what.at = "check"
    BY <2>2 DEF Group!Pending
  <2> QED
    BY <1>1, <1>2, <2>1, <2>2, <2>3, RequestMoves DEF Group!AddItemRead
<1>3. CASE Group!AddItemCheck(c)
  <2>1. PICK what : what = IF Group!Taking THEN [request[c] EXCEPT !.at = "insert"] ELSE Group!Refused
    OBVIOUS
  <2>2. what \in Group!Pending /\ what.at \in {"insert", "refused"}
    BY <1>1, <1>3, <2>1, WaitingShape DEF Group!AddItemCheck
  <2> QED
    BY <1>1, <1>3, <2>1, <2>2, RequestMoves DEF Group!AddItemCheck
<1>4. CASE Group!AddItemInsert(c)
  <2>1. /\ request[c].name \in Guests /\ request[c].host \in BOOLEAN
        /\ items' = [g \in DOMAIN items \cup {request[c].name} |->
             IF g = request[c].name THEN [host |-> request[c].host] ELSE items[g]]
    BY <1>1, <1>4, WaitingShape DEF Group!AddItemInsert
  <2>2. PICK S, i : S = DOMAIN items \cup {request[c].name} /\ i = [host |-> request[c].host]
    OBVIOUS
  <2>3. i \in Group!Item /\ S \in SUBSET Guests
    BY <1>1, <2>1, <2>2, LinesAreFunctions DEF Group!Item
  <2>4. items' \in [S -> Group!Item]
    BY <1>1, <2>1, <2>2, <2>3, LinesAreFunctions
  <2>5. items' \in Group!Lines
    BY <2>3, <2>4 DEF Group!Lines
  <2> QED
    BY <1>1, <1>4, <2>5, RequestMoves DEF Group!AddItemInsert
<1>5. CASE Group!FinalizeRead(c)
  <2>1. PICK what : what = [at |-> "create", lines |-> items]
    OBVIOUS
  <2>2. what \in Group!Pending /\ what.at = "create"
    BY <1>1, <2>1 DEF Group!Pending
  <2> QED
    BY <1>1, <1>5, <2>1, <2>2, RequestMoves DEF Group!FinalizeRead, Group!Begin
<1>6. CASE Group!Crash(c)
  BY <1>1, <1>6, RequestMoves DEF Group!Crash
<1> QED
  BY <1>2, <1>3, <1>4, <1>5, <1>6

LEMMA CreateStep ==
  ASSUME RoomInv, NEW c \in Group!Requests, Group!FinalizeCreate(c)
  PROVE  RoomInv'
<1>1. /\ request[c] \in Group!Pending /\ request[c].at = "create" /\ items \in Group!Lines
      /\ UNCHANGED <<room, items, reward>>
      /\ Group!Refused \in Group!Pending /\ Group!Refused.at = "refused"
  BY DEF RoomInv, Group!Pending, Group!Refused, Group!FinalizeCreate
<1>2. CASE Group!Then(c, Group!Refused) /\ UNCHANGED orders
  BY <1>1, <1>2, RequestMoves
<1>3. CASE ~ (Group!Then(c, Group!Refused) /\ UNCHANGED orders)
  <2>1. PICK what, made : /\ what = [request[c] EXCEPT !.at = "link"]
                          /\ made = [id |-> c, lines |-> request[c].lines]
    OBVIOUS
  <2>2. orders = {} /\ orders' = {made} /\ Group!Then(c, what)
    BY <1>3, <2>1 DEF Group!FinalizeCreate, Group!FreshReference
  <2>3. what \in Group!Pending /\ what.at = "link" /\ what.lines = request[c].lines
    BY <1>1, <2>1, WaitingShape
  <2>4. /\ request' \in [Group!Requests -> Group!Pending] /\ request'[c] = what
        /\ \A d \in Group!Requests : d # c => request'[d] = request[d]
    BY <2>2, <2>3 DEF RoomInv, Group!Then
  <2>5. reward = {} /\ room.order = None
    BY <2>2 DEF RoomInv, Group!RewardMatchesOrder
  <2>6. \A d \in Group!Requests : request[d].at \notin {"link", "reward"}
    BY <2>2 DEF RoomInv, RoomWaits, OrderOf
  <2>7. RoomWaits'
    BY <2>1, <2>2, <2>3, <2>4, <2>6 DEF RoomWaits, OrderOf
  <2>8. Group!RewardMatchesOrder'
    BY <1>1, <2>5 DEF Group!RewardMatchesOrder
  <2> QED
    BY <1>1, <2>2, <2>4, <2>5, <2>7, <2>8 DEF RoomInv
<1> QED
  BY <1>2, <1>3

LEMMA LinkStep ==
  ASSUME RoomIsNamed, RoomInv, NEW c \in Group!Requests, Group!FinalizeLink(c)
  PROVE  RoomInv'
<1>1. /\ request[c] \in Group!Pending /\ request[c].at = "link" /\ room \in Group!Room
      /\ items \in Group!Lines /\ UNCHANGED <<items, orders, reward>>
      /\ Group!Refused \in Group!Pending /\ Group!Refused.at = "refused"
  BY DEF RoomInv, Group!Pending, Group!Refused, Group!FinalizeLink
<1>2. CASE room.order # None
  BY <1>1, <1>2, RequestMoves DEF Group!FinalizeLink
<1>3. CASE room.order = None
  <2>1. PICK what : what = [request[c] EXCEPT !.at = "reward"]
    OBVIOUS
  <2>2. what \in Group!Pending /\ what.at = "reward" /\ what.lines = request[c].lines
    BY <1>1, <2>1, WaitingShape
  <2>3. room' = [room EXCEPT !.status = "locked", !.order = c] /\ Group!Then(c, what)
    BY <1>3, <2>1 DEF Group!FinalizeLink
  <2>4. /\ request' \in [Group!Requests -> Group!Pending] /\ request'[c] = what
        /\ \A d \in Group!Requests : d # c => request'[d] = request[d]
    BY <2>2, <2>3 DEF RoomInv, Group!Then
  <2>5. room' \in Group!Room /\ room'.order = c
    BY <1>1, <2>3 DEF Group!Room
  <2>6. OrderOf(c, request[c].lines)
    BY <1>1 DEF RoomInv, RoomWaits
  <2>7. \A d \in Group!Requests : request[d].at # "reward"
    BY <1>3 DEF RoomIsNamed, RoomInv, RoomWaits
  <2>8. RoomWaits'
    BY <1>1, <2>2, <2>4, <2>5, <2>6, <2>7 DEF RoomInv, RoomWaits, OrderOf
  <2>9. reward = {}
    BY <1>3 DEF RoomIsNamed, RoomInv, Group!RewardMatchesOrder
  <2>10. Group!RewardMatchesOrder'
    BY <1>1, <2>9 DEF Group!RewardMatchesOrder
  <2> QED
    BY <1>1, <2>4, <2>5, <2>6, <2>8, <2>10 DEF RoomInv, OrderOf
<1> QED
  BY <1>2, <1>3

LEMMA RewardStep ==
  ASSUME RoomInv, NEW c \in Group!Requests, Group!FinalizeReward(c)
  PROVE  RoomInv'
<1>1. PICK dishes : dishes = request[c].lines
  OBVIOUS
<1>2. /\ OrderOf(c, dishes) /\ room.order = c /\ UNCHANGED <<room, items, orders>>
      /\ Group!Done \in Group!Pending /\ Group!Done.at = "done"
  BY <1>1 DEF RoomInv, RoomWaits, Group!FinalizeReward, Group!Pending, Group!Done
<1>3. /\ request' \in [Group!Requests -> Group!Pending] /\ request'[c] = Group!Done
      /\ \A d \in Group!Requests : d # c => request'[d] = request[d]
  BY <1>2 DEF RoomInv, Group!FinalizeReward, Group!Then
<1>4. RoomWaits'
  BY <1>2, <1>3 DEF RoomInv, RoomWaits, OrderOf
<1>5. \A w \in reward' : w \in reward \/ /\ w = [order |-> c, base |-> Group!hostCommissionBase(dishes)]
                                         /\ Group!participantCount(dishes) >= MinPeople
  BY <1>1 DEF Group!FinalizeReward
<1>6. \A w \in reward' : w \notin reward =>
        /\ w.order = c /\ w.base = Group!hostCommissionBase(dishes)
        /\ Group!participantCount(dishes) >= MinPeople
  BY <1>5
<1>7. Group!RewardMatchesOrder'
  <2> SUFFICES ASSUME NEW w \in reward'
               PROVE  \E o \in orders :
                        /\ o.id = w.order /\ room.order = w.order
                        /\ Group!Cardinality(DOMAIN o.lines) >= MinPeople
                        /\ w.base = Group!Cardinality({g \in DOMAIN o.lines : ~o.lines[g].host})
    BY <1>2 DEF Group!RewardMatchesOrder
  <2>1. CASE w \in reward
    BY <2>1 DEF RoomInv, Group!RewardMatchesOrder
  <2>2. CASE w \notin reward
    <3>1. PICK o \in orders : o.id = c /\ o.lines = dishes
      BY <1>2 DEF OrderOf
    <3> QED
      BY <1>2, <1>6, <2>2, <3>1 DEF Group!hostCommissionBase, Group!participantCount
  <2> QED
    BY <2>1, <2>2
<1> QED
  BY <1>2, <1>3, <1>4, <1>6, <1>7 DEF RoomInv

LEMMA RoomStep ==
  ASSUME RoomInv, Group!Start \/ Group!TimeUp \/ Group!Sweep \/ UNCHANGED Group!vars
  PROVE  RoomInv'
<1>1. UNCHANGED <<items, orders, reward, request>> /\ room \in Group!Room
  BY DEF RoomInv, Group!Start, Group!TimeUp, Group!Sweep, Group!vars
<1>2. room' \in Group!Room /\ room'.order = room.order
  BY <1>1 DEF Group!Start, Group!TimeUp, Group!Sweep, Group!vars, Group!Room
<1>3. RoomWaits' /\ Group!RewardMatchesOrder'
  BY <1>1, <1>2 DEF RoomInv, RoomWaits, OrderOf, Group!RewardMatchesOrder
<1> QED
  BY <1>1, <1>2, <1>3 DEF RoomInv

LEMMA RoomHolds == ASSUME RoomIsNamed PROVE Group!Spec => []RoomInv
<1>1. Group!Init => RoomInv
  <2> SUFFICES ASSUME Group!Init PROVE RoomInv
    OBVIOUS
  <2>1. /\ orders = {} /\ reward = {} /\ request \in [Group!Requests -> Group!Pending]
        /\ \A c \in Group!Requests : request[c].at = "idle"
    BY DEF Group!Init, Group!Idle, Group!Pending
  <2>2. room \in Group!Room /\ room.order = None
    <3>1. PICK w \in BOOLEAN :
            room = [status |-> "open", waiting |-> w, late |-> FALSE, order |-> None]
      BY Zenon DEF Group!Init
    <3> QED
      BY <3>1 DEF Group!Room
  <2>3. items \in Group!Lines
    <3>1. items \in [{} -> Group!Item]
      BY DEF Group!Init
    <3> QED
      BY <3>1 DEF Group!Lines
  <2>4. RoomWaits /\ Group!RewardMatchesOrder
    BY <2>1 DEF RoomWaits, Group!RewardMatchesOrder
  <2> QED
    BY <2>1, <2>2, <2>3, <2>4 DEF RoomInv
<1>2. RoomInv /\ [Group!Next]_(Group!vars) => RoomInv'
  BY GuestsStep, CreateStep, LinkStep, RewardStep, RoomStep DEF Group!Next
<1> QED
  BY <1>1, <1>2, PTL DEF Group!Spec

\* The host presses the button twice and requests die between two statements: the room has
\* one order at most, and it is the one it is linked to.
THEOREM OneOrderPerRoomHolds == ASSUME RoomIsNamed PROVE Group!Spec => []Group!OneOrderPerRoom
<1>1. RoomInv => Group!OneOrderPerRoom
  <2> SUFFICES ASSUME RoomInv PROVE Group!Cardinality(orders) <= 1
    BY DEF RoomInv, Group!OneOrderPerRoom
  <2>1. \A S : Group!Cardinality(S) = Cardinality(S)
    BY DEF Group!Cardinality, Cardinality
  <2>2. CASE orders = {}
    BY <2>1, <2>2, FS_EmptySet
  <2>3. CASE orders # {}
    <3>1. PICK o : orders = {o}
      BY <2>3 DEF RoomInv
    <3>2. Cardinality({o}) = 1
      BY FS_Singleton
    <3> QED
      BY <2>1, <3>1, <3>2
  <2> QED
    BY <2>2, <2>3
<1> QED
  BY <1>1, RoomHolds, PTL

\* The reward of the host is that of the dishes of the others in the order of the room.
THEOREM RewardMatchesOrderHolds ==
  ASSUME RoomIsNamed PROVE Group!Spec => []Group!RewardMatchesOrder
<1>1. RoomInv => Group!RewardMatchesOrder
  BY DEF RoomInv
<1> QED
  BY <1>1, RoomHolds, PTL

-----------------------------------------------------------------------------
(***************************************************************************)
(* Storefront.  Why a cart makes one order per visit: every request of it  *)
(* in flight, and the order if there is one, carry the reference that the  *)
(* page shows, and the server takes a reference once.                      *)
(***************************************************************************)

PageState == [cart : 0..MaxCarts, step : {"cart", "details", "payment"},
              reference : 0..MaxReferences, placing : BOOLEAN,
              active : Shop!Active \cup {None}, visit : 1..MaxVisits]
Asked == [reference : Shop!References, cart : 1..MaxCarts, visit : 1..MaxVisits, bank : BOOLEAN,
          answer : {"none", "created", "refused"}, waiting : BOOLEAN]
Poll == [kind : {"payment", "tracking"},
         on : Shop!References \X (Shop!PageStatuses \cup PaymentStatuses),
         seen : [status : OrderStatuses, payment : PaymentStatuses] \cup {None}]

\* The cart c of the visit v was sent under the reference r.
SentAs(r, c, v) ==
  \/ orders[r] # None /\ orders[r].cart = c /\ orders[r].visit = v
  \/ \E p \in posts : p.reference = r /\ p.cart = c /\ p.visit = v

OneReference ==
  \A r, s \in Shop!References, c \in 1..MaxCarts, v \in 1..MaxVisits :
    SentAs(r, c, v) /\ SentAs(s, c, v) => r = s

\* What was sent is not of a later visit, and the cart on the page keeps its reference.
PageGoesOn ==
  \A r \in Shop!References, c \in 1..MaxCarts, v \in 1..MaxVisits : SentAs(r, c, v) =>
    /\ v <= page.visit
    /\ v = page.visit /\ c = page.cart => r = page.reference

\* An answer that tells of a new order is the only one of its order, which the page lacks.
AnsweredOnce ==
  /\ \A p \in posts : p.answer = "created" =>
       /\ orders[p.reference] # None
       /\ page.active # None => page.active.reference # p.reference
  /\ \A p, q \in posts :
       p.answer = "created" /\ q.answer = "created" /\ p.reference = q.reference => p = q

\* A poll is about an order that exists; the tracking of an ended order is not asked for.
PollsFollow ==
  /\ page.active # None => orders[page.active.reference] # None
  /\ \A p \in polls : /\ orders[p.on[1]] # None
                      /\ p.kind = "tracking" => p.on[2] \notin Shop!Ended

ShopInv ==
  /\ page \in PageState /\ posts \subseteq Asked /\ polls \subseteq Poll
  /\ orders \in [Shop!References -> Shop!OrderRow \cup {None}]
  /\ OneReference /\ PageGoesOn /\ AnsweredOnce /\ PollsFollow

LEMMA PageTypes ==
  ASSUME ShopIsBounded, ShopInv
  PROVE  /\ page.cart \in 0..MaxCarts /\ page.visit \in 1..MaxVisits
         /\ page.reference \in 0..MaxReferences /\ page.active \in Shop!Active \cup {None}
         /\ \A r \in Shop!References : orders[r] # None =>
              /\ orders[r] \in Shop!OrderRow
              /\ orders[r].cart \in 1..MaxCarts /\ orders[r].visit \in 1..MaxVisits
              /\ orders[r].status \in OrderStatuses /\ orders[r].payment \in PaymentStatuses
         /\ page.active # None => /\ page.active.reference \in Shop!References
                                  /\ page.active.status \in Shop!PageStatuses
                                  /\ page.active.payment \in PaymentStatuses
BY DEF ShopIsBounded, ShopInv, PageState, Shop!OrderRow, Shop!Active, OrderStatuses, PaymentStatuses

\* The page changes, and neither its order, nor what was sent, nor the orders.
LEMMA PageMoves ==
  ASSUME ShopInv, page' \in PageState, UNCHANGED <<posts, polls, orders>>,
         page'.active = page.active, page'.visit = page.visit,
         \A r \in Shop!References, c \in 1..MaxCarts, v \in 1..MaxVisits :
           SentAs(r, c, v) /\ v = page.visit /\ c = page'.cart => r = page'.reference
  PROVE  ShopInv'
<1>1. OneReference'
  BY DEF ShopInv, OneReference, SentAs
<1>2. PageGoesOn'
  BY DEF ShopInv, PageGoesOn, SentAs
<1>3. AnsweredOnce' /\ PollsFollow'
  BY DEF ShopInv, AnsweredOnce, PollsFollow
<1> QED
  BY <1>1, <1>2, <1>3 DEF ShopInv

\* A cart that is filled again has a number no order and no request has.
LEMMA NextCartIsNew ==
  ASSUME ShopIsBounded, ShopInv
  PROVE  /\ Shop!LastCart \in 0..MaxCarts
         /\ \A r \in Shop!References, c \in 1..MaxCarts, v \in 1..MaxVisits :
              SentAs(r, c, v) => c <= Shop!LastCart
<1>1. Shop!Carts \subseteq 0..MaxCarts
  BY PageTypes DEF ShopIsBounded, ShopInv, Asked, Shop!Carts
<1>2. PICK T : T = {MaxCarts - c : c \in Shop!Carts}
  OBVIOUS
<1>3. T \subseteq Nat /\ T # {}
  <2>1. \A c \in Shop!Carts : MaxCarts - c \in Nat
    BY <1>1 DEF ShopIsBounded
  <2>2. page.cart \in Shop!Carts
    BY DEF Shop!Carts
  <2> QED
    BY <1>2, <2>1, <2>2
<1>4. PICK x \in T : \A y \in T : x <= y
  BY <1>3, LeastOfNaturals
<1>5. PICK d \in Shop!Carts : x = MaxCarts - d
  BY <1>2, <1>4
<1>6. \A c \in Shop!Carts : c <= d
  <2> SUFFICES ASSUME NEW c \in Shop!Carts PROVE c <= d
    OBVIOUS
  <2>1. x <= MaxCarts - c
    BY <1>2, <1>4
  <2> QED
    BY <1>1, <1>5, <2>1 DEF ShopIsBounded
<1>7. Shop!LastCart \in Shop!Carts /\ \A c \in Shop!Carts : c <= Shop!LastCart
  BY <1>5, <1>6 DEF Shop!LastCart
<1>8. \A r \in Shop!References, c \in 1..MaxCarts, v \in 1..MaxVisits :
        SentAs(r, c, v) => c \in Shop!Carts
  BY DEF SentAs, Shop!Carts
<1> QED
  BY <1>1, <1>7, <1>8

LEMMA CartStep ==
  ASSUME ShopIsBounded, ShopInv, Shop!AddItem \/ Shop!RemoveItems \/ Shop!Back
  PROVE  ShopInv'
<1>1. page \in PageState /\ MaxCarts \in Nat
  BY DEF ShopIsBounded, ShopInv
<1>2. CASE Shop!AddItem
  <2>1. Shop!LastCart + 1 \in 1..MaxCarts
    BY <1>1, <1>2, NextCartIsNew DEF Shop!AddItem
  <2>2. /\ page' = [page EXCEPT !.cart = Shop!LastCart + 1]
        /\ UNCHANGED <<posts, polls, orders>>
    BY <1>2 DEF Shop!AddItem
  <2>3. /\ page' \in PageState /\ page'.cart = Shop!LastCart + 1
        /\ page'.active = page.active /\ page'.visit = page.visit
    BY <1>1, <2>1, <2>2 DEF PageState
  <2>4. \A r \in Shop!References, c \in 1..MaxCarts, v \in 1..MaxVisits :
          SentAs(r, c, v) => c # page'.cart
    BY <1>1, <2>3, NextCartIsNew
  <2> QED
    BY <2>2, <2>3, <2>4, PageMoves
<1>3. CASE Shop!RemoveItems
  <2>1. /\ page' = [page EXCEPT !.cart = 0]
        /\ UNCHANGED <<posts, polls, orders>>
    BY <1>3 DEF Shop!RemoveItems
  <2>2. /\ page' \in PageState /\ page'.cart = 0
        /\ page'.active = page.active /\ page'.visit = page.visit
    BY <1>1, <2>1 DEF PageState
  <2> QED
    BY <1>1, <2>1, <2>2, PageMoves
<1>4. CASE Shop!Back
  <2>1. UNCHANGED <<posts, polls, orders>>
        /\ page' = [page EXCEPT !.step = IF @ = "payment" THEN "details" ELSE "cart"]
    BY <1>4 DEF Shop!Back
  <2>2. /\ page' \in PageState /\ page'.cart = page.cart /\ page'.reference = page.reference
        /\ page'.active = page.active /\ page'.visit = page.visit
    BY <1>1, <2>1 DEF PageState
  <2> QED
    BY <2>1, <2>2, PageMoves DEF ShopInv, PageGoesOn
<1> QED
  BY <1>2, <1>3, <1>4

LEMMA FreshIsReference ==
  ASSUME ShopIsBounded, Shop!Unused # {}
  PROVE  Shop!Fresh \in Shop!References
<1>1. Shop!Unused \subseteq Nat /\ Shop!Unused \subseteq Shop!References
  BY DEF ShopIsBounded, Shop!Unused, Shop!References
<1>2. PICK x \in Shop!Unused : \A y \in Shop!Unused : x <= y
  BY <1>1, LeastOfNaturals
<1> QED
  BY <1>1, <1>2 DEF Shop!Fresh

LEMMA CheckoutStep ==
  ASSUME ShopIsBounded, ShopInv, Shop!continueCheckout
  PROVE  ShopInv'
<1>1. page \in PageState /\ MaxReferences \in Nat
  BY DEF ShopIsBounded, ShopInv
<1>2. CASE page' = [page EXCEPT !.step = "details"] /\ UNCHANGED <<posts, polls, orders>>
  <2>1. /\ page' \in PageState /\ page'.cart = page.cart /\ page'.reference = page.reference
        /\ page'.active = page.active /\ page'.visit = page.visit
    BY <1>1, <1>2 DEF PageState
  <2> QED
    BY <1>2, <2>1, PageMoves DEF ShopInv, PageGoesOn
<1>3. CASE /\ page.reference # 0 \/ Shop!Unused # {}
           /\ page' = [page EXCEPT !.step = "payment", !.reference = Shop!Reference(@)]
           /\ UNCHANGED <<posts, polls, orders>>
  <2>1. PICK r : r = Shop!Reference(page.reference)
    OBVIOUS
  <2>2. r \in 1..MaxReferences /\ (page.reference # 0 => r = page.reference)
    BY <1>1, <1>3, <2>1, FreshIsReference DEF Shop!Reference, Shop!References, PageState
  <2>3. page' = [page EXCEPT !.step = "payment", !.reference = r] /\ r \in 0..MaxReferences
    BY <1>1, <1>3, <2>1, <2>2 DEF PageState
  <2>4. /\ page' \in PageState /\ page'.cart = page.cart /\ page'.reference = r
        /\ page'.active = page.active /\ page'.visit = page.visit
    BY <1>1, <2>2, <2>3 DEF PageState
  <2>5. \A s \in Shop!References, c \in 1..MaxCarts, v \in 1..MaxVisits :
          SentAs(s, c, v) /\ v = page.visit /\ c = page.cart => s = page.reference /\ s # 0
    BY <1>1 DEF ShopInv, PageGoesOn, Shop!References
  <2> QED
    BY <1>3, <2>2, <2>4, <2>5, PageMoves
<1> QED
  BY <1>2, <1>3 DEF Shop!continueCheckout

LEMMA PlaceStep ==
  ASSUME ShopIsBounded, ShopInv, Shop!placeOrder
  PROVE  ShopInv'
<1>1. PICK bank \in BOOLEAN :
        posts' = posts \cup {[reference |-> page.reference, cart |-> page.cart,
                              visit |-> page.visit, bank |-> bank, answer |-> "none",
                              waiting |-> TRUE]}
  BY DEF Shop!placeOrder
<1>2. PICK p : p = [reference |-> page.reference, cart |-> page.cart, visit |-> page.visit,
                    bank |-> bank, answer |-> "none", waiting |-> TRUE]
  OBVIOUS
<1>3. /\ page.reference # 0 /\ page.cart # 0 /\ page' = [page EXCEPT !.placing = TRUE]
      /\ UNCHANGED <<polls, orders>> /\ posts' = posts \cup {p}
  BY <1>1, <1>2 DEF Shop!placeOrder
<1>4. /\ p \in Asked /\ p.reference = page.reference /\ p.cart = page.cart
      /\ p.visit = page.visit /\ p.answer = "none"
  BY <1>2, <1>3, PageTypes DEF ShopIsBounded, Asked, Shop!References
<1>5. /\ page' \in PageState /\ page'.cart = page.cart /\ page'.reference = page.reference
      /\ page'.active = page.active /\ page'.visit = page.visit
  BY <1>3 DEF ShopInv, PageState
<1>6. \A r, c, v : SentAs(r, c, v)' =>
        SentAs(r, c, v) \/ (r = page.reference /\ c = page.cart /\ v = page.visit)
  BY <1>3, <1>4 DEF SentAs
<1>7. OneReference'
  <2> SUFFICES ASSUME NEW r \in Shop!References, NEW s \in Shop!References,
                      NEW c \in 1..MaxCarts, NEW v \in 1..MaxVisits,
                      SentAs(r, c, v)', SentAs(s, c, v)'
               PROVE  r = s
    BY DEF OneReference
  <2>1. /\ SentAs(r, c, v) \/ (r = page.reference /\ c = page.cart /\ v = page.visit)
        /\ SentAs(s, c, v) \/ (s = page.reference /\ c = page.cart /\ v = page.visit)
    BY <1>6
  <2> QED
    BY <2>1 DEF ShopInv, OneReference, PageGoesOn
<1>8. PageGoesOn'
  <2> SUFFICES ASSUME NEW r \in Shop!References, NEW c \in 1..MaxCarts,
                      NEW v \in 1..MaxVisits, SentAs(r, c, v)'
               PROVE  v <= page.visit /\ (v = page.visit /\ c = page.cart => r = page.reference)
    BY <1>5 DEF PageGoesOn
  <2>1. SentAs(r, c, v) \/ (r = page.reference /\ c = page.cart /\ v = page.visit)
    BY <1>6
  <2>2. page.visit <= page.visit
    BY PageTypes DEF ShopIsBounded
  <2> QED
    BY <2>1, <2>2 DEF ShopInv, PageGoesOn
<1>9. AnsweredOnce' /\ PollsFollow'
  BY <1>3, <1>4, <1>5 DEF ShopInv, AnsweredOnce, PollsFollow
<1> QED
  BY <1>3, <1>4, <1>5, <1>7, <1>8, <1>9 DEF ShopInv

\* The server answers a request: it makes the order or refuses, and may refuse anything.
LEMMA CreateOrderStep ==
  ASSUME ShopIsBounded, ShopInv, NEW p \in posts, Shop!Create(p)
  PROVE  ShopInv'
<1>1. p \in Asked /\ p.reference \in Shop!References /\ p.answer = "none"
      /\ p.cart \in 1..MaxCarts /\ p.visit \in 1..MaxVisits /\ p.bank \in BOOLEAN
      /\ UNCHANGED <<page, polls>>
  BY DEF ShopInv, Asked, Shop!Create
<1>2. ASSUME NEW a \in {"created", "refused"}
      PROVE  LET q == [p EXCEPT !.answer = a] IN
             /\ q \in Asked /\ q.answer = a /\ q.reference = p.reference
             /\ q.cart = p.cart /\ q.visit = p.visit
  BY <1>1 DEF Asked
<1>3. CASE posts' = (posts \ {p}) \cup {[p EXCEPT !.answer = "refused"]} /\ UNCHANGED orders
  <2>1. PICK q : q = [p EXCEPT !.answer = "refused"]
    OBVIOUS
  <2>2. /\ q \in Asked /\ q.answer = "refused" /\ q.reference = p.reference
        /\ q.cart = p.cart /\ q.visit = p.visit /\ posts' = (posts \ {p}) \cup {q}
    BY <1>2, <1>3, <2>1
  <2>3. \A r, c, v : SentAs(r, c, v)' => SentAs(r, c, v)
    BY <1>3, <2>2 DEF SentAs
  <2>4. OneReference' /\ PageGoesOn'
    BY <1>1, <2>3 DEF ShopInv, OneReference, PageGoesOn
  <2>5. AnsweredOnce'
    BY <1>1, <1>3, <2>2 DEF ShopInv, AnsweredOnce
  <2>6. PollsFollow'
    BY <1>1, <1>3 DEF ShopInv, PollsFollow
  <2> QED
    BY <1>1, <1>3, <2>2, <2>4, <2>5, <2>6 DEF ShopInv
<1>4. CASE ~ (posts' = (posts \ {p}) \cup {[p EXCEPT !.answer = "refused"]} /\ UNCHANGED orders)
  <2>1. PICK q, o : /\ q = [p EXCEPT !.answer = "created"]
                    /\ o = [cart |-> p.cart, visit |-> p.visit, bank |-> p.bank,
                            status |-> "new", payment |-> "pending"]
    OBVIOUS
  <2>2. /\ orders[p.reference] = None /\ orders' = [orders EXCEPT ![p.reference] = o]
        /\ posts' = (posts \ {p}) \cup {q}
    BY <1>4, <2>1 DEF Shop!Create, Shop!Taken
  <2>3. /\ q \in Asked /\ q.answer = "created" /\ q.reference = p.reference
        /\ q.cart = p.cart /\ q.visit = p.visit
    BY <1>2, <2>1
  <2>4. o \in Shop!OrderRow /\ o # None /\ o.cart = p.cart /\ o.visit = p.visit
    BY <1>1, <2>1 DEF ShopIsBounded, Shop!OrderRow
  <2>5. /\ orders' \in [Shop!References -> Shop!OrderRow \cup {None}]
        /\ orders'[p.reference] = o
        /\ \A r \in Shop!References : r # p.reference => orders'[r] = orders[r]
    BY <1>1, <2>2, <2>4 DEF ShopInv
  <2>6. \A r \in Shop!References : \A c, v : SentAs(r, c, v)' => SentAs(r, c, v)
    BY <2>2, <2>3, <2>4, <2>5 DEF SentAs
  <2>7. OneReference' /\ PageGoesOn'
    BY <1>1, <2>6 DEF ShopInv, OneReference, PageGoesOn
  <2>8. \A r \in Shop!References : orders[r] # None => orders'[r] # None /\ r # p.reference
    BY <2>2, <2>5
  <2>9. \A t \in posts : t.reference \in Shop!References
    BY DEF ShopInv, Asked
  <2>10. page.active # None => page.active.reference \in Shop!References
    BY PageTypes
  <2>11. AnsweredOnce'
    <3>1. \A t \in posts' : t.answer = "created" => t = q \/
            (t \in posts /\ t.reference # q.reference /\ orders'[t.reference] # None)
      BY <2>2, <2>3, <2>8, <2>9 DEF ShopInv, AnsweredOnce
    <3>2. page.active # None => page.active.reference # q.reference
      BY <2>3, <2>8, <2>10 DEF ShopInv, PollsFollow
    <3>3. \A t \in posts' : t.answer = "created" =>
            orders'[t.reference] # None /\ (page.active # None => page.active.reference # t.reference)
      BY <2>3, <2>4, <2>5, <3>1, <3>2 DEF ShopInv, AnsweredOnce
    <3>4. \A s, t \in posts' :
            s.answer = "created" /\ t.answer = "created" /\ s.reference = t.reference => s = t
      BY <3>1 DEF ShopInv, AnsweredOnce
    <3> QED
      BY <1>1, <3>3, <3>4 DEF AnsweredOnce
  <2>12. PollsFollow'
    <3>1. \A t \in polls : t.on[1] \in Shop!References
      BY DEF ShopInv, Poll
    <3> QED
      BY <1>1, <2>8, <2>10, <3>1 DEF ShopInv, PollsFollow
  <2> QED
    BY <1>1, <2>2, <2>3, <2>5, <2>7, <2>11, <2>12 DEF ShopInv
<1> QED
  BY <1>3, <1>4

\* The answer reaches the page, or the connection breaks.
LEMMA AnswerStep ==
  ASSUME ShopIsBounded, ShopInv, NEW p \in posts, Shop!Answer(p)
  PROVE  ShopInv'
<1>1. /\ p \in Asked /\ p.reference \in Shop!References /\ p.bank \in BOOLEAN
      /\ page \in PageState /\ UNCHANGED <<polls, orders>> /\ posts' = posts \ {p}
  BY DEF ShopInv, Asked, Shop!Answer
<1>2. \A r, c, v : SentAs(r, c, v)' => SentAs(r, c, v)
  BY <1>1 DEF SentAs
<1>3. OneReference'
  BY <1>2 DEF ShopInv, OneReference
<1>4. CASE p.answer # "created"
  <2>1. page' = [page EXCEPT !.placing = FALSE]
    BY <1>4 DEF Shop!Answer
  <2>2. /\ page' \in PageState /\ page'.cart = page.cart /\ page'.reference = page.reference
        /\ page'.active = page.active /\ page'.visit = page.visit
    BY <1>1, <2>1 DEF PageState
  <2>3. PageGoesOn'
    BY <1>2, <2>2 DEF ShopInv, PageGoesOn
  <2>4. AnsweredOnce' /\ PollsFollow'
    BY <1>1, <2>2 DEF ShopInv, AnsweredOnce, PollsFollow
  <2> QED
    BY <1>1, <1>3, <2>2, <2>3, <2>4 DEF ShopInv
<1>5. CASE p.answer = "created"
  <2>1. PICK a : a = [reference |-> p.reference, bank |-> p.bank, payment |-> "pending",
                      status |-> IF p.bank THEN "confirmed" ELSE "preparing"]
    OBVIOUS
  <2>2. a \in Shop!Active /\ a # None /\ a.reference = p.reference
    BY <1>1, <2>1 DEF ShopIsBounded, Shop!Active, Shop!PageStatuses
  <2>3. PICK b : b = [cart |-> 0, step |-> "cart", reference |-> 0, placing |-> FALSE,
                      active |-> a, visit |-> page.visit]
    OBVIOUS
  <2>4. page' = [b EXCEPT !.step = page.step]
    BY <1>5, <2>1, <2>3 DEF Shop!Answer, Shop!Blank
  <2>5. /\ page' \in PageState /\ page'.cart = 0 /\ page'.active = a
        /\ page'.visit = page.visit
    <3>1. b \in PageState /\ b.cart = 0 /\ b.active = a /\ b.visit = page.visit
      BY <1>1, <2>2, <2>3 DEF ShopIsBounded, PageState
    <3> QED
      BY <1>1, <2>4, <3>1 DEF PageState
  <2>6. PageGoesOn'
    BY <1>2, <2>5 DEF ShopInv, PageGoesOn
  <2>7. AnsweredOnce'
    BY <1>1, <1>5, <2>2, <2>5 DEF ShopInv, AnsweredOnce
  <2>8. PollsFollow'
    BY <1>1, <1>5, <2>2, <2>5 DEF ShopInv, AnsweredOnce, PollsFollow
  <2> QED
    BY <1>1, <1>3, <2>5, <2>6, <2>7, <2>8 DEF ShopInv
<1> QED
  BY <1>4, <1>5

\* Requests that are no longer waited for are requests as they were.
LEMMA Forgotten ==
  ASSUME ShopInv, NEW p \in posts
  PROVE  LET q == [p EXCEPT !.waiting = FALSE] IN
         /\ q \in Asked /\ q.answer = p.answer /\ q.reference = p.reference
         /\ q.cart = p.cart /\ q.visit = p.visit
BY DEF ShopInv, Asked

LEMMA LoseStep ==
  ASSUME ShopIsBounded, ShopInv, NEW p \in posts, Shop!Lose(p)
  PROVE  ShopInv'
<1>1. /\ page \in PageState /\ UNCHANGED <<polls, orders>>
      /\ page' = [page EXCEPT !.placing = FALSE]
      /\ posts' = (posts \ {p}) \cup {q \in {[p EXCEPT !.waiting = FALSE]} : p.answer = "none"}
  BY DEF ShopInv, Shop!Lose
<1>2. PICK q : q = [p EXCEPT !.waiting = FALSE]
  OBVIOUS
<1>3. /\ q \in Asked /\ q.answer = p.answer /\ q.reference = p.reference
      /\ q.cart = p.cart /\ q.visit = p.visit
  BY <1>2, Forgotten
<1>4. \A t \in posts' : t \in posts \/ (t = q /\ t.answer = "none")
  BY <1>1, <1>2, <1>3
<1>5. /\ page' \in PageState /\ page'.cart = page.cart /\ page'.reference = page.reference
      /\ page'.active = page.active /\ page'.visit = page.visit
  BY <1>1 DEF PageState
<1>6. \A r, c, v : SentAs(r, c, v)' => SentAs(r, c, v)
  BY <1>1, <1>3, <1>4 DEF SentAs
<1>7. OneReference' /\ PageGoesOn'
  BY <1>5, <1>6 DEF ShopInv, OneReference, PageGoesOn
<1>8. AnsweredOnce' /\ PollsFollow'
  BY <1>1, <1>3, <1>4, <1>5 DEF ShopInv, AnsweredOnce, PollsFollow
<1> QED
  BY <1>1, <1>3, <1>4, <1>5, <1>7, <1>8 DEF ShopInv

LEMMA ReloadStep ==
  ASSUME ShopIsBounded, ShopInv, Shop!Reload
  PROVE  ShopInv'
<1>1. /\ page \in PageState /\ page.visit < MaxVisits /\ UNCHANGED orders /\ polls' = {}
      /\ page' = Shop!Blank(page.cart, page.active, page.visit + 1)
      /\ posts' = {[p EXCEPT !.waiting = FALSE] : p \in {q \in posts : q.answer = "none"}}
  BY DEF ShopInv, Shop!Reload
<1>2. \A t \in posts' : /\ t \in Asked /\ t.answer = "none"
                        /\ \E p \in posts : /\ p.reference = t.reference /\ p.cart = t.cart
                                            /\ p.visit = t.visit
  <2> SUFFICES ASSUME NEW t \in posts'
               PROVE  /\ t \in Asked /\ t.answer = "none"
                      /\ \E p \in posts : /\ p.reference = t.reference /\ p.cart = t.cart
                                          /\ p.visit = t.visit
    OBVIOUS
  <2>1. PICK p \in posts : p.answer = "none" /\ t = [p EXCEPT !.waiting = FALSE]
    BY <1>1
  <2> QED
    BY <2>1, Forgotten
<1>3. page.visit \in 1..MaxVisits /\ page.visit + 1 \in 1..MaxVisits
  BY <1>1, PageTypes DEF ShopIsBounded
<1>4. PICK new : new = [cart |-> page.cart, step |-> "cart", reference |-> 0, placing |-> FALSE,
                        active |-> page.active, visit |-> page.visit + 1]
  OBVIOUS
<1>5. page' = new
  BY <1>1, <1>4 DEF Shop!Blank
<1>6. page' \in PageState /\ page'.active = page.active /\ page'.visit = page.visit + 1
  <2>1. /\ page.cart \in 0..MaxCarts /\ page.active \in Shop!Active \cup {None}
        /\ 0 \in 0..MaxReferences
    BY PageTypes DEF ShopIsBounded
  <2>2. new \in PageState
    BY <1>3, <1>4, <2>1 DEF PageState
  <2> QED
    BY <1>4, <1>5, <2>2
<1>7. \A r, c, v : SentAs(r, c, v)' => SentAs(r, c, v)
  BY <1>1, <1>2 DEF SentAs
<1>8. OneReference'
  BY <1>7 DEF ShopInv, OneReference
<1>9. PageGoesOn'
  <2> SUFFICES ASSUME NEW r \in Shop!References, NEW c \in 1..MaxCarts,
                      NEW v \in 1..MaxVisits, SentAs(r, c, v)
               PROVE  v <= page'.visit /\ v # page'.visit
    BY <1>7 DEF PageGoesOn
  <2>1. v <= page.visit
    BY DEF ShopInv, PageGoesOn
  <2> QED
    BY <1>3, <1>6, <2>1 DEF ShopIsBounded
<1>10. AnsweredOnce' /\ PollsFollow'
  BY <1>1, <1>2, <1>6 DEF ShopInv, AnsweredOnce, PollsFollow
<1> QED
  BY <1>1, <1>2, <1>6, <1>8, <1>9, <1>10 DEF ShopInv

\* The polls ask, read and are forgotten: the page and the orders stay as they are.
LEMMA PollStep ==
  ASSUME ShopIsBounded, ShopInv,
         \/ \E kind \in {"payment", "tracking"} : Shop!Ask(kind)
         \/ \E poll \in polls : Shop!Read(poll) \/ Shop!Miss(poll)
  PROVE  ShopInv'
<1>1. UNCHANGED <<page, posts, orders>>
  BY DEF Shop!Ask, Shop!Read, Shop!Miss
<1>2. \A q \in polls' : \/ q \in polls
                        \/ /\ q \in Poll /\ orders[q.on[1]] # None
                           /\ q.kind = "tracking" => q.on[2] \notin Shop!Ended
  <2>1. ASSUME NEW kind \in {"payment", "tracking"}, Shop!Ask(kind), NEW q \in polls', q \notin polls
        PROVE  /\ q \in Poll /\ orders[q.on[1]] # None
               /\ q.kind = "tracking" => q.on[2] \notin Shop!Ended
    <3>1. PICK what : what = IF kind = "payment" THEN page.active.payment ELSE page.active.status
      OBVIOUS
    <3>2. PICK on : on = <<page.active.reference, what>>
      OBVIOUS
    <3>3. page.active # None /\ q = [kind |-> kind, on |-> on, seen |-> None]
      BY <2>1, <3>1, <3>2 DEF Shop!Ask, Shop!Polled, Shop!Dependency
    <3>4. what \in Shop!PageStatuses \cup PaymentStatuses
          /\ page.active.reference \in Shop!References
      BY <3>1, <3>3, PageTypes
    <3>5. on \in Shop!References \X (Shop!PageStatuses \cup PaymentStatuses)
          /\ on[1] = page.active.reference /\ on[2] = what
      BY <3>2, <3>4
    <3>6. kind = "tracking" => what \notin Shop!Ended
      BY <2>1, <3>1 DEF Shop!Ask, Shop!Polled
    <3>7. q \in Poll /\ q.kind = kind /\ q.on = on
      BY <3>3, <3>5 DEF Poll
    <3> QED
      BY <3>3, <3>5, <3>6, <3>7 DEF ShopInv, PollsFollow
  <2>2. ASSUME NEW poll \in polls, Shop!Read(poll), NEW q \in polls', q \notin polls
        PROVE  /\ q \in Poll /\ orders[q.on[1]] # None
               /\ q.kind = "tracking" => q.on[2] \notin Shop!Ended
    <3>1. /\ poll \in Poll /\ orders[poll.on[1]] # None /\ poll.on[1] \in Shop!References
          /\ poll.kind = "tracking" => poll.on[2] \notin Shop!Ended
      BY DEF ShopInv, PollsFollow, Poll
    <3>2. PICK seen : seen = [status |-> orders[poll.on[1]].status,
                              payment |-> orders[poll.on[1]].payment]
      OBVIOUS
    <3>3. seen \in [status : OrderStatuses, payment : PaymentStatuses]
      BY <3>1, <3>2, PageTypes
    <3>4. q = [poll EXCEPT !.seen = seen]
      BY <2>2, <3>2 DEF Shop!Read
    <3>5. q \in Poll /\ q.kind = poll.kind /\ q.on = poll.on
      BY <3>1, <3>3, <3>4 DEF Poll
    <3> QED
      BY <3>1, <3>5
  <2>3. ASSUME NEW poll \in polls, Shop!Miss(poll) PROVE polls' \subseteq polls
    BY <2>3 DEF Shop!Miss
  <2> QED
    BY <2>1, <2>2, <2>3
<1>3. OneReference' /\ PageGoesOn' /\ AnsweredOnce'
  BY <1>1 DEF ShopInv, OneReference, PageGoesOn, AnsweredOnce, SentAs
<1>4. PollsFollow' /\ polls' \subseteq Poll
  BY <1>1, <1>2 DEF ShopInv, PollsFollow
<1> QED
  BY <1>1, <1>3, <1>4 DEF ShopInv

\* What an answer that is not dropped makes of the order on the page: an end stays.
LEMMA UpdateShape ==
  ASSUME ShopIsBounded, ShopInv, NEW poll \in polls, poll.seen # None, page.active # None,
         ~ Shop!Dropped(poll)
  PROVE  LET new == Shop!Update(page.active, poll) IN
         /\ new \in Shop!Active /\ new.reference = page.active.reference
         /\ page.active.status \in Shop!Ended => new.status = page.active.status
<1>1. PICK a, new : a = page.active /\ new = Shop!Update(a, poll)
  OBVIOUS
<1>2. a \in Shop!Active /\ a.status \in Shop!PageStatuses
  BY <1>1, PageTypes
<1>3. /\ poll.seen.payment \in PaymentStatuses /\ poll.seen.status \in OrderStatuses
      /\ poll.kind \in {"payment", "tracking"}
      /\ poll.kind = "tracking" => poll.on[2] \notin Shop!Ended
  BY DEF ShopInv, Poll, PollsFollow
<1>4. Shop!Shown(poll.seen.status) \in Shop!PageStatuses
  BY DEF Shop!Shown, Shop!PageStatuses
<1>5. PICK st : st = IF poll.kind = "payment"
                     THEN IF poll.seen.payment = "paid" /\ a.status = "confirmed"
                          THEN "preparing" ELSE a.status
                     ELSE Shop!Shown(poll.seen.status)
  OBVIOUS
<1>6. st \in Shop!PageStatuses
  BY <1>2, <1>4, <1>5 DEF Shop!PageStatuses
<1>7. new = [a EXCEPT !.payment = poll.seen.payment, !.status = st]
  <2>1. CASE poll.kind = "payment"
    BY <1>1, <1>2, <1>5, <2>1 DEF Shop!Update, Shop!Active
  <2>2. CASE poll.kind # "payment"
    BY <1>1, <1>5, <2>2 DEF Shop!Update
  <2> QED
    BY <2>1, <2>2
<1>8. new \in Shop!Active /\ new.reference = a.reference /\ new.status = st
  BY <1>2, <1>3, <1>6, <1>7 DEF Shop!Active, PaymentStatuses
<1>9. a.status \in Shop!Ended => st = a.status
  <2>1. CASE poll.kind = "payment"
    BY <1>5, <2>1 DEF Shop!Ended
  <2>2. CASE poll.kind = "tracking"
    <3>1. poll.on = <<a.reference, a.status>>
      BY <1>1, <2>2 DEF Shop!Dropped, Shop!Dependency
    <3>2. poll.on[2] = a.status
      BY <3>1
    <3> QED
      BY <1>3, <2>2, <3>2
  <2> QED
    BY <1>3, <2>1, <2>2
<1> QED
  BY <1>1, <1>8, <1>9

LEMMA ArriveStep ==
  ASSUME ShopIsBounded, ShopInv, NEW poll \in polls, Shop!Arrive(poll)
  PROVE  /\ ShopInv'
         /\ page.active # None /\ page.active.status \in Shop!Ended =>
              page'.active.status = page.active.status
<1>1. /\ page \in PageState /\ UNCHANGED <<posts, orders>> /\ polls' \subseteq polls
  BY DEF ShopInv, Shop!Arrive
<1>2. CASE page' = page
  <2>1. OneReference' /\ PageGoesOn' /\ AnsweredOnce'
    BY <1>1, <1>2 DEF ShopInv, OneReference, PageGoesOn, AnsweredOnce, SentAs
  <2>2. PollsFollow'
    BY <1>1, <1>2 DEF ShopInv, PollsFollow
  <2> QED
    BY <1>1, <1>2, <2>1, <2>2 DEF ShopInv
<1>3. CASE page' # page
  <2>1. PICK new : new = Shop!Update(page.active, poll)
    OBVIOUS
  <2>2. /\ page' = [page EXCEPT !.active = new] /\ page.active # None
        /\ poll.seen # None /\ ~ Shop!Dropped(poll)
    BY <1>1, <1>3, <2>1 DEF Shop!Arrive, PageState
  <2>3. /\ new \in Shop!Active /\ new.reference = page.active.reference
        /\ page.active.status \in Shop!Ended => new.status = page.active.status
    BY <2>1, <2>2, UpdateShape
  <2>4. /\ page' \in PageState /\ page'.cart = page.cart /\ page'.reference = page.reference
        /\ page'.active = new /\ page'.visit = page.visit
    BY <1>1, <2>2, <2>3 DEF PageState
  <2>5. OneReference'
    BY <1>1 DEF ShopInv, OneReference, SentAs
  <2>6. PageGoesOn'
    BY <1>1, <2>4 DEF ShopInv, PageGoesOn, SentAs
  <2>7. AnsweredOnce' /\ PollsFollow'
    BY <1>1, <2>2, <2>3, <2>4 DEF ShopInv, AnsweredOnce, PollsFollow
  <2> QED
    BY <1>1, <2>3, <2>4, <2>5, <2>6, <2>7 DEF ShopInv
<1> QED
  BY <1>2, <1>3

LEMMA MoveStep ==
  ASSUME ShopIsBounded, ShopInv, NEW r \in Shop!References, Shop!MoveOrder(r)
  PROVE  ShopInv'
<1>1. UNCHANGED <<page, posts, polls>> /\ orders[r] # None /\ orders[r] \in Shop!OrderRow
      /\ orders \in [Shop!References -> Shop!OrderRow \cup {None}]
  BY PageTypes DEF ShopInv, Shop!MoveOrder
<1>2. PICK new : /\ new \in Shop!OrderRow /\ new.cart = orders[r].cart
                 /\ new.visit = orders[r].visit /\ orders' = [orders EXCEPT ![r] = new]
  <2>1. CASE \E m \in Shop!Moves : orders' = [orders EXCEPT ![r].status = m[2]]
    <3>1. PICK m \in Shop!Moves : orders' = [orders EXCEPT ![r].status = m[2]]
      BY <2>1
    <3>2. m[2] \in OrderStatuses
      BY DEF Shop!Moves, OrderStatuses
    <3>3. PICK new : new = [orders[r] EXCEPT !.status = m[2]]
      OBVIOUS
    <3>4. new \in Shop!OrderRow /\ new.cart = orders[r].cart /\ new.visit = orders[r].visit
      BY <1>1, <3>2, <3>3 DEF Shop!OrderRow, OrderStatuses
    <3>5. orders' = [orders EXCEPT ![r] = new]
      BY <3>1, <3>3
    <3> QED
      BY <3>4, <3>5
  <2>2. CASE \E m \in Shop!PaymentMoves : orders' = [orders EXCEPT ![r].payment = m[2]]
    <3>1. PICK m \in Shop!PaymentMoves : orders' = [orders EXCEPT ![r].payment = m[2]]
      BY <2>2
    <3>2. m[2] \in PaymentStatuses
      BY DEF Shop!PaymentMoves, PaymentStatuses
    <3>3. PICK new : new = [orders[r] EXCEPT !.payment = m[2]]
      OBVIOUS
    <3>4. new \in Shop!OrderRow /\ new.cart = orders[r].cart /\ new.visit = orders[r].visit
      BY <1>1, <3>2, <3>3 DEF Shop!OrderRow, PaymentStatuses
    <3>5. orders' = [orders EXCEPT ![r] = new]
      BY <3>1, <3>3
    <3> QED
      BY <3>4, <3>5
  <2> QED
    BY <2>1, <2>2 DEF Shop!MoveOrder
<1>3. /\ orders' \in [Shop!References -> Shop!OrderRow \cup {None}]
      /\ orders'[r] = new /\ new # None
      /\ \A s \in Shop!References : s # r => orders'[s] = orders[s]
  BY <1>1, <1>2 DEF ShopIsBounded
<1>4. \A s \in Shop!References : orders'[s] # None => orders[s] # None
  BY <1>1, <1>3
<1>5. \A s \in Shop!References : orders[s] # None => orders'[s] # None
  BY <1>3
<1>6. \A s \in Shop!References : \A c, v : SentAs(s, c, v)' => SentAs(s, c, v)
  BY <1>1, <1>2, <1>3 DEF SentAs
<1>7. OneReference' /\ PageGoesOn'
  BY <1>1, <1>6 DEF ShopInv, OneReference, PageGoesOn
<1>8. AnsweredOnce'
  <2>1. \A p \in posts : p.reference \in Shop!References
    BY DEF ShopInv, Asked
  <2> QED
    BY <1>1, <1>5, <2>1 DEF ShopInv, AnsweredOnce
<1>9. PollsFollow'
  <2>1. \A p \in polls : p.on[1] \in Shop!References
    BY DEF ShopInv, Poll
  <2> QED
    BY <1>1, <1>5, <2>1, PageTypes DEF ShopInv, PollsFollow
<1> QED
  BY <1>1, <1>3, <1>7, <1>8, <1>9 DEF ShopInv

LEMMA ShopHolds == ASSUME ShopIsBounded PROVE Shop!Spec => []ShopInv
<1>1. Shop!Init => ShopInv
  <2> SUFFICES ASSUME Shop!Init PROVE ShopInv
    OBVIOUS
  <2>1. /\ posts = {} /\ polls = {} /\ orders = [r \in Shop!References |-> None]
        /\ page = [cart |-> 0, step |-> "cart", reference |-> 0, placing |-> FALSE,
                   active |-> None, visit |-> 1]
    BY DEF Shop!Init, Shop!Blank
  <2>2. page \in PageState /\ page.active = None
    BY <2>1 DEF ShopIsBounded, PageState
  <2>3. OneReference /\ PageGoesOn
    BY <2>1 DEF OneReference, PageGoesOn, SentAs
  <2>4. AnsweredOnce /\ PollsFollow
    BY <2>1, <2>2 DEF AnsweredOnce, PollsFollow
  <2> QED
    BY <2>1, <2>2, <2>3, <2>4 DEF ShopInv
<1>2. ShopInv /\ [Shop!Next]_(Shop!vars) => ShopInv'
  <2> SUFFICES ASSUME ShopInv, [Shop!Next]_(Shop!vars) PROVE ShopInv'
    OBVIOUS
  <2>1. CASE UNCHANGED Shop!vars
    <3>1. UNCHANGED <<page, posts, polls, orders>>
      BY <2>1 DEF Shop!vars
    <3> QED
      BY <3>1 DEF ShopInv, OneReference, PageGoesOn, AnsweredOnce, PollsFollow, SentAs
  <2>2. CASE Shop!AddItem \/ Shop!RemoveItems \/ Shop!Back \/ Shop!continueCheckout
             \/ Shop!placeOrder \/ Shop!Reload
    BY <2>2, CartStep, CheckoutStep, PlaceStep, ReloadStep
  <2>3. CASE \E post \in posts : Shop!Create(post) \/ Shop!Answer(post) \/ Shop!Lose(post)
    BY <2>3, CreateOrderStep, AnswerStep, LoseStep
  <2>4. CASE \/ \E kind \in {"payment", "tracking"} : Shop!Ask(kind)
             \/ \E poll \in polls : Shop!Read(poll) \/ Shop!Miss(poll)
    BY <2>4, PollStep
  <2>5. CASE \/ \E poll \in polls : Shop!Arrive(poll)
             \/ \E r \in Shop!References : Shop!MoveOrder(r)
    BY <2>5, ArriveStep, MoveStep
  <2> QED
    BY <2>1, <2>2, <2>3, <2>4, <2>5 DEF Shop!Next
<1> QED
  BY <1>1, <1>2, PTL DEF Shop!Spec

\* A cart checked out in one visit of the page makes one order at most, whatever the customer
\* clicks again after an answer was lost.
THEOREM OneOrderPerCheckoutHolds ==
  ASSUME ShopIsBounded PROVE Shop!Spec => []Shop!OneOrderPerCheckout
<1>1. ShopInv => Shop!OneOrderPerCheckout
  <2> SUFFICES ASSUME ShopInv, NEW r \in Shop!References, NEW s \in Shop!References,
                      orders[r] # None, orders[s] # None,
                      orders[r].cart = orders[s].cart, orders[r].visit = orders[s].visit
               PROVE  r = s
    BY DEF Shop!OneOrderPerCheckout
  <2>1. orders[r].cart \in 1..MaxCarts /\ orders[r].visit \in 1..MaxVisits
    BY PageTypes
  <2> QED
    BY <2>1 DEF ShopInv, OneReference, SentAs
<1> QED
  BY <1>1, ShopHolds, PTL

\* The page never takes back the end of an order it has shown.
THEOREM EndedStaysHolds ==
  ASSUME ShopIsBounded PROVE Shop!Spec => [][Shop!EndedStays]_(Shop!vars)
<1>1. ASSUME ShopInv, Shop!Next, page.active # None, page.active.status \in Shop!Ended
      PROVE  \/ page'.active.reference # page.active.reference
             \/ page'.active.status = page.active.status
  <2>1. page \in PageState
    BY <1>1 DEF ShopInv
  <2>2. CASE \E poll \in polls : Shop!Arrive(poll)
    BY <1>1, <2>2, ArriveStep
  <2>3. CASE \E post \in posts : Shop!Answer(post)
    <3>1. PICK p \in posts : Shop!Answer(p)
      BY <2>3
    <3>2. CASE p.answer = "created"
      <4>1. p.reference # page.active.reference
        BY <1>1, <3>2 DEF ShopInv, AnsweredOnce
      <4>2. PICK a : a = [reference |-> p.reference, bank |-> p.bank, payment |-> "pending",
                          status |-> IF p.bank THEN "confirmed" ELSE "preparing"]
        OBVIOUS
      <4>3. PICK b : b = [cart |-> 0, step |-> "cart", reference |-> 0, placing |-> FALSE,
                          active |-> a, visit |-> page.visit]
        OBVIOUS
      <4>4. page' = [b EXCEPT !.step = page.step]
        BY <3>1, <3>2, <4>2, <4>3 DEF Shop!Answer, Shop!Blank
      <4>5. page'.active = a
        BY <4>3, <4>4
      <4> QED
        BY <4>1, <4>2, <4>5
    <3>3. CASE p.answer # "created"
      BY <2>1, <3>1, <3>3 DEF Shop!Answer, PageState
    <3> QED
      BY <3>2, <3>3
  <2>4. CASE ~ \/ \E poll \in polls : Shop!Arrive(poll)
               \/ \E post \in posts : Shop!Answer(post)
    <3>1. Shop!AddItem \/ Shop!RemoveItems \/ Shop!Back \/ Shop!placeOrder =>
            page'.active = page.active
      BY <2>1 DEF Shop!AddItem, Shop!RemoveItems, Shop!Back, Shop!placeOrder, PageState
    <3>2. Shop!continueCheckout => page'.active = page.active
      BY <2>1 DEF Shop!continueCheckout, PageState
    <3>3. Shop!Reload => page'.active = page.active
      BY DEF Shop!Reload, Shop!Blank
    <3>4. (\E post \in posts : Shop!Lose(post)) => page'.active = page.active
      BY <2>1 DEF Shop!Lose, PageState
    <3>5. /\ (\E post \in posts : Shop!Create(post)) => page' = page
          /\ (\E kind \in {"payment", "tracking"} : Shop!Ask(kind)) => page' = page
          /\ (\E poll \in polls : Shop!Read(poll) \/ Shop!Miss(poll)) => page' = page
          /\ (\E r \in Shop!References : Shop!MoveOrder(r)) => page' = page
      BY DEF Shop!Create, Shop!Ask, Shop!Read, Shop!Miss, Shop!MoveOrder
    <3>6. page'.active = page.active
      BY <1>1, <2>4, <3>1, <3>2, <3>3, <3>4, <3>5 DEF Shop!Next
    <3> QED
      BY <3>6
  <2> QED
    BY <2>2, <2>3, <2>4
<1>2. ShopInv /\ [Shop!Next]_(Shop!vars) => [Shop!EndedStays]_(Shop!vars)
  BY <1>1 DEF Shop!EndedStays
<1> QED
  BY <1>2, ShopHolds, PTL DEF Shop!Spec

-----------------------------------------------------------------------------
(***************************************************************************)
(* Inbox.  An application or message, its alert and its call on the page   *)
(* keep together: what the page was told is stored, and what is stored has *)
(* one alert that is closed with it.                                       *)
(***************************************************************************)

LetterRow == [type : Desk!RequestTypes, status : {"new", "resolved", "approved"}]
AlertRow == [status : {"open", "resolved"}, stamp : Desk!Requests \cup {None}]
ApplicantRow == [status : {"pending", "active"}, phone : Phones["desk"], user : Phones["desk"] \cup {None}]
CallRow == [type : Desk!RequestTypes, at : {"asked", "stored", "failed", "taken"}]

DeskTables ==
  /\ DOMAIN inbox \subseteq Desk!Sends /\ DOMAIN members \subseteq DOMAIN inbox
  /\ \A i \in DOMAIN inbox : inbox[i] \in LetterRow
  /\ \A a \in DOMAIN alerts : alerts[a] \in AlertRow
  /\ \A m \in DOMAIN members : members[m] \in ApplicantRow
  /\ users \subseteq Phones["desk"]

\* The calls of the page are numbered as they are made, and a call that is asked for has no
\* row yet, a call that was answered has one.
Calls ==
  /\ page \in [calls : {page.calls}, chatMode : {"assistant", "human"}, sent : SUBSET Desk!Sends]
  /\ \E n \in Nat : DOMAIN page.calls = 1..n
  /\ \A i \in DOMAIN page.calls :
       /\ page.calls[i] \in CallRow
       /\ page.calls[i].at = "asked" => i \notin DOMAIN inbox
       /\ page.calls[i].at \in {"stored", "taken"} => i \in DOMAIN inbox
  /\ \A i \in DOMAIN inbox : i \in DOMAIN page.calls /\ inbox[i].type = page.calls[i].type

\* Every row has its alert, and there are no other alerts than these and the shortage's.
AlertsShow ==
  /\ DOMAIN inbox \subseteq DOMAIN alerts
  /\ DOMAIN alerts \subseteq DOMAIN inbox \cup {Desk!Shortage}

EventsAreTrue ==
  \A e \in events : e.alert \in DOMAIN alerts /\ alerts[e.alert].status = "resolved"

DeskWaits ==
  /\ request \in [Desk!Requests -> Desk!Pending]
  /\ \A c \in Desk!Requests :
       /\ request[c].at = "resolve" => request[c].alert \in DOMAIN alerts
       /\ request[c].at \in {"approve", "find", "link", "create"} =>
            request[c].member \in DOMAIN members

DeskInv ==
  /\ DeskTables /\ Calls /\ AlertsShow /\ EventsAreTrue /\ DeskWaits
  /\ Desk!ClosedTogether /\ Desk!ResolvedByOne /\ Desk!SentIsStored

LEMMA SendsAreNumbers == Desk!Sends \subseteq Nat \ {0} /\ Desk!Shortage \notin Desk!Sends
BY DEF Desk!Sends, Desk!Shortage

LEMMA InitDesk == Desk!Init => DeskInv
<1> SUFFICES ASSUME Desk!Init PROVE DeskInv
  OBVIOUS
<1>1. DOMAIN inbox = {} /\ DOMAIN alerts = {} /\ DOMAIN members = {} /\ DOMAIN page.calls = {}
  BY DEF Desk!Init
<1>2. DOMAIN page.calls = 1..0
  BY <1>1
<1>3. Calls
  BY <1>1, <1>2 DEF Calls, Desk!Init
<1>4. DeskWaits
  BY DEF DeskWaits, Desk!Init, Desk!Idle, Desk!Pending
<1> QED
  BY <1>1, <1>3, <1>4 DEF DeskInv, DeskTables, AlertsShow, EventsAreTrue, Desk!Init,
     Desk!ClosedTogether, Desk!ResolvedByOne, Desk!SentIsStored

\* What a request carries, by what it waits for.
LEMMA DeskShape ==
  ASSUME NEW r \in Desk!Pending
  PROVE  /\ r.at = "resolve" => r.alert \in Desk!Alerts
         /\ r.at \in {"approve", "find", "link", "create"} => r.member \in Desk!Sends
         /\ r.at \in {"idle", "done", "resolve", "refresh", "approve", "find", "link", "create"}
BY DEF Desk!Pending, Desk!Idle, Desk!Done

\* A request goes on to its next statement with the member it has.
LEMMA GoesOn ==
  ASSUME NEW r \in Desk!Pending, r.at \in {"approve", "find", "link", "create"},
         NEW at \in {"find", "link", "create"}
  PROVE  /\ [r EXCEPT !.at = at] \in Desk!Pending
         /\ [r EXCEPT !.at = at].at = at /\ [r EXCEPT !.at = at].member = r.member
<1>1. r \in [at : {"approve", "find", "link", "create"}, member : Desk!Sends]
  BY DEF Desk!Pending, Desk!Idle, Desk!Done
<1>2. [r EXCEPT !.at = at] \in [at : {"find", "link", "create"}, member : Desk!Sends]
  BY <1>1
<1>3. [at : {"find", "link", "create"}, member : Desk!Sends] \subseteq Desk!Pending
  BY DEF Desk!Pending
<1> QED
  BY <1>1, <1>2, <1>3

\* A step of one request that takes no row away.
LEMMA DeskMoves ==
  ASSUME DeskInv, NEW c \in Desk!Requests, NEW what \in Desk!Pending, Desk!Then(c, what),
         what.at = "resolve" => what.alert \in DOMAIN alerts,
         what.at \in {"approve", "find", "link", "create"} => what.member \in DOMAIN members,
         DOMAIN alerts \subseteq DOMAIN alerts', DOMAIN members \subseteq DOMAIN members'
  PROVE  DeskWaits'
<1>1. /\ request' \in [Desk!Requests -> Desk!Pending] /\ request'[c] = what
      /\ \A d \in Desk!Requests : d # c => request'[d] = request[d]
  BY DEF DeskInv, DeskWaits, Desk!Then
<1> QED
  BY <1>1 DEF DeskInv, DeskWaits

LEMMA DeskReads ==
  ASSUME DeskInv, NEW c \in Desk!Requests,
         Desk!ResolveRead(c) \/ Desk!ApproveRead(c) \/ Desk!RefreshRead(c) \/ Desk!FindUser(c)
           \/ Desk!Die(c)
  PROVE  DeskInv'
<1>1. UNCHANGED <<inbox, alerts, members, users, events, page>>
  BY DEF Desk!ResolveRead, Desk!ApproveRead, Desk!RefreshRead, Desk!FindUser, Desk!Die, Desk!tables
<1>2. PICK what \in Desk!Pending :
        /\ Desk!Then(c, what)
        /\ what.at = "resolve" => what.alert \in DOMAIN alerts
        /\ what.at \in {"approve", "find", "link", "create"} => what.member \in DOMAIN members
  <2>1. CASE Desk!ResolveRead(c)
    <3>1. PICK a \in DOMAIN alerts : Desk!Then(c, [at |-> "resolve", alert |-> a])
      BY <2>1 DEF Desk!ResolveRead, Desk!Begin
    <3>2. a \in Desk!Alerts
      BY DEF DeskInv, DeskTables, AlertsShow, Desk!Alerts
    <3>3. [at |-> "resolve", alert |-> a] \in Desk!Pending
      BY <3>2 DEF Desk!Pending
    <3> QED
      BY <3>1, <3>3
  <2>2. CASE Desk!ApproveRead(c)
    <3>1. PICK m \in DOMAIN members : Desk!Then(c, [at |-> "approve", member |-> m])
      BY <2>2 DEF Desk!ApproveRead, Desk!Begin
    <3>2. m \in Desk!Sends
      BY DEF DeskInv, DeskTables
    <3>3. [at |-> "approve", member |-> m] \in Desk!Pending
      BY <3>2 DEF Desk!Pending
    <3> QED
      BY <3>1, <3>3
  <2>3. CASE Desk!RefreshRead(c)
    <3>1. Desk!Then(c, [at |-> "refresh", short |-> Desk!suggestedQuantity > 0])
      BY <2>3 DEF Desk!RefreshRead, Desk!Begin
    <3>2. [at |-> "refresh", short |-> Desk!suggestedQuantity > 0] \in Desk!Pending
      BY DEF Desk!Pending
    <3> QED
      BY <3>1, <3>2
  <2>4. CASE Desk!FindUser(c)
    <3>1. PICK at \in {"link", "create"} : Desk!Then(c, [request[c] EXCEPT !.at = at])
      BY <2>4 DEF Desk!FindUser
    <3>2. request[c] \in Desk!Pending /\ request[c].at = "find" /\ request[c].member \in DOMAIN members
      BY <2>4 DEF Desk!FindUser, DeskInv, DeskWaits
    <3> QED
      BY <3>1, <3>2, GoesOn
  <2>5. CASE Desk!Die(c)
    <3>1. Desk!Done \in Desk!Pending /\ Desk!Done.at = "done"
      BY DEF Desk!Pending, Desk!Done
    <3> QED
      BY <2>5, <3>1 DEF Desk!Die
  <2> QED
    BY <2>1, <2>2, <2>3, <2>4, <2>5
<1>3. DeskWaits'
  BY <1>1, <1>2, DeskMoves
<1> QED
  BY <1>1, <1>3 DEF DeskInv, DeskTables, Calls, AlertsShow, EventsAreTrue, Desk!ClosedTogether,
     Desk!ResolvedByOne, Desk!SentIsStored

\* The page's own steps: a call is asked for, fails, or is reported.
LEMMA PageAsks ==
  ASSUME DeskInv, NEW type \in Desk!RequestTypes, Desk!Send(type)
  PROVE  DeskInv'
<1> DEFINE id == Cardinality(DOMAIN page.calls) + 1
           row == [type |-> type, at |-> "asked"]
<1>1. PICK n \in Nat : DOMAIN page.calls = 1..n
  BY DEF DeskInv, Calls
<1>2. Cardinality(DOMAIN page.calls) = n
  BY <1>1, FS_Interval
<1>3. Desk!Cardinality(DOMAIN page.calls) = Cardinality(DOMAIN page.calls)
  BY DEF Desk!Cardinality, Cardinality
<1>4. id = n + 1 /\ id \notin DOMAIN page.calls
  BY <1>1, <1>2
<1>5. page' = [page EXCEPT !.calls = Desk!With(page.calls, id, row)]
      /\ UNCHANGED <<inbox, alerts, members, users, events, request>>
  BY <1>3 DEF Desk!Send, Desk!Call, Desk!tables
<1> HIDE DEF id
<1>6. page'.calls = Desk!With(page.calls, id, row) /\ page'.chatMode = page.chatMode
      /\ page'.sent = page.sent
      /\ page' \in [calls : {page'.calls}, chatMode : {"assistant", "human"}, sent : SUBSET Desk!Sends]
  BY <1>5 DEF DeskInv, Calls
<1>7. /\ DOMAIN page'.calls = 1..(n + 1)
      /\ page'.calls[id] = row
      /\ \A i \in DOMAIN page.calls : page'.calls[i] = page.calls[i]
  BY <1>1, <1>4, <1>6 DEF Desk!With
<1>8. row \in CallRow /\ row.at = "asked"
  BY DEF CallRow
<1>9. id \notin DOMAIN inbox
  BY <1>4 DEF DeskInv, Calls
<1> HIDE DEF row
<1>10. Calls'
  <2>1. \E k \in Nat : DOMAIN page'.calls = 1..k
    BY <1>7
  <2>2. ASSUME NEW i \in DOMAIN page'.calls
        PROVE  /\ page'.calls[i] \in CallRow
               /\ page'.calls[i].at = "asked" => i \notin DOMAIN inbox
               /\ page'.calls[i].at \in {"stored", "taken"} => i \in DOMAIN inbox
    <3>1. i = id \/ i \in DOMAIN page.calls
      BY <1>1, <1>4, <1>7
    <3> QED
      BY <3>1, <1>7, <1>8, <1>9 DEF DeskInv, Calls
  <2>3. \A i \in DOMAIN inbox : i \in DOMAIN page'.calls /\ inbox[i].type = page'.calls[i].type
    BY <1>1, <1>7 DEF DeskInv, Calls
  <2> QED
    BY <1>5, <1>6, <2>1, <2>2, <2>3 DEF Calls
<1> QED
  BY <1>5, <1>6, <1>10 DEF DeskInv, DeskTables, AlertsShow, EventsAreTrue, DeskWaits,
     Desk!ClosedTogether, Desk!ResolvedByOne, Desk!SentIsStored

\* A call gets its answer: its row is there by now, or the page calls it failed.
LEMMA CallMoves ==
  ASSUME DeskInv, NEW id \in DOMAIN page.calls, NEW at \in {"stored", "failed", "taken"},
         page' \in [calls : {page'.calls}, chatMode : {"assistant", "human"}, sent : SUBSET Desk!Sends],
         DOMAIN page'.calls = DOMAIN page.calls,
         page'.calls[id] \in CallRow, page'.calls[id].type = page.calls[id].type,
         page'.calls[id].at = at,
         \A i \in DOMAIN page.calls : i # id => page'.calls[i] = page.calls[i],
         DOMAIN inbox' \in {DOMAIN inbox, DOMAIN inbox \cup {id}},
         \A i \in DOMAIN inbox : inbox'[i] = inbox[i],
         id \in DOMAIN inbox' => inbox'[id].type = page.calls[id].type,
         at \in {"stored", "taken"} => id \in DOMAIN inbox'
  PROVE  Calls'
<1>1. \E n \in Nat : DOMAIN page'.calls = 1..n
  BY DEF DeskInv, Calls
<1>2. \A i \in DOMAIN page'.calls :
        /\ page'.calls[i] \in CallRow
        /\ page'.calls[i].at = "asked" => i \notin DOMAIN inbox'
        /\ page'.calls[i].at \in {"stored", "taken"} => i \in DOMAIN inbox'
  BY DEF DeskInv, Calls
<1>3. \A i \in DOMAIN inbox' : i \in DOMAIN page'.calls /\ inbox'[i].type = page'.calls[i].type
  BY DEF DeskInv, Calls
<1> QED
  BY <1>1, <1>2, <1>3 DEF Calls

LEMMA CallFails ==
  ASSUME DeskInv, NEW id \in Desk!Sends, Desk!Fail(id)
  PROVE  DeskInv'
<1> DEFINE row == [type |-> page.calls[id].type, at |-> "failed"]
<1>1. /\ id \in DOMAIN page.calls
      /\ page' = [page EXCEPT !.calls = Desk!With(page.calls, id, row)]
      /\ UNCHANGED <<inbox, alerts, members, users, events, request>>
  BY DEF Desk!Fail, Desk!Call, Desk!tables
<1>2. page'.calls = Desk!With(page.calls, id, row) /\ page'.chatMode = page.chatMode
      /\ page'.sent = page.sent
      /\ page' \in [calls : {page'.calls}, chatMode : {"assistant", "human"}, sent : SUBSET Desk!Sends]
  BY <1>1 DEF DeskInv, Calls
<1>3. /\ DOMAIN page'.calls = DOMAIN page.calls /\ page'.calls[id] = row
      /\ \A i \in DOMAIN page.calls : i # id => page'.calls[i] = page.calls[i]
  BY <1>1, <1>2 DEF Desk!With
<1>4. row \in CallRow /\ row.type = page.calls[id].type /\ row.at = "failed"
  BY <1>1 DEF DeskInv, Calls, CallRow
<1> HIDE DEF row
<1>5. id \in DOMAIN inbox => inbox[id].type = page.calls[id].type
  BY DEF DeskInv, Calls
<1>6. Calls'
  BY <1>1, <1>2, <1>3, <1>4, <1>5, CallMoves
<1> QED
  BY <1>1, <1>2, <1>6 DEF DeskInv, DeskTables, AlertsShow, EventsAreTrue, DeskWaits,
     Desk!ClosedTogether, Desk!ResolvedByOne, Desk!SentIsStored

LEMMA CallIsTaken ==
  ASSUME DeskInv, NEW id \in Desk!Sends, Desk!Take(id)
  PROVE  DeskInv'
<1>1. /\ id \in DOMAIN page.calls /\ page.calls[id].at = "stored" /\ page.calls[id] \in CallRow
      /\ id \in DOMAIN inbox
      /\ UNCHANGED <<inbox, alerts, members, users, events, request>>
  BY DEF Desk!Take, Desk!Confirmed, Desk!tables, DeskInv, Calls
<1>2. /\ page'.calls = [page.calls EXCEPT ![id].at = "taken"] /\ page'.sent = page.sent \cup {id}
      /\ page'.chatMode = IF page.calls[id].type = "support_request" THEN "human" ELSE page.chatMode
      /\ page' \in [calls : {page'.calls}, chatMode : {"assistant", "human"}, sent : SUBSET Desk!Sends]
  BY DEF Desk!Take, DeskInv, Calls
<1>3. /\ DOMAIN page'.calls = DOMAIN page.calls
      /\ page'.calls[id] = [page.calls[id] EXCEPT !.at = "taken"]
      /\ \A i \in DOMAIN page.calls : i # id => page'.calls[i] = page.calls[i]
  BY <1>1, <1>2
<1>4. page'.calls[id] \in CallRow /\ page'.calls[id].type = page.calls[id].type
      /\ page'.calls[id].at = "taken"
  BY <1>1, <1>3 DEF CallRow
<1>5. inbox[id].type = page.calls[id].type
  BY <1>1 DEF DeskInv, Calls
<1>6. Calls'
  BY <1>1, <1>2, <1>3, <1>4, <1>5, CallMoves
<1>7. Desk!SentIsStored'
  BY <1>1, <1>2, <1>5 DEF DeskInv, Desk!SentIsStored
<1> QED
  BY <1>1, <1>6, <1>7 DEF DeskInv, DeskTables, AlertsShow, EventsAreTrue, DeskWaits,
     Desk!ClosedTogether, Desk!ResolvedByOne

\* The row, its alert and, for an application, the member are written together.
LEMMA CallIsPosted ==
  ASSUME DeskInv, NEW id \in Desk!Sends, Desk!Post(id)
  PROVE  DeskInv'
<1> DEFINE type == page.calls[id].type
           row == [type |-> type, at |-> "stored"]
           letter == [type |-> type, status |-> "new"]
           alert == [status |-> "open", stamp |-> None]
<1>1. /\ id \in DOMAIN page.calls /\ page.calls[id].at = "asked" /\ type \in Desk!RequestTypes
      /\ id \notin DOMAIN inbox /\ id \notin DOMAIN alerts
  BY SendsAreNumbers DEF Desk!Post, Desk!Asked, DeskInv, Calls, CallRow, AlertsShow, Desk!Shortage
<1>2. /\ inbox' = Desk!With(inbox, id, letter) /\ alerts' = Desk!With(alerts, id, alert)
      /\ page' = [page EXCEPT !.calls = Desk!With(page.calls, id, row)]
      /\ UNCHANGED <<users, events, request>>
  BY DEF Desk!Post, Desk!Call
<1>3. page'.calls = Desk!With(page.calls, id, row) /\ page'.chatMode = page.chatMode
      /\ page'.sent = page.sent
      /\ page' \in [calls : {page'.calls}, chatMode : {"assistant", "human"}, sent : SUBSET Desk!Sends]
  BY <1>2 DEF DeskInv, Calls
<1>4. /\ DOMAIN page'.calls = DOMAIN page.calls /\ page'.calls[id] = row
      /\ \A i \in DOMAIN page.calls : i # id => page'.calls[i] = page.calls[i]
  BY <1>1, <1>3 DEF Desk!With
<1>5. /\ DOMAIN inbox' = DOMAIN inbox \cup {id} /\ inbox'[id] = letter
      /\ \A i \in DOMAIN inbox : inbox'[i] = inbox[i]
  BY <1>1, <1>2 DEF Desk!With
<1>6. /\ DOMAIN alerts' = DOMAIN alerts \cup {id} /\ alerts'[id] = alert
      /\ \A a \in DOMAIN alerts : alerts'[a] = alerts[a]
  BY <1>1, <1>2 DEF Desk!With
<1>7. /\ DOMAIN members \subseteq DOMAIN members' /\ DOMAIN members' \subseteq DOMAIN inbox'
      /\ \A m \in DOMAIN members' : members'[m] \in ApplicantRow
  <2>1. CASE members' = members
    BY <1>5, <2>1 DEF DeskInv, DeskTables
  <2>2. CASE \E p \in Phones["desk"] :
               members' = Desk!With(members, id, [status |-> "pending", phone |-> p, user |-> None])
    <3>1. PICK p \in Phones["desk"] :
            members' = Desk!With(members, id, [status |-> "pending", phone |-> p, user |-> None])
      BY <2>2
    <3>2. [status |-> "pending", phone |-> p, user |-> None] \in ApplicantRow
      BY DEF ApplicantRow
    <3> QED
      BY <1>5, <3>1, <3>2 DEF Desk!With, DeskInv, DeskTables
  <2> QED
    BY <2>1, <2>2 DEF Desk!Post
<1>8. /\ row \in CallRow /\ row.type = type /\ row.at = "stored"
      /\ letter \in LetterRow /\ letter.type = type /\ letter.status = "new"
      /\ alert \in AlertRow /\ alert.status = "open"
  BY <1>1 DEF CallRow, LetterRow, AlertRow
<1> HIDE DEF row, letter, alert
<1>9. Calls'
  BY <1>1, <1>3, <1>4, <1>5, <1>8, CallMoves
<1>10. DeskTables'
  BY <1>2, <1>5, <1>6, <1>7, <1>8 DEF DeskInv, DeskTables
<1>11. AlertsShow' /\ EventsAreTrue' /\ Desk!ClosedTogether'
  BY <1>1, <1>2, <1>5, <1>6, <1>8
     DEF DeskInv, AlertsShow, EventsAreTrue, Desk!ClosedTogether
<1>12. DeskWaits'
  BY <1>2, <1>6, <1>7 DEF DeskInv, DeskWaits
<1>13. Desk!ResolvedByOne' /\ Desk!SentIsStored'
  BY <1>2, <1>3, <1>5 DEF DeskInv, Desk!ResolvedByOne, Desk!SentIsStored
<1> QED
  BY <1>9, <1>10, <1>11, <1>12, <1>13 DEF DeskInv

\* Of those who resolve an alert the first closes it with its row; the others write nothing.
LEMMA AlertResolves ==
  ASSUME DeskInv, NEW c \in Desk!Requests, Desk!ResolveBatch(c)
  PROVE  DeskInv' /\ Desk!ApprovedStays
<1> DEFINE a == request[c].alert
<1>1. /\ a \in DOMAIN alerts /\ alerts[a] \in AlertRow
      /\ UNCHANGED <<members, users, page>> /\ Desk!Then(c, Desk!Done)
  BY DEF Desk!ResolveBatch, DeskInv, DeskWaits, DeskTables
<1>2. DeskWaits'
  <2>1. Desk!Done \in Desk!Pending /\ Desk!Done.at = "done"
    BY DEF Desk!Pending, Desk!Done
  <2>2. DOMAIN alerts' = DOMAIN alerts
    BY DEF Desk!ResolveBatch
  <2> QED
    BY <1>1, <2>1, <2>2, DeskMoves
<1>3. CASE alerts[a].status = "resolved"
  <2>1. UNCHANGED <<inbox, alerts, events>>
    BY <1>3 DEF Desk!ResolveBatch, Desk!ResolvedCondition
  <2> QED
    BY <1>1, <1>2, <2>1 DEF DeskInv, DeskTables, Calls, AlertsShow, EventsAreTrue,
       Desk!ClosedTogether, Desk!ResolvedByOne, Desk!SentIsStored, Desk!ApprovedStays
<1>4. CASE alerts[a].status # "resolved"
  <2> DEFINE row == [status |-> "resolved", stamp |-> c]
             event == [alert |-> a, by |-> c]
  <2>1. /\ alerts' = [alerts EXCEPT ![a] = row] /\ events' = events \cup {event}
        /\ inbox' = IF a \in DOMAIN inbox THEN [inbox EXCEPT ![a].status = "resolved"] ELSE inbox
    BY <1>4 DEF Desk!ResolveBatch, Desk!ResolvedCondition
  <2>2. row \in AlertRow /\ row.status = "resolved" /\ event.alert = a
    BY DEF AlertRow
  <2>3. /\ DOMAIN alerts' = DOMAIN alerts /\ alerts'[a] = row
        /\ \A b \in DOMAIN alerts : b # a => alerts'[b] = alerts[b]
    BY <1>1, <2>1
  <2>4. /\ DOMAIN inbox' = DOMAIN inbox
        /\ \A i \in DOMAIN inbox : i # a => inbox'[i] = inbox[i]
        /\ a \in DOMAIN inbox => inbox'[a] \in LetterRow /\ inbox'[a].type = inbox[a].type
                                 /\ inbox'[a].status = "resolved" /\ inbox[a].status = "new"
    BY <1>4, <2>1 DEF DeskInv, DeskTables, LetterRow, Desk!ClosedTogether
  <2> HIDE DEF row, event
  <2>5. DeskTables' /\ Calls'
    BY <1>1, <2>2, <2>3, <2>4 DEF DeskInv, DeskTables, Calls
  <2>6. AlertsShow' /\ EventsAreTrue'
    BY <1>4, <2>1, <2>2, <2>3, <2>4 DEF DeskInv, AlertsShow, EventsAreTrue
  <2>7. Desk!ClosedTogether'
    BY <2>2, <2>3, <2>4 DEF DeskInv, AlertsShow, Desk!ClosedTogether
  <2>8. Desk!ResolvedByOne'
    BY <1>4, <2>1, <2>2 DEF DeskInv, EventsAreTrue, Desk!ResolvedByOne
  <2>9. Desk!SentIsStored' /\ Desk!ApprovedStays
    BY <1>1, <2>4 DEF DeskInv, Desk!SentIsStored, Desk!ApprovedStays
  <2> QED
    BY <1>2, <2>5, <2>6, <2>7, <2>8, <2>9 DEF DeskInv
<1> QED
  BY <1>3, <1>4

\* An approval closes application and alert, also when somebody resolved them before.
LEMMA ApplicantApproved ==
  ASSUME DeskInv, NEW c \in Desk!Requests, Desk!ApproveBatch(c)
  PROVE  DeskInv' /\ Desk!ApprovedStays
<1> DEFINE m == request[c].member
           row == [status |-> "resolved", stamp |-> c]
           next == [request[c] EXCEPT !.at = "find"]
<1>1. /\ m \in DOMAIN members /\ m \in DOMAIN inbox /\ m \in DOMAIN alerts
      /\ members[m] \in ApplicantRow /\ inbox[m] \in LetterRow
  BY DEF Desk!ApproveBatch, DeskInv, DeskWaits, DeskTables, AlertsShow
<1>2. /\ members' = [members EXCEPT ![m].status = "active"]
      /\ inbox' = [inbox EXCEPT ![m].status = "approved"]
      /\ alerts' = [alerts EXCEPT ![m] = row]
      /\ Desk!Then(c, next) /\ UNCHANGED <<users, events, page>>
  BY DEF Desk!ApproveBatch
<1>3. next \in Desk!Pending /\ next.at = "find" /\ next.member = m
  BY GoesOn DEF DeskInv, DeskWaits, Desk!ApproveBatch
<1>4. row \in AlertRow /\ row.status = "resolved"
  BY DEF AlertRow
<1>5. /\ DOMAIN members' = DOMAIN members /\ members'[m] \in ApplicantRow
      /\ \A k \in DOMAIN members : k # m => members'[k] = members[k]
  BY <1>1, <1>2 DEF ApplicantRow
<1>6. /\ DOMAIN inbox' = DOMAIN inbox /\ inbox'[m] \in LetterRow /\ inbox'[m].type = inbox[m].type
      /\ inbox'[m].status = "approved" /\ \A i \in DOMAIN inbox : i # m => inbox'[i] = inbox[i]
  BY <1>1, <1>2 DEF LetterRow
<1>7. /\ DOMAIN alerts' = DOMAIN alerts /\ alerts'[m] = row
      /\ \A a \in DOMAIN alerts : a # m => alerts'[a] = alerts[a]
  BY <1>1, <1>2
<1>8. DeskWaits'
  <2> HIDE DEF m, next
  <2> QED
    BY <1>1, <1>2, <1>3, <1>5, <1>7, DeskMoves
<1> HIDE DEF m, row, next
<1>9. DeskTables' /\ Calls'
  <2>1. DeskTables'
    BY <1>2, <1>4, <1>5, <1>6, <1>7 DEF DeskInv, DeskTables
  <2>2. Calls'
    BY <1>2, <1>6 DEF DeskInv, Calls
  <2> QED
    BY <2>1, <2>2
<1>10. AlertsShow' /\ EventsAreTrue'
  BY <1>2, <1>4, <1>6, <1>7 DEF DeskInv, AlertsShow, EventsAreTrue
<1>11. Desk!ClosedTogether'
  BY <1>1, <1>4, <1>6, <1>7 DEF DeskInv, AlertsShow, Desk!ClosedTogether
<1>12. Desk!ResolvedByOne' /\ Desk!SentIsStored' /\ Desk!ApprovedStays
  BY <1>2, <1>6 DEF DeskInv, Desk!ResolvedByOne, Desk!SentIsStored, Desk!ApprovedStays
<1> QED
  BY <1>8, <1>9, <1>10, <1>11, <1>12 DEF DeskInv

\* The account of an approved affiliate, and the shortage's alert, which is raised once.
LEMMA AccountsFollow ==
  ASSUME DeskInv, NEW c \in Desk!Requests, Desk!CreateUser(c) \/ Desk!Link(c) \/ Desk!RefreshBatch(c)
  PROVE  DeskInv'
<1>1. Desk!Done \in Desk!Pending /\ Desk!Done.at = "done"
  BY DEF Desk!Pending, Desk!Done
<1>2. CASE Desk!CreateUser(c)
  <2>1. /\ request[c].member \in DOMAIN members /\ request[c].at = "create"
        /\ request[c] \in Desk!Pending /\ UNCHANGED <<inbox, alerts, members, events, page>>
    BY <1>2 DEF Desk!CreateUser, DeskInv, DeskWaits
  <2>2. users' \subseteq Phones["desk"]
    BY <1>2, <2>1 DEF Desk!CreateUser, DeskInv, DeskTables, ApplicantRow
  <2>3. PICK what \in {Desk!Done, [request[c] EXCEPT !.at = "link"]} : Desk!Then(c, what)
    BY <1>2 DEF Desk!CreateUser
  <2>4. /\ [request[c] EXCEPT !.at = "link"] \in Desk!Pending
        /\ [request[c] EXCEPT !.at = "link"].at = "link"
        /\ [request[c] EXCEPT !.at = "link"].member = request[c].member
    BY <2>1, GoesOn
  <2>5. DeskWaits'
    BY <1>1, <2>1, <2>3, <2>4, DeskMoves
  <2> QED
    BY <2>1, <2>2, <2>5 DEF DeskInv, DeskTables, Calls, AlertsShow, EventsAreTrue,
       Desk!ClosedTogether, Desk!ResolvedByOne, Desk!SentIsStored
<1>3. CASE Desk!Link(c)
  <2> DEFINE m == request[c].member
  <2>1. /\ m \in DOMAIN members /\ members[m] \in ApplicantRow /\ Desk!Then(c, Desk!Done)
        /\ members' = [members EXCEPT ![m].user = members[m].phone]
        /\ UNCHANGED <<inbox, alerts, users, events, page>>
    BY <1>3 DEF Desk!Link, DeskInv, DeskWaits, DeskTables
  <2>2. /\ DOMAIN members' = DOMAIN members /\ members'[m] \in ApplicantRow
        /\ \A k \in DOMAIN members : k # m => members'[k] = members[k]
    BY <2>1 DEF ApplicantRow
  <2> HIDE DEF m
  <2>3. DeskWaits'
    BY <1>1, <2>1, <2>2, DeskMoves
  <2>4. DeskTables'
    BY <2>1, <2>2 DEF DeskInv, DeskTables
  <2> QED
    BY <2>1, <2>3, <2>4 DEF DeskInv, Calls, AlertsShow, EventsAreTrue, Desk!ClosedTogether,
       Desk!ResolvedByOne, Desk!SentIsStored
<1>4. CASE Desk!RefreshBatch(c)
  <2> DEFINE row == [status |-> "open", stamp |-> None]
  <2>1. /\ Desk!Then(c, Desk!Done) /\ UNCHANGED <<inbox, members, users, events, page>>
        /\ \/ alerts' = alerts
           \/ Desk!Shortage \notin DOMAIN alerts /\ alerts' = Desk!With(alerts, Desk!Shortage, row)
    BY <1>4 DEF Desk!RefreshBatch, Desk!Raised
  <2>2. row \in AlertRow
    BY DEF AlertRow
  <2>3. /\ DOMAIN alerts \subseteq DOMAIN alerts'
        /\ DOMAIN alerts' \subseteq DOMAIN alerts \cup {Desk!Shortage}
        /\ \A a \in DOMAIN alerts : alerts'[a] = alerts[a]
        /\ \A a \in DOMAIN alerts' : alerts'[a] \in AlertRow
    BY <2>1, <2>2 DEF Desk!With, DeskInv, DeskTables
  <2>4. DeskWaits'
    BY <1>1, <2>1, <2>3, DeskMoves
  <2>5. AlertsShow' /\ EventsAreTrue' /\ Desk!ClosedTogether'
    BY <2>1, <2>3 DEF DeskInv, AlertsShow, EventsAreTrue, Desk!ClosedTogether
  <2> QED
    BY <2>1, <2>3, <2>4, <2>5 DEF DeskInv, DeskTables, Calls, Desk!ResolvedByOne, Desk!SentIsStored
<1> QED
  BY <1>2, <1>3, <1>4

LEMMA DeskStep == DeskInv /\ [Desk!Next]_(Desk!vars) => DeskInv' /\ [Desk!ApprovedStays]_(Desk!vars)
<1> SUFFICES ASSUME DeskInv, [Desk!Next]_(Desk!vars)
             PROVE  DeskInv' /\ [Desk!ApprovedStays]_(Desk!vars)
  OBVIOUS
<1>1. CASE UNCHANGED Desk!vars
  <2>1. UNCHANGED <<inbox, alerts, members, users, events, page, request>>
    BY <1>1 DEF Desk!vars
  <2>2. DeskInv'
    BY <2>1 DEF DeskInv, DeskTables, Calls, AlertsShow, EventsAreTrue, DeskWaits,
       Desk!ClosedTogether, Desk!ResolvedByOne, Desk!SentIsStored
  <2> QED
    BY <1>1, <2>2
<1>2. CASE Desk!Next
  <2>1. (\A i \in DOMAIN inbox : inbox'[i] = inbox[i]) => Desk!ApprovedStays
    BY DEF Desk!ApprovedStays
  <2>2. ASSUME NEW type \in Desk!RequestTypes, Desk!Send(type)
        PROVE  DeskInv' /\ Desk!ApprovedStays
    BY <2>1, <2>2, PageAsks DEF Desk!Send, Desk!tables
  <2>3. ASSUME NEW id \in Desk!Sends, Desk!Post(id)
        PROVE  DeskInv' /\ Desk!ApprovedStays
    <3>1. id \notin DOMAIN inbox
      BY <2>3 DEF Desk!Post, Desk!Asked, DeskInv, Calls
    <3>2. \A i \in DOMAIN inbox : inbox'[i] = inbox[i]
      BY <2>3, <3>1 DEF Desk!Post, Desk!With
    <3> QED
      BY <2>1, <2>3, <3>2, CallIsPosted
  <2>4. ASSUME NEW id \in Desk!Sends, Desk!Fail(id) \/ Desk!Take(id)
        PROVE  DeskInv' /\ Desk!ApprovedStays
    <3>1. inbox' = inbox
      BY <2>4 DEF Desk!Fail, Desk!Take, Desk!tables
    <3> QED
      BY <2>1, <2>4, <3>1, CallFails, CallIsTaken
  <2>5. CASE Desk!Trade
    <3>1. UNCHANGED <<inbox, alerts, members, users, events, page, request>>
      BY <2>5 DEF Desk!Trade, Desk!tables
    <3> QED
      BY <2>1, <3>1 DEF DeskInv, DeskTables, Calls, AlertsShow, EventsAreTrue, DeskWaits,
         Desk!ClosedTogether, Desk!ResolvedByOne, Desk!SentIsStored
  <2>6. ASSUME NEW c \in Desk!Requests,
               \/ Desk!ResolveRead(c) \/ Desk!ApproveRead(c) \/ Desk!RefreshRead(c)
               \/ Desk!FindUser(c) \/ Desk!Die(c)
        PROVE  DeskInv' /\ Desk!ApprovedStays
    <3>1. inbox' = inbox
      BY <2>6 DEF Desk!ResolveRead, Desk!ApproveRead, Desk!RefreshRead, Desk!FindUser, Desk!Die,
         Desk!tables
    <3> QED
      BY <2>1, <2>6, <3>1, DeskReads
  <2>7. ASSUME NEW c \in Desk!Requests, Desk!ResolveBatch(c) \/ Desk!ApproveBatch(c)
        PROVE  DeskInv' /\ Desk!ApprovedStays
    BY <2>7, AlertResolves, ApplicantApproved
  <2>8. ASSUME NEW c \in Desk!Requests,
               Desk!CreateUser(c) \/ Desk!Link(c) \/ Desk!RefreshBatch(c)
        PROVE  DeskInv' /\ Desk!ApprovedStays
    <3>1. inbox' = inbox
      BY <2>8 DEF Desk!CreateUser, Desk!Link, Desk!RefreshBatch
    <3> QED
      BY <2>1, <2>8, <3>1, AccountsFollow
  <2> QED
    BY <1>2, <2>2, <2>3, <2>4, <2>5, <2>6, <2>7, <2>8 DEF Desk!Next
<1> QED
  BY <1>1, <1>2

LEMMA DeskHolds == Desk!Spec => []DeskInv
<1>1. DeskInv /\ [Desk!Next]_(Desk!vars) => DeskInv'
  BY DeskStep
<1> QED
  BY <1>1, InitDesk, PTL DEF Desk!Spec

\* A request of a customer and its alert are closed together, whoever closes which of them.
THEOREM ClosedTogetherHolds == Desk!Spec => []Desk!ClosedTogether
<1>1. DeskInv => Desk!ClosedTogether
  BY DEF DeskInv
<1> QED
  BY <1>1, DeskHolds, PTL

\* Of any number of people who resolve one alert at once one is told so and logged.
THEOREM ResolvedByOneHolds == Desk!Spec => []Desk!ResolvedByOne
<1>1. DeskInv => Desk!ResolvedByOne
  BY DEF DeskInv
<1> QED
  BY <1>1, DeskHolds, PTL

\* What the page reported as sent is stored, however answers get lost and forms are sent again.
THEOREM SentIsStoredHolds == Desk!Spec => []Desk!SentIsStored
<1>1. DeskInv => Desk!SentIsStored
  BY DEF DeskInv
<1> QED
  BY <1>1, DeskHolds, PTL

\* An approved application stays approved, also for those who had its alert still open.
THEOREM ApprovedStaysHolds == Desk!Spec => [][Desk!ApprovedStays]_(Desk!vars)
<1>1. DeskInv /\ [Desk!Next]_(Desk!vars) => [Desk!ApprovedStays]_(Desk!vars)
  BY DeskStep
<1> QED
  BY <1>1, DeskHolds, PTL DEF Desk!Spec

-----------------------------------------------------------------------------
(***************************************************************************)
(* Deliveries.  What a request read before it wrote stays true meanwhile:  *)
(* quotes keep their fee, photos their owner, ends are not taken back, and *)
(* the number of a request names one quote, order, file and proof at most. *)
(***************************************************************************)

QuoteShape(r) == r \in [cart : {r.cart}, fee : {r.fee}, expires : {r.expires},
                        status : {"checkout", "locked", "removed"}, order : {r.order}]
OrderShape(r) == r \in [cart : {r.cart}, fee : {r.fee}, quote : {r.quote}, status : Home!Statuses,
                        shipper : {r.shipper}, otp : BOOLEAN, endedBy : {r.endedBy}]
ProofShape(p) == p \in [id : Home!Requests, order : {p.order}, type : {"photo", "otp"},
                        purpose : Home!Purposes, by : {p.by}, url : BOOLEAN, at : Nat]
UploadShape(r) == r \in [at : {"save", "insert"}, order : {r.order}, purpose : Home!Purposes,
                         by : {r.by}]
SweepShape(r) == r \in [at : {"unlink", "quotes"}, photos : {r.photos}, started : {r.started}]

HomeTables ==
  /\ DOMAIN quotes \subseteq Home!Requests /\ DOMAIN orders \subseteq Home!Requests
  /\ \A q \in DOMAIN quotes : QuoteShape(quotes[q])
  /\ \A o \in DOMAIN orders : OrderShape(orders[o])
  /\ \A p \in proofs : ProofShape(p)
  /\ DOMAIN request = Home!Requests /\ now \in Nat

\* What a request has made has its number, and it makes one thing.
MadeOnce ==
  /\ \A q \in DOMAIN quotes : request[q].at = "done"
  /\ \A o \in DOMAIN orders : request[o].at = "done"
  /\ \A p \in proofs : request[p.id].at = "done"
  /\ \A p, q \in proofs : p.id = q.id => p = q

Fees ==
  /\ \A o \in DOMAIN orders :
       /\ orders[o].quote \in DOMAIN quotes
       /\ orders[o].fee = quotes[orders[o].quote].fee
       /\ orders[o].cart = quotes[orders[o].quote].cart
  /\ \A q \in DOMAIN quotes : quotes[q].status = "locked" =>
       quotes[q].order \in DOMAIN orders /\ orders[quotes[q].order].quote = q

Proved(o, by, purpose) == \E p \in proofs : p.order = o /\ p.by = by /\ p.purpose = purpose

Ends ==
  \A o \in DOMAIN orders : orders[o].endedBy # None =>
    /\ orders[o].status \in Home!Purposes /\ ~orders[o].otp
    /\ Proved(o, orders[o].endedBy, orders[o].status)

\* A photo that may go is of a time that stays over.
IsOld(f) ==
  /\ f \in Home!Requests /\ request[f].at = "done"
  /\ \A p \in proofs : p.id = f => p.at < now - Retention

CreateWaits(c) ==
  request[c].at = "create" =>
    /\ request[c].quote \in DOMAIN quotes
    /\ request[c].fee = quotes[request[c].quote].fee
    /\ request[c].cart = quotes[request[c].quote].cart

EndWaits(c) ==
  request[c].at = "end" =>
    /\ request[c].order \in DOMAIN orders
    /\ request[c].from \in Home!Trip /\ request[c].to \in Home!Purposes
    /\ request[c].otp \in BOOLEAN
    /\ request[c].otp => request[c].to = "delivered"
    /\ request[c].by # None /\ ~request[c].otp =>
         Proved(request[c].order, request[c].by, request[c].to)

UploadWaits(c) ==
  /\ request[c].at \in {"save", "insert"} => UploadShape(request[c])
  /\ request[c].at = "insert" => c \in files

SweepWaits(c) ==
  /\ request[c].at \in {"unlink", "quotes"} => SweepShape(request[c])
  /\ request[c].at = "unlink" => \A f \in request[c].photos : IsOld(f)

HomeWaits(c) == CreateWaits(c) /\ EndWaits(c) /\ UploadWaits(c) /\ SweepWaits(c)

HomeInv ==
  /\ HomeTables /\ MadeOnce /\ Fees /\ Ends /\ Home!PhotoIsKept
  /\ \A c \in Home!Requests : HomeWaits(c)

LEMMA InitHome == ASSUME DayIsCounted PROVE Home!Init => HomeInv
<1> SUFFICES ASSUME Home!Init PROVE HomeInv
  OBVIOUS
<1>1. 1 \in Home!Requests /\ now = 0 /\ proofs = {} /\ files = {}
  BY DEF DayIsCounted, Home!Requests, Home!Init
<1>2. CASE quotes = <<>> /\ orders = <<>> /\ request = [c \in Home!Requests |-> Home!Idle]
  <2>1. DOMAIN quotes = {} /\ DOMAIN orders = {} /\ \A c \in Home!Requests : request[c].at = "idle"
    BY <1>2 DEF Home!Idle
  <2> QED
    BY <1>1, <1>2, <2>1 DEF HomeInv, HomeTables, MadeOnce, Fees, Ends, HomeWaits, CreateWaits,
       EndWaits, UploadWaits, SweepWaits, Home!PhotoIsKept
<1>3. CASE \E cart \in OfferedCarts, s \in Shippers["home"] :
          /\ quotes = [q \in {1} |-> [cart |-> cart, fee |-> Default["home"], expires |-> Life,
                                     status |-> "locked", order |-> 1]]
          /\ orders = [o \in {1} |-> [cart |-> cart, fee |-> Default["home"], quote |-> 1, status |-> "assigned",
                                     shipper |-> s, otp |-> TRUE, endedBy |-> None]]
          /\ request = [c \in Home!Requests |-> IF c = 1 THEN Home!Done ELSE Home!Idle]
  <2>1. PICK cart \in OfferedCarts, s \in Shippers["home"] :
          /\ quotes = [q \in {1} |-> [cart |-> cart, fee |-> Default["home"], expires |-> Life,
                                     status |-> "locked", order |-> 1]]
          /\ orders = [o \in {1} |-> [cart |-> cart, fee |-> Default["home"], quote |-> 1, status |-> "assigned",
                                     shipper |-> s, otp |-> TRUE, endedBy |-> None]]
          /\ request = [c \in Home!Requests |-> IF c = 1 THEN Home!Done ELSE Home!Idle]
    BY <1>3
  <2>2. DOMAIN quotes = {1} /\ DOMAIN orders = {1} /\ DOMAIN request = Home!Requests
        /\ \A c \in Home!Requests : request[c].at = IF c = 1 THEN "done" ELSE "idle"
    BY <2>1 DEF Home!Idle, Home!Done
  <2>3. QuoteShape(quotes[1]) /\ OrderShape(orders[1])
    BY <2>1 DEF QuoteShape, OrderShape, Home!Statuses
  <2>4. /\ orders[1].quote = 1 /\ orders[1].fee = quotes[1].fee /\ orders[1].cart = quotes[1].cart
        /\ quotes[1].order = 1 /\ orders[1].endedBy = None
    BY <2>1
  <2> QED
    BY <1>1, <2>2, <2>3, <2>4
       DEF HomeInv, HomeTables, MadeOnce, Fees, Ends, HomeWaits, CreateWaits,
       EndWaits, UploadWaits, SweepWaits, Home!PhotoIsKept
<1> QED
  BY <1>2, <1>3 DEF Home!Init

-----------------------------------------------------------------------------
\* What a step keeps, so that all that the others have read stays true.
KeepsQuotes ==
  /\ DOMAIN quotes \subseteq DOMAIN quotes'
  /\ \A q \in DOMAIN quotes : quotes'[q].fee = quotes[q].fee /\ quotes'[q].cart = quotes[q].cart
KeepsProofs ==
  \A o, by, purpose : Proved(o, by, purpose) =>
    \E p \in proofs' : p.order = o /\ p.by = by /\ p.purpose = purpose

MovesOn(c, what) ==
  /\ DOMAIN request' = Home!Requests /\ request'[c] = what
  /\ \A d \in Home!Requests : d # c => request'[d] = request[d]

LEMMA MovesOne ==
  ASSUME HomeInv, NEW c \in Home!Requests, NEW what, Home!Then(c, what)
  PROVE  MovesOn(c, what)
BY DEF HomeInv, HomeTables, Home!Then, MovesOn

\* Proofs may be added under a number that has made none, and none is taken away.
NewProofs ==
  \A p \in proofs' : (\E q \in proofs : q.id = p.id /\ q.at = p.at) \/ request[p.id].at # "done"

\* The reading of a request that the step is not of.
LEMMA StillWaits ==
  ASSUME DayIsCounted, HomeInv, NEW d \in Home!Requests, request'[d] = request[d],
         KeepsQuotes, KeepsProofs, NewProofs, DOMAIN orders \subseteq DOMAIN orders',
         \A f \in Home!Requests : request[f].at = "done" => request'[f].at = "done",
         request[d].at = "insert" => d \in files',
         now' \in Nat, now' >= now
  PROVE  HomeWaits(d)'
<1>1. HomeWaits(d)
  BY DEF HomeInv
<1>2. CreateWaits(d)'
  BY <1>1 DEF HomeWaits, CreateWaits, KeepsQuotes
<1>3. EndWaits(d)'
  BY <1>1 DEF HomeWaits, EndWaits, KeepsProofs, Proved
<1>4. UploadWaits(d)'
  BY <1>1 DEF HomeWaits, UploadWaits
<1>5. SweepWaits(d)'
  <2>1. ASSUME request[d].at = "unlink", NEW f \in request[d].photos PROVE IsOld(f)'
    <3>1. IsOld(f)
      BY <1>1, <2>1 DEF HomeWaits, SweepWaits
    <3>2. f \in Home!Requests /\ request'[f].at = "done"
      BY <3>1 DEF IsOld
    <3>3. ASSUME NEW p \in proofs', p.id = f PROVE p.at < now' - Retention
      <4>1. PICK q \in proofs : q.id = p.id /\ q.at = p.at
        BY <3>1, <3>3 DEF IsOld, NewProofs
      <4>2. q.at < now - Retention /\ q.at \in Nat /\ now \in Nat
        BY <3>1, <3>3, <4>1 DEF IsOld, HomeInv, HomeTables, ProofShape
      <4> QED
        BY <4>1, <4>2 DEF DayIsCounted
    <3> QED
      BY <3>2, <3>3 DEF IsOld
  <2>2. request'[d].at = "unlink" => \A f \in request'[d].photos : IsOld(f)'
    BY <2>1
  <2> QED
    BY <1>1, <2>2 DEF HomeWaits, SweepWaits
<1> QED
  BY <1>2, <1>3, <1>4, <1>5 DEF HomeWaits

LEMMA NothingWaits ==
  ASSUME NEW c, request'[c].at \in {"done", "quote", "route"}
  PROVE  HomeWaits(c)'
BY DEF HomeWaits, CreateWaits, EndWaits, UploadWaits, SweepWaits

\* A step that changes no table, or only adds a file.
LEMMA HomeReads ==
  ASSUME DayIsCounted, HomeInv, NEW c \in Home!Requests, NEW what, MovesOn(c, what),
         request[c].at # "done", UNCHANGED <<quotes, orders, proofs, now>>, files \subseteq files',
         HomeWaits(c)'
  PROVE  HomeInv'
<1>1. HomeTables' /\ MadeOnce' /\ Fees' /\ Ends' /\ Home!PhotoIsKept'
  <2>1. HomeTables'
    BY DEF HomeInv, HomeTables, MovesOn
  <2>2. MadeOnce'
    BY DEF HomeInv, HomeTables, MadeOnce, MovesOn, ProofShape
  <2>3. Fees' /\ Ends'
    BY DEF HomeInv, Fees, Ends, Proved
  <2>4. Home!PhotoIsKept'
    BY DEF HomeInv, Home!PhotoIsKept
  <2> QED
    BY <2>1, <2>2, <2>3, <2>4
<1>2. ASSUME NEW d \in Home!Requests PROVE HomeWaits(d)'
  <2>1. CASE d = c
    BY <2>1
  <2>2. CASE d # c
    <3>1. KeepsQuotes /\ KeepsProofs /\ NewProofs
      BY DEF KeepsQuotes, KeepsProofs, NewProofs, Proved
    <3>2. /\ request'[d] = request[d]
          /\ \A f \in Home!Requests : request[f].at = "done" => request'[f].at = "done"
          /\ now' \in Nat /\ now' >= now
      BY <2>2 DEF MovesOn, HomeInv, HomeTables
    <3>3. request[d].at = "insert" => d \in files'
      BY DEF HomeInv, HomeWaits, UploadWaits
    <3> QED
      BY <3>1, <3>2, <3>3, StillWaits
  <2> QED
    BY <2>1, <2>2
<1> QED
  BY <1>1, <1>2 DEF HomeInv

LEMMA HomeBegins ==
  ASSUME NEW c, NEW what, Home!Begin(c, what)
  PROVE  request[c].at = "idle" /\ Home!Then(c, what)
BY DEF Home!Begin, Home!Idle

LEMMA QuoteLooks ==
  ASSUME DayIsCounted, HomeInv, NEW c \in Home!Requests,
         \/ Home!UpsertRule(c) \/ Home!ArchiveRule(c) \/ Home!QuoteRead(c) \/ Home!RouteRead(c)
         \/ Home!CreateRead(c) \/ Home!Die(c)
  PROVE  HomeInv'
<1>1. UNCHANGED <<quotes, orders, proofs, now>> /\ files \subseteq files'
  BY DEF Home!UpsertRule, Home!ArchiveRule, Home!QuoteRead, Home!RouteRead, Home!CreateRead,
     Home!Die
<1>2. CASE ~ Home!CreateRead(c)
  <2>1. PICK what : /\ Home!Then(c, what) /\ what.at \in {"done", "quote", "route"}
                    /\ request[c].at # "done"
    <3>1. CASE Home!UpsertRule(c) \/ Home!ArchiveRule(c)
      <4>1. Home!Begin(c, Home!Done) /\ Home!Done.at = "done"
        BY <3>1 DEF Home!UpsertRule, Home!ArchiveRule, Home!Done
      <4> QED
        BY <4>1, HomeBegins
    <3>2. CASE Home!QuoteRead(c)
      <4>1. PICK cart \in OfferedCarts :
              Home!Begin(c, [at |-> "quote", cart |-> cart, fee |-> Home!resolveDeliveryFee(cart)])
        BY <3>2 DEF Home!QuoteRead
      <4> HIDE DEF Home!resolveDeliveryFee
      <4>2. [at |-> "quote", cart |-> cart, fee |-> Home!resolveDeliveryFee(cart)].at = "quote"
        OBVIOUS
      <4> QED
        BY <4>1, <4>2, HomeBegins
    <3>3. CASE Home!RouteRead(c)
      <4>1. PICK s, set : Home!Begin(c, [at |-> "route", orders |-> set, shipper |-> s])
        BY <3>3 DEF Home!RouteRead
      <4>2. [at |-> "route", orders |-> set, shipper |-> s].at = "route"
        OBVIOUS
      <4> QED
        BY <4>1, <4>2, HomeBegins
    <3>4. CASE Home!Die(c)
      BY <3>4 DEF Home!Die, Home!Done
    <3> QED
      BY <1>2, <3>1, <3>2, <3>3, <3>4
  <2>2. MovesOn(c, what)
    BY <2>1, MovesOne
  <2>3. HomeWaits(c)'
    BY <2>1, <2>2, NothingWaits DEF MovesOn
  <2>4. request[c].at # "done"
    BY <2>1
  <2> QED
    BY <1>1, <2>2, <2>3, <2>4, HomeReads
<1>3. CASE Home!CreateRead(c)
  <2>1. PICK q \in DOMAIN quotes, cart \in OfferedCarts :
          /\ quotes[q].cart = cart
          /\ Home!Then(c, [at |-> "create", quote |-> q, cart |-> cart, fee |-> quotes[q].fee,
                           started |-> now])
    BY <1>3 DEF Home!CreateRead, Home!Quoted, Home!Begin
  <2> DEFINE what == [at |-> "create", quote |-> q, cart |-> cart, fee |-> quotes[q].fee,
                      started |-> now]
  <2>2. MovesOn(c, what)
    BY <2>1, MovesOne
  <2>3. /\ request'[c].at = "create" /\ request'[c].quote = q
        /\ request'[c].cart = cart /\ request'[c].fee = quotes[q].fee
    BY <2>2 DEF MovesOn
  <2>4. HomeWaits(c)'
    BY <1>1, <2>1, <2>3 DEF HomeWaits, CreateWaits, EndWaits, UploadWaits, SweepWaits
  <2>5. request[c].at # "done"
    BY <1>3 DEF Home!CreateRead, Home!Begin, Home!Idle
  <2> QED
    BY <1>1, <2>2, <2>4, <2>5, HomeReads
<1> QED
  BY <1>2, <1>3

LEMMA EndLooks ==
  ASSUME DayIsCounted, HomeInv, NEW c \in Home!Requests, Home!EndRead(c)
  PROVE  HomeInv'
<1>1. UNCHANGED <<quotes, orders, proofs, now>> /\ files \subseteq files'
      /\ request[c].at # "done"
  BY DEF Home!EndRead, Home!Begin, Home!Idle
<1>2. PICK o, s, otp, by :
        /\ o \in DOMAIN orders /\ s \in Home!Purposes /\ otp \in BOOLEAN
        /\ orders[o].status \in (IF s = "delivered" THEN {"delivering"} ELSE Home!Trip)
        /\ otp => by # None /\ s = "delivered" /\ orders[o].otp
        /\ by # None /\ ~otp => Home!Photos(o, by, s) # {}
        /\ Home!Then(c, [at |-> "end", order |-> o, from |-> orders[o].status, to |-> s,
                         by |-> by, otp |-> otp])
  BY DEF Home!EndRead, Home!Begin
<1> DEFINE what == [at |-> "end", order |-> o, from |-> orders[o].status, to |-> s,
                    by |-> by, otp |-> otp]
<1>3. MovesOn(c, what)
  BY <1>2, MovesOne
<1>4. /\ request'[c].at = "end" /\ request'[c].order = o /\ request'[c].from = orders[o].status
      /\ request'[c].to = s /\ request'[c].by = by /\ request'[c].otp = otp
  BY <1>3 DEF MovesOn
<1>5. orders[o].status \in Home!Trip
  BY <1>2 DEF Home!Trip
<1>6. by # None /\ ~otp => Proved(o, by, s)
  BY <1>2 DEF Home!Photos, Proved
<1>7. EndWaits(c)'
  BY <1>1, <1>2, <1>4, <1>5, <1>6 DEF EndWaits, Proved
<1>8. HomeWaits(c)'
  BY <1>4, <1>7 DEF HomeWaits, CreateWaits, UploadWaits, SweepWaits
<1> QED
  BY <1>1, <1>3, <1>8, HomeReads

LEMMA UploadLooks ==
  ASSUME DayIsCounted, HomeInv, NEW c \in Home!Requests, Home!UploadRead(c) \/ Home!UploadSave(c)
  PROVE  HomeInv'
<1>1. UNCHANGED <<quotes, orders, proofs, now>> /\ files \subseteq files'
      /\ request[c].at # "done"
  <2>1. CASE Home!UploadRead(c)
    BY <2>1 DEF Home!UploadRead, Home!Begin, Home!Idle
  <2>2. CASE Home!UploadSave(c)
    BY <2>2 DEF Home!UploadSave
  <2> QED
    BY <2>1, <2>2
<1>2. PICK what : /\ Home!Then(c, what) /\ UploadShape(what)
                  /\ what.at = "insert" => c \in files'
  <2>1. CASE Home!UploadRead(c)
    <3>1. PICK o \in DOMAIN orders, s \in Home!Purposes :
            Home!Then(c, [at |-> "save", order |-> o, purpose |-> s, by |-> orders[o].shipper])
      BY <2>1 DEF Home!UploadRead, Home!Begin
    <3>2. UploadShape([at |-> "save", order |-> o, purpose |-> s, by |-> orders[o].shipper])
      BY DEF UploadShape
    <3> QED
      BY <3>1, <3>2
  <2>2. CASE Home!UploadSave(c)
    <3>1. UploadShape(request[c])
      BY <2>2 DEF HomeInv, HomeWaits, UploadWaits, Home!UploadSave
    <3>2. UploadShape([request[c] EXCEPT !.at = "insert"])
      BY <3>1 DEF UploadShape
    <3> QED
      BY <2>2, <3>2 DEF Home!UploadSave
  <2> QED
    BY <2>1, <2>2
<1>3. MovesOn(c, what) /\ request'[c] = what /\ what.at \in {"save", "insert"}
  BY <1>2, MovesOne DEF MovesOn, UploadShape
<1>4. UploadWaits(c)'
  BY <1>2, <1>3 DEF UploadWaits
<1>5. HomeWaits(c)'
  BY <1>3, <1>4 DEF HomeWaits, CreateWaits, EndWaits, SweepWaits
<1> QED
  BY <1>1, <1>3, <1>5, HomeReads

LEMMA SweepLooks ==
  ASSUME DayIsCounted, HomeInv, NEW c \in Home!Requests, Home!CleanRead(c)
  PROVE  HomeInv'
<1> DEFINE photos == {p.id : p \in Home!Expired}
           what == [at |-> "unlink", photos |-> photos, started |-> now]
<1>1. UNCHANGED <<quotes, orders, proofs, now>> /\ files \subseteq files'
      /\ request[c].at # "done" /\ Home!Then(c, what)
  BY DEF Home!CleanRead, Home!Begin, Home!Idle
<1>2. MovesOn(c, what)
  BY <1>1, MovesOne
<1>3. ASSUME NEW f \in photos PROVE IsOld(f)'
  <2>1. PICK p \in proofs : p.id = f /\ p.at < now - Retention
    BY <1>3 DEF Home!Expired
  <2>2. f \in Home!Requests /\ request[f].at = "done"
    BY <2>1 DEF HomeInv, HomeTables, MadeOnce, ProofShape
  <2>3. request'[f].at = "done"
    BY <1>1, <1>2, <2>2 DEF MovesOn
  <2>4. \A q \in proofs : q.id = f => q = p
    BY <2>1 DEF HomeInv, MadeOnce
  <2> QED
    BY <1>1, <2>1, <2>2, <2>3, <2>4 DEF IsOld
<1> HIDE DEF photos
<1>4. SweepShape(what) /\ what.at = "unlink" /\ what.photos = photos
  BY DEF SweepShape
<1> HIDE DEF what
<1>5. request'[c] = what
  BY <1>2 DEF MovesOn
<1>6. SweepWaits(c)'
  BY <1>3, <1>4, <1>5 DEF SweepWaits
<1>7. HomeWaits(c)'
  BY <1>4, <1>5, <1>6 DEF HomeWaits, CreateWaits, EndWaits, UploadWaits
<1> QED
  BY <1>1, <1>2, <1>7, HomeReads

-----------------------------------------------------------------------------
\* After a write of the request c the others wait as before.
LEMMA WritersWait ==
  ASSUME DayIsCounted, HomeInv, NEW c \in Home!Requests, NEW what, MovesOn(c, what),
         request[c].at # "done", KeepsQuotes, KeepsProofs, NewProofs,
         DOMAIN orders \subseteq DOMAIN orders', now' = now,
         \A d \in Home!Requests : d # c /\ request[d].at = "insert" => d \in files',
         HomeWaits(c)', NEW d \in Home!Requests
  PROVE  HomeWaits(d)'
<1>1. CASE d = c
  BY <1>1
<1>2. CASE d # c
  <2>1. /\ request'[d] = request[d]
        /\ \A f \in Home!Requests : request[f].at = "done" => request'[f].at = "done"
        /\ now' \in Nat /\ now' >= now
    BY <1>2 DEF MovesOn, HomeInv, HomeTables
  <2>2. request[d].at = "insert" => d \in files'
    BY <1>2
  <2> QED
    BY <2>1, <2>2, StillWaits
<1> QED
  BY <1>1, <1>2

LEMMA ProofsStay == ASSUME UNCHANGED proofs PROVE KeepsProofs /\ NewProofs
BY DEF KeepsProofs, NewProofs, Proved

LEMMA QuotesStay == ASSUME UNCHANGED quotes PROVE KeepsQuotes
BY DEF KeepsQuotes

LEMMA FilesStay ==
  ASSUME HomeInv, UNCHANGED files, NEW d \in Home!Requests, request[d].at = "insert"
  PROVE  d \in files'
BY DEF HomeInv, HomeWaits, UploadWaits

LEMMA QuoteInserted ==
  ASSUME DayIsCounted, HomeInv, NEW c \in Home!Requests, Home!QuoteInsert(c)
  PROVE  HomeInv'
<1> DEFINE row == [cart |-> request[c].cart, fee |-> request[c].fee, order |-> None,
                   expires |-> now + Life, status |-> "checkout"]
<1>1. /\ request[c].at = "quote" /\ UNCHANGED <<orders, proofs, files, now>>
      /\ quotes' = Home!Insert(quotes, c, row) /\ Home!Then(c, Home!Done)
  BY DEF Home!QuoteInsert
<1>2. MovesOn(c, Home!Done) /\ Home!Done.at = "done"
  BY <1>1, MovesOne DEF Home!Done
<1>3. c \notin DOMAIN quotes
  BY <1>1 DEF HomeInv, MadeOnce
<1>4. /\ DOMAIN quotes' = DOMAIN quotes \cup {c} /\ quotes'[c] = row
      /\ \A q \in DOMAIN quotes : quotes'[q] = quotes[q]
  BY <1>1, <1>3 DEF Home!Insert
<1>5. QuoteShape(row) /\ row.status = "checkout"
  BY DEF QuoteShape
<1> HIDE DEF row
<1>6. HomeTables'
  BY <1>1, <1>2, <1>4, <1>5 DEF HomeInv, HomeTables, MovesOn
<1>7. MadeOnce'
  BY <1>1, <1>2, <1>4 DEF HomeInv, HomeTables, MadeOnce, MovesOn, ProofShape
<1>8. Fees'
  BY <1>1, <1>4, <1>5 DEF HomeInv, Fees
<1>9. Ends' /\ Home!PhotoIsKept'
  BY <1>1 DEF HomeInv, Ends, Proved, Home!PhotoIsKept
<1>10. KeepsQuotes
  BY <1>4 DEF KeepsQuotes
<1>11. HomeWaits(c)'
  BY <1>2, NothingWaits DEF MovesOn
<1>12. \A d \in Home!Requests : HomeWaits(d)'
  BY <1>1, <1>2, <1>10, <1>11, ProofsStay, FilesStay, WritersWait
<1> QED
  BY <1>6, <1>7, <1>8, <1>9, <1>12 DEF HomeInv

\* The order takes the fee of its quote; the quote names the first order that was placed with it.
LEMMA OrderPlaced ==
  ASSUME DayIsCounted, HomeInv, NEW c \in Home!Requests, Home!CreateBatch(c)
  PROVE  HomeInv'
<1> DEFINE k == request[c].quote
           row == [cart |-> request[c].cart, fee |-> request[c].fee, quote |-> k, status |-> "new",
                   shipper |-> None, otp |-> FALSE, endedBy |-> None]
<1>1. /\ request[c].at = "create" /\ UNCHANGED <<proofs, files, now>>
      /\ orders' = Home!Insert(orders, c, row) /\ Home!Then(c, Home!Done)
      /\ \/ quotes' = quotes
         \/ /\ quotes[k].status = "checkout"
            /\ quotes' = [quotes EXCEPT ![k].status = "locked", ![k].order = c]
  BY DEF Home!CreateBatch
<1>2. MovesOn(c, Home!Done) /\ Home!Done.at = "done"
  BY <1>1, MovesOne DEF Home!Done
<1>3. c \notin DOMAIN orders
  BY <1>1 DEF HomeInv, MadeOnce
<1>4. k \in DOMAIN quotes /\ request[c].fee = quotes[k].fee /\ request[c].cart = quotes[k].cart
  BY <1>1 DEF HomeInv, HomeWaits, CreateWaits
<1>5. /\ DOMAIN orders' = DOMAIN orders \cup {c} /\ orders'[c] = row
      /\ \A o \in DOMAIN orders : orders'[o] = orders[o]
  BY <1>1, <1>3 DEF Home!Insert
<1>6. /\ OrderShape(row) /\ row.quote = k /\ row.endedBy = None
      /\ row.fee = request[c].fee /\ row.cart = request[c].cart
  BY DEF OrderShape, Home!Statuses
<1>7. /\ DOMAIN quotes' = DOMAIN quotes
      /\ \A q \in DOMAIN quotes :
           /\ QuoteShape(quotes'[q])
           /\ quotes'[q].fee = quotes[q].fee /\ quotes'[q].cart = quotes[q].cart
           /\ quotes'[q] # quotes[q] => q = k /\ quotes'[q].order = c
  <2>1. CASE quotes' = quotes
    BY <2>1 DEF HomeInv, HomeTables, QuoteShape
  <2>2. CASE quotes' = [quotes EXCEPT ![k].status = "locked", ![k].order = c]
    <3>1. QuoteShape(quotes[k])
      BY <1>4 DEF HomeInv, HomeTables
    <3>2. DOMAIN quotes' = DOMAIN quotes /\ \A q \in DOMAIN quotes : q # k => quotes'[q] = quotes[q]
      BY <2>2
    <3>3. /\ QuoteShape(quotes'[k]) /\ quotes'[k].order = c
          /\ quotes'[k].fee = quotes[k].fee /\ quotes'[k].cart = quotes[k].cart
      BY <1>4, <2>2, <3>1 DEF QuoteShape
    <3> QED
      BY <3>2, <3>3 DEF HomeInv, HomeTables, QuoteShape
  <2> QED
    BY <1>1, <2>1, <2>2
<1> HIDE DEF row, k
<1>8. HomeTables'
  BY <1>1, <1>2, <1>5, <1>6, <1>7 DEF HomeInv, HomeTables, MovesOn
<1>9. MadeOnce'
  BY <1>1, <1>2, <1>5, <1>7 DEF HomeInv, HomeTables, MadeOnce, MovesOn, ProofShape
<1>10. Fees'
  BY <1>3, <1>4, <1>5, <1>6, <1>7 DEF HomeInv, Fees
<1>11. Ends' /\ Home!PhotoIsKept'
  BY <1>1, <1>5, <1>6 DEF HomeInv, Ends, Proved, Home!PhotoIsKept
<1>12. KeepsQuotes
  BY <1>7 DEF KeepsQuotes
<1>13. HomeWaits(c)'
  BY <1>2, NothingWaits DEF MovesOn
<1>14. \A d \in Home!Requests : HomeWaits(d)'
  BY <1>1, <1>2, <1>5, <1>12, <1>13, ProofsStay, FilesStay, WritersWait
<1> QED
  BY <1>8, <1>9, <1>10, <1>11, <1>14 DEF HomeInv

\* What becomes of an order that has not ended.
Onward(r, s) ==
  /\ OrderShape(s) /\ s.fee = r.fee /\ s.cart = r.cart /\ s.quote = r.quote
  /\ s # r => r.endedBy = None /\ s.endedBy = None

LEMMA OrdersGoOn ==
  ASSUME DayIsCounted, HomeInv, UNCHANGED <<quotes, proofs, files, now>>,
         DOMAIN orders' = DOMAIN orders,
         \A o \in DOMAIN orders : Onward(orders[o], orders'[o]),
         DOMAIN request' = Home!Requests,
         \A d \in Home!Requests : request[d].at = "done" => request'[d].at = "done",
         \A d \in Home!Requests : HomeWaits(d)'
  PROVE  HomeInv'
<1>1. HomeTables'
  BY DEF HomeInv, HomeTables, Onward
<1>2. MadeOnce'
  BY DEF HomeInv, HomeTables, MadeOnce, ProofShape
<1>3. Fees'
  BY DEF HomeInv, Fees, Onward
<1>4. Ends'
  BY DEF HomeInv, Ends, Proved, Onward
<1>5. Home!PhotoIsKept'
  BY DEF HomeInv, Home!PhotoIsKept
<1> QED
  BY <1>1, <1>2, <1>3, <1>4, <1>5 DEF HomeInv

LEMMA RouteTaken ==
  ASSUME DayIsCounted, HomeInv, NEW c \in Home!Requests, Home!RouteBatch(c)
  PROVE  HomeInv'
<1>1. /\ request[c].at = "route" /\ UNCHANGED <<quotes, proofs, files, now>>
      /\ Home!Then(c, Home!Done) /\ DOMAIN orders' = DOMAIN orders
      /\ \A o \in DOMAIN orders :
           \/ orders'[o] = orders[o]
           \/ /\ orders[o].status = "ready"
              /\ orders'[o] = [orders[o] EXCEPT !.status = "assigned",
                                 !.shipper = request[c].shipper, !.otp = TRUE]
  BY DEF Home!RouteBatch
<1>2. MovesOn(c, Home!Done) /\ Home!Done.at = "done"
  BY <1>1, MovesOne DEF Home!Done
<1>3. ASSUME NEW o \in DOMAIN orders PROVE Onward(orders[o], orders'[o])
  <2>1. OrderShape(orders[o])
    BY DEF HomeInv, HomeTables
  <2>2. CASE orders'[o] = orders[o]
    BY <2>1, <2>2 DEF Onward, OrderShape
  <2>3. CASE /\ orders[o].status = "ready"
             /\ orders'[o] = [orders[o] EXCEPT !.status = "assigned",
                                !.shipper = request[c].shipper, !.otp = TRUE]
    <3>1. orders[o].endedBy = None
      BY <2>3 DEF HomeInv, Ends, Home!Purposes
    <3> QED
      BY <2>1, <2>3, <3>1 DEF Onward, OrderShape, Home!Statuses
  <2> QED
    BY <1>1, <2>2, <2>3
<1>4. HomeWaits(c)'
  BY <1>2, NothingWaits DEF MovesOn
<1>5. \A d \in Home!Requests : HomeWaits(d)'
  BY <1>1, <1>2, <1>4, ProofsStay, QuotesStay, FilesStay, WritersWait
<1>6. /\ DOMAIN request' = Home!Requests
      /\ \A d \in Home!Requests : request[d].at = "done" => request'[d].at = "done"
  BY <1>1, <1>2 DEF MovesOn
<1> QED
  BY <1>1, <1>3, <1>5, <1>6, OrdersGoOn

LEMMA OrderAdvanced ==
  ASSUME DayIsCounted, HomeInv, NEW o \in DOMAIN orders, Home!Advance(o)
  PROVE  HomeInv'
<1>1. PICK s \in Home!Statuses : orders' = [orders EXCEPT ![o].status = s] /\ Home!Move(o)
  BY DEF Home!Advance
<1>2. UNCHANGED <<quotes, proofs, files, now, request>> /\ DOMAIN orders' = DOMAIN orders
      /\ orders[o].status \in {"new", "assigned", "picked_up"}
  BY <1>1 DEF Home!Advance, Home!Move
<1>3. ASSUME NEW p \in DOMAIN orders PROVE Onward(orders[p], orders'[p])
  <2>1. OrderShape(orders[p])
    BY DEF HomeInv, HomeTables
  <2>2. CASE p # o
    BY <1>1, <2>1, <2>2 DEF Onward, OrderShape
  <2>3. CASE p = o
    <3>1. orders[o].endedBy = None
      BY <1>2 DEF HomeInv, Ends, Home!Purposes
    <3>2. orders'[o] = [orders[o] EXCEPT !.status = s]
      BY <1>1
    <3> QED
      BY <2>1, <2>3, <3>1, <3>2 DEF Onward, OrderShape
  <2> QED
    BY <2>2, <2>3
<1>4. ASSUME NEW d \in Home!Requests PROVE HomeWaits(d)'
  <2>1. request[d].at = "insert" => d \in files'
    BY <1>2, FilesStay
  <2>2. now' \in Nat /\ now' >= now
    BY <1>2 DEF HomeInv, HomeTables
  <2> QED
    BY <1>2, <2>1, <2>2, ProofsStay, QuotesStay, StillWaits
<1>5. DOMAIN request' = Home!Requests
      /\ \A d \in Home!Requests : request[d].at = "done" => request'[d].at = "done"
  BY <1>2 DEF HomeInv, HomeTables
<1> QED
  BY <1>2, <1>3, <1>4, <1>5, OrdersGoOn

\* An order ends once, with the code or the photo of that end.
LEMMA OrderEnded ==
  ASSUME DayIsCounted, HomeInv, NEW c \in Home!Requests, Home!EndBatch(c)
  PROVE  HomeInv'
<1> DEFINE o == request[c].order
           to == request[c].to
           by == request[c].by
           proof == [id |-> c, order |-> o, type |-> "otp", purpose |-> "delivered",
                     by |-> by, url |-> FALSE, at |-> now]
<1>1. /\ request[c].at = "end" /\ UNCHANGED <<quotes, files, now>> /\ Home!Then(c, Home!Done)
      /\ \/ UNCHANGED <<orders, proofs>>
         \/ /\ orders[o].status = request[c].from
            /\ orders' = [orders EXCEPT ![o].status = to, ![o].otp = FALSE, ![o].endedBy = by]
            /\ proofs' = IF request[c].otp THEN proofs \cup {proof} ELSE proofs
  BY DEF Home!EndBatch
<1>2. MovesOn(c, Home!Done) /\ Home!Done.at = "done"
  BY <1>1, MovesOne DEF Home!Done
<1>3. /\ o \in DOMAIN orders /\ request[c].from \in Home!Trip /\ to \in Home!Purposes
      /\ request[c].otp \in BOOLEAN /\ (request[c].otp => to = "delivered")
      /\ (by # None /\ ~request[c].otp => Proved(o, by, to))
  BY <1>1 DEF HomeInv, HomeWaits, EndWaits
<1>4. HomeWaits(c)'
  BY <1>2, NothingWaits DEF MovesOn
<1>5. /\ DOMAIN request' = Home!Requests
      /\ \A d \in Home!Requests : request[d].at = "done" => request'[d].at = "done"
  BY <1>1, <1>2 DEF MovesOn
<1>6. CASE UNCHANGED <<orders, proofs>>
  <2>1. \A d \in Home!Requests : HomeWaits(d)'
    BY <1>1, <1>2, <1>4, <1>6, ProofsStay, QuotesStay, FilesStay, WritersWait
  <2>2. \A p \in DOMAIN orders : Onward(orders[p], orders'[p])
    BY <1>6 DEF HomeInv, HomeTables, Onward
  <2> QED
    BY <1>1, <1>5, <1>6, <2>1, <2>2, OrdersGoOn
<1>7. CASE /\ orders[o].status = request[c].from
           /\ orders' = [orders EXCEPT ![o].status = to, ![o].otp = FALSE, ![o].endedBy = by]
           /\ proofs' = IF request[c].otp THEN proofs \cup {proof} ELSE proofs
  <2>1. OrderShape(orders[o])
    BY <1>3 DEF HomeInv, HomeTables
  <2>2. /\ DOMAIN orders' = DOMAIN orders
        /\ \A p \in DOMAIN orders : p # o => orders'[p] = orders[p]
    BY <1>7
  <2>3. /\ OrderShape(orders'[o])
        /\ orders'[o].fee = orders[o].fee /\ orders'[o].cart = orders[o].cart
        /\ orders'[o].quote = orders[o].quote /\ orders'[o].status = to /\ ~orders'[o].otp
        /\ orders'[o].endedBy = by
    BY <1>3, <1>7, <2>1 DEF OrderShape, Home!Statuses, Home!Purposes
  <2>4. ProofShape(proof) /\ proof.id = c /\ proof.order = o /\ proof.by = by
        /\ proof.purpose = "delivered" /\ proof.type = "otp"
    BY DEF ProofShape, Home!Purposes, HomeInv, HomeTables
  <2>5. \A p \in proofs' : p \in proofs \/ p = proof
    BY <1>7
  <2> HIDE DEF proof
  <2>6. KeepsProofs
    BY <1>7 DEF KeepsProofs, Proved
  <2>7. \A p \in proofs : p.id # c
    BY <1>1 DEF HomeInv, MadeOnce
  <2>8. by # None => \E p \in proofs' : p.order = o /\ p.by = by /\ p.purpose = to
    <3>1. CASE request[c].otp
      BY <1>3, <1>7, <2>4, <3>1
    <3>2. CASE ~request[c].otp
      BY <1>3, <2>6, <3>2 DEF KeepsProofs
    <3> QED
      BY <3>1, <3>2
  <2>9. NewProofs
    BY <1>1, <2>4, <2>5 DEF NewProofs
  <2> HIDE DEF o, to, by
  <2>10. HomeTables'
    BY <1>1, <1>5, <2>2, <2>3, <2>4, <2>5 DEF HomeInv, HomeTables
  <2>11. MadeOnce'
    BY <1>1, <1>2, <1>5, <2>2, <2>4, <2>5, <2>7
       DEF HomeInv, HomeTables, MadeOnce, ProofShape, MovesOn
  <2>12. Fees'
    BY <1>1, <1>3, <2>2, <2>3 DEF HomeInv, Fees
  <2>13. Ends'
    <3>1. ASSUME NEW p \in DOMAIN orders, p # o, orders[p].endedBy # None
          PROVE  /\ orders[p].status \in Home!Purposes /\ ~orders[p].otp
                 /\ \E x \in proofs' : /\ x.order = p /\ x.by = orders[p].endedBy
                                       /\ x.purpose = orders[p].status
      BY <2>6, <3>1 DEF HomeInv, Ends, KeepsProofs
    <3> QED
      BY <1>3, <2>2, <2>3, <2>8, <3>1 DEF Ends, Proved
  <2>14. Home!PhotoIsKept'
    BY <1>1, <2>4, <2>5 DEF HomeInv, Home!PhotoIsKept
  <2>15. \A d \in Home!Requests : HomeWaits(d)'
    BY <1>1, <1>2, <1>4, <2>2, <2>6, <2>9, QuotesStay, FilesStay, WritersWait
  <2> QED
    BY <2>10, <2>11, <2>12, <2>13, <2>14, <2>15 DEF HomeInv
<1> QED
  BY <1>1, <1>6, <1>7

\* The row of a photo is inserted while its file is there; without a row the file goes.
LEMMA PhotoInserted ==
  ASSUME DayIsCounted, HomeInv, NEW c \in Home!Requests, Home!UploadInsert(c)
  PROVE  HomeInv'
<1> DEFINE proof == [id |-> c, order |-> request[c].order, type |-> "photo",
                     purpose |-> request[c].purpose, by |-> request[c].by, url |-> TRUE, at |-> now]
<1>1. /\ request[c].at = "insert" /\ UNCHANGED <<quotes, orders, now>> /\ Home!Then(c, Home!Done)
      /\ \/ proofs' = proofs \cup {proof} /\ UNCHANGED files
         \/ files' = files \ {c} /\ UNCHANGED proofs
  BY DEF Home!UploadInsert
<1>2. MovesOn(c, Home!Done) /\ Home!Done.at = "done"
  BY <1>1, MovesOne DEF Home!Done
<1>3. c \in files /\ UploadShape(request[c])
  BY <1>1 DEF HomeInv, HomeWaits, UploadWaits
<1>4. ProofShape(proof) /\ proof.id = c
  BY <1>3 DEF ProofShape, UploadShape, HomeInv, HomeTables
<1> HIDE DEF proof
<1>5. \A p \in proofs : p.id # c
  BY <1>1 DEF HomeInv, MadeOnce
<1>6. /\ proofs \subseteq proofs' /\ \A p \in proofs' : p \in proofs \/ p = proof
      /\ files \ {c} \subseteq files'
      /\ proof \in proofs' => c \in files' \/ proof \in proofs
  BY <1>1, <1>3
<1>7. HomeTables'
  BY <1>1, <1>2, <1>4, <1>6 DEF HomeInv, HomeTables, MovesOn
<1>8. MadeOnce'
  BY <1>1, <1>2, <1>4, <1>5, <1>6 DEF HomeInv, HomeTables, MadeOnce, ProofShape, MovesOn
<1>9. Fees' /\ Ends'
  BY <1>1, <1>6 DEF HomeInv, Fees, Ends, Proved
<1>10. Home!PhotoIsKept'
  <2>1. ASSUME NEW p \in proofs', p.type = "photo", p.id \notin files'
        PROVE  p.at < now - Retention
    <3>1. p \in proofs
      BY <1>4, <1>6, <2>1
    <3>2. p.id \notin files
      BY <1>5, <1>6, <2>1, <3>1
    <3> QED
      BY <2>1, <3>1, <3>2 DEF HomeInv, Home!PhotoIsKept
  <2> QED
    BY <1>1, <2>1 DEF Home!PhotoIsKept
<1>11. KeepsProofs /\ NewProofs
  BY <1>1, <1>4, <1>6 DEF KeepsProofs, NewProofs, Proved
<1>12. HomeWaits(c)'
  BY <1>2, NothingWaits DEF MovesOn
<1>13. \A d \in Home!Requests : d # c /\ request[d].at = "insert" => d \in files'
  BY <1>6 DEF HomeInv, HomeWaits, UploadWaits
<1>14. \A d \in Home!Requests : HomeWaits(d)'
  BY <1>1, <1>2, <1>11, <1>12, <1>13, QuotesStay, WritersWait
<1> QED
  BY <1>7, <1>8, <1>9, <1>10, <1>14 DEF HomeInv

\* The clean-up deletes the files of old photos only, none that is being uploaded.
LEMMA FileCleaned ==
  ASSUME DayIsCounted, HomeInv, NEW c \in Home!Requests, Home!CleanFile(c)
  PROVE  HomeInv'
<1>1. PICK f \in request[c].photos : files' = files \ {f}
  BY DEF Home!CleanFile
<1>2. request[c].at = "unlink" /\ UNCHANGED <<quotes, orders, proofs, request, now>>
  BY DEF Home!CleanFile
<1>3. IsOld(f)
  BY <1>1, <1>2 DEF HomeInv, HomeWaits, SweepWaits
<1>4. HomeTables' /\ MadeOnce' /\ Fees' /\ Ends'
  BY <1>2 DEF HomeInv, HomeTables, MadeOnce, Fees, Ends, Proved
<1>5. Home!PhotoIsKept'
  BY <1>1, <1>2, <1>3 DEF HomeInv, Home!PhotoIsKept, IsOld
<1>6. ASSUME NEW d \in Home!Requests PROVE HomeWaits(d)'
  <2>1. request[d].at = "insert" => d \in files'
    BY <1>1, <1>3 DEF HomeInv, HomeWaits, UploadWaits, IsOld
  <2>2. now' \in Nat /\ now' >= now
    BY <1>2 DEF HomeInv, HomeTables
  <2> QED
    BY <1>2, <2>1, <2>2, ProofsStay, QuotesStay, StillWaits
<1> QED
  BY <1>4, <1>5, <1>6 DEF HomeInv

\* The rows of the deleted files lose their link, and old quotes their validity.
LEMMA RowsCleaned ==
  ASSUME DayIsCounted, HomeInv, NEW c \in Home!Requests, Home!CleanRows(c)
  PROVE  HomeInv'
<1> DEFINE next == [request[c] EXCEPT !.at = "quotes"]
<1>1. /\ request[c].at = "unlink" /\ UNCHANGED <<quotes, orders, files, now>> /\ Home!Then(c, next)
      /\ proofs' = {IF p.id \in request[c].photos THEN [p EXCEPT !.url = FALSE] ELSE p : p \in proofs}
  BY DEF Home!CleanRows
<1>2. SweepShape(request[c])
  BY <1>1 DEF HomeInv, HomeWaits, SweepWaits
<1>3. SweepShape(next) /\ next.at = "quotes"
  BY <1>2 DEF SweepShape
<1> HIDE DEF next
<1>4. MovesOn(c, next)
  BY <1>1, MovesOne
<1>5. ASSUME NEW p \in proofs
      PROVE  LET q == [p EXCEPT !.url = FALSE] IN
             /\ ProofShape(q) /\ q.id = p.id /\ q.order = p.order /\ q.by = p.by /\ q.at = p.at
             /\ q.type = p.type /\ q.purpose = p.purpose
  <2>1. ProofShape(p)
    BY DEF HomeInv, HomeTables
  <2> QED
    BY <2>1 DEF ProofShape
<1>6. ASSUME NEW q \in proofs'
      PROVE  \E p \in proofs : /\ ProofShape(q) /\ q.id = p.id /\ q.order = p.order /\ q.by = p.by
                               /\ q.at = p.at /\ q.type = p.type /\ q.purpose = p.purpose
                               /\ q = IF p.id \in request[c].photos
                                      THEN [p EXCEPT !.url = FALSE] ELSE p
  <2>1. PICK p \in proofs :
          q = IF p.id \in request[c].photos THEN [p EXCEPT !.url = FALSE] ELSE p
    BY <1>1
  <2>2. ProofShape(p)
    BY DEF HomeInv, HomeTables
  <2> QED
    BY <1>5, <2>1, <2>2
<1>7. \A p \in proofs : \E q \in proofs' :
        q.order = p.order /\ q.by = p.by /\ q.purpose = p.purpose
  BY <1>1, <1>5
<1>8. HomeTables'
  BY <1>1, <1>4, <1>6 DEF HomeInv, HomeTables, MovesOn
<1>9. MadeOnce'
  <2>1. ASSUME NEW p \in proofs', NEW q \in proofs', p.id = q.id PROVE p = q
    <3>1. PICK x \in proofs : /\ p.id = x.id
                              /\ p = IF x.id \in request[c].photos
                                     THEN [x EXCEPT !.url = FALSE] ELSE x
      BY <1>6
    <3>2. PICK y \in proofs : /\ q.id = y.id
                              /\ q = IF y.id \in request[c].photos
                                     THEN [y EXCEPT !.url = FALSE] ELSE y
      BY <1>6
    <3>3. x = y
      BY <2>1, <3>1, <3>2 DEF HomeInv, MadeOnce
    <3> QED
      BY <3>1, <3>2, <3>3
  <2>2. \A p \in proofs' : request'[p.id].at = "done"
    BY <1>1, <1>4, <1>6 DEF HomeInv, MadeOnce, MovesOn, HomeTables, ProofShape
  <2> QED
    BY <1>1, <1>4, <2>1, <2>2 DEF HomeInv, HomeTables, MadeOnce, MovesOn
<1>10. Fees'
  BY <1>1 DEF HomeInv, Fees
<1>11. Ends'
  <2>1. KeepsProofs
    BY <1>7 DEF KeepsProofs, Proved
  <2>2. ASSUME NEW o \in DOMAIN orders, orders[o].endedBy # None
        PROVE  /\ orders[o].status \in Home!Purposes /\ ~orders[o].otp
               /\ \E p \in proofs' : /\ p.order = o /\ p.by = orders[o].endedBy
                                     /\ p.purpose = orders[o].status
    BY <2>1, <2>2 DEF HomeInv, Ends, KeepsProofs
  <2> QED
    BY <1>1, <2>2 DEF Ends, Proved
<1>12. Home!PhotoIsKept'
  BY <1>1, <1>6 DEF HomeInv, Home!PhotoIsKept
<1>13. KeepsProofs /\ NewProofs
  BY <1>6, <1>7 DEF KeepsProofs, NewProofs, Proved
<1>14. request'[c] = next
  BY <1>4 DEF MovesOn
<1>15. HomeWaits(c)'
  BY <1>3, <1>14 DEF HomeWaits, CreateWaits, EndWaits, UploadWaits, SweepWaits
<1>16. \A d \in Home!Requests : HomeWaits(d)'
  BY <1>1, <1>4, <1>13, <1>15, QuotesStay, FilesStay, WritersWait
<1> QED
  BY <1>8, <1>9, <1>10, <1>11, <1>12, <1>16 DEF HomeInv

LEMMA QuotesCleaned ==
  ASSUME DayIsCounted, HomeInv, NEW c \in Home!Requests, Home!CleanQuotes(c)
  PROVE  HomeInv'
<1>1. /\ request[c].at = "quotes" /\ UNCHANGED <<orders, proofs, files, now>>
      /\ Home!Then(c, Home!Done) /\ DOMAIN quotes' = DOMAIN quotes
      /\ \A q \in DOMAIN quotes :
           \/ quotes'[q] = quotes[q]
           \/ quotes'[q] = [quotes[q] EXCEPT !.status = "removed"]
  BY DEF Home!CleanQuotes
<1>2. MovesOn(c, Home!Done) /\ Home!Done.at = "done"
  BY <1>1, MovesOne DEF Home!Done
<1>3. ASSUME NEW q \in DOMAIN quotes
      PROVE  /\ QuoteShape(quotes'[q]) /\ quotes'[q].fee = quotes[q].fee
             /\ quotes'[q].cart = quotes[q].cart /\ quotes'[q].order = quotes[q].order
             /\ quotes'[q].status = "locked" => quotes[q].status = "locked"
  <2>1. QuoteShape(quotes[q])
    BY DEF HomeInv, HomeTables
  <2>2. CASE quotes'[q] = quotes[q]
    BY <2>1, <2>2
  <2>3. CASE quotes'[q] = [quotes[q] EXCEPT !.status = "removed"]
    BY <2>1, <2>3 DEF QuoteShape
  <2> QED
    BY <1>1, <2>2, <2>3
<1>4. HomeTables'
  BY <1>1, <1>2, <1>3 DEF HomeInv, HomeTables, MovesOn
<1>5. MadeOnce'
  BY <1>1, <1>2 DEF HomeInv, HomeTables, MadeOnce, MovesOn, ProofShape
<1>6. Fees'
  BY <1>1, <1>3 DEF HomeInv, Fees
<1>7. Ends' /\ Home!PhotoIsKept'
  BY <1>1 DEF HomeInv, Ends, Proved, Home!PhotoIsKept
<1>8. KeepsQuotes
  BY <1>1, <1>3 DEF KeepsQuotes
<1>9. HomeWaits(c)'
  BY <1>2, NothingWaits DEF MovesOn
<1>10. \A d \in Home!Requests : HomeWaits(d)'
  BY <1>1, <1>2, <1>8, <1>9, ProofsStay, FilesStay, WritersWait
<1> QED
  BY <1>4, <1>5, <1>6, <1>7, <1>10 DEF HomeInv

LEMMA HomeTimePasses ==
  ASSUME DayIsCounted, HomeInv, Home!Tick \/ UNCHANGED Home!vars
  PROVE  HomeInv'
<1>1. UNCHANGED <<quotes, orders, proofs, files, request>> /\ now' \in Nat /\ now' >= now
  BY DEF Home!Tick, Home!vars, HomeInv, HomeTables
<1>2. HomeTables' /\ MadeOnce' /\ Fees' /\ Ends'
  BY <1>1 DEF HomeInv, HomeTables, MadeOnce, Fees, Ends, Proved
<1>3. Home!PhotoIsKept'
  <2>1. ASSUME NEW p \in proofs, p.type = "photo", p.id \notin files
        PROVE  p.at < now' - Retention
    <3>1. p.at < now - Retention
      BY <2>1 DEF HomeInv, Home!PhotoIsKept
    <3>2. p.at \in Nat /\ now \in Nat
      BY DEF HomeInv, HomeTables, ProofShape
    <3> QED
      BY <1>1, <3>1, <3>2 DEF DayIsCounted
  <2> QED
    BY <1>1, <2>1 DEF Home!PhotoIsKept
<1>4. ASSUME NEW d \in Home!Requests PROVE HomeWaits(d)'
  <2>1. request[d].at = "insert" => d \in files'
    BY <1>1, FilesStay
  <2> QED
    BY <1>1, <2>1, ProofsStay, QuotesStay, StillWaits
<1> QED
  BY <1>2, <1>3, <1>4 DEF HomeInv

LEMMA HomeHolds == ASSUME DayIsCounted PROVE Home!Spec => []HomeInv
<1>1. HomeInv /\ [Home!Next]_(Home!vars) => HomeInv'
  <2> SUFFICES ASSUME HomeInv, [Home!Next]_(Home!vars) PROVE HomeInv'
    OBVIOUS
  <2>1. CASE Home!Tick \/ UNCHANGED Home!vars
    BY <2>1, HomeTimePasses
  <2>2. CASE \E o \in DOMAIN orders : Home!Advance(o)
    BY <2>2, OrderAdvanced
  <2>3. CASE \E c \in Home!Requests :
               \/ Home!UpsertRule(c) \/ Home!ArchiveRule(c) \/ Home!QuoteRead(c)
               \/ Home!RouteRead(c) \/ Home!CreateRead(c) \/ Home!Die(c) \/ Home!EndRead(c)
               \/ Home!UploadRead(c) \/ Home!UploadSave(c) \/ Home!CleanRead(c)
    BY <2>3, QuoteLooks, EndLooks, UploadLooks, SweepLooks
  <2>4. CASE \E c \in Home!Requests :
               \/ Home!QuoteInsert(c) \/ Home!CreateBatch(c) \/ Home!RouteBatch(c)
               \/ Home!EndBatch(c) \/ Home!UploadInsert(c) \/ Home!CleanFile(c)
               \/ Home!CleanRows(c) \/ Home!CleanQuotes(c)
    BY <2>4, QuoteInserted, OrderPlaced, RouteTaken, OrderEnded, PhotoInserted, FileCleaned,
       RowsCleaned, QuotesCleaned
  <2> QED
    BY <2>1, <2>2, <2>3, <2>4 DEF Home!Next
<1> QED
  BY <1>1, InitHome, PTL DEF Home!Spec

\* An order costs the fee that its own cart was quoted, and a locked quote names an order that
\* was placed with it, whatever becomes of the rules and whoever uses the quote a second time.
THEOREM FeeIsQuotedHolds == ASSUME DayIsCounted PROVE Home!Spec => []Home!FeeIsQuoted
<1>1. HomeInv => Home!FeeIsQuoted
  BY DEF HomeInv, Fees, Home!FeeIsQuoted
<1> QED
  BY <1>1, HomeHolds, PTL

\* What a shipper ended has the proof of that very end, although the proof was looked for
\* before the end was written and the clean-up runs beside.
THEOREM EndHasProofHolds == ASSUME DayIsCounted PROVE Home!Spec => []Home!EndHasProof
<1>1. HomeInv => Home!EndHasProof
  BY DEF HomeInv, Ends, Proved, Home!EndHasProof
<1> QED
  BY <1>1, HomeHolds, PTL

\* A proof names a file that exists until the photo may go, whatever dies between file and row.
THEOREM PhotoIsKeptHolds == ASSUME DayIsCounted PROVE Home!Spec => []Home!PhotoIsKept
<1>1. HomeInv => Home!PhotoIsKept
  BY DEF HomeInv
<1> QED
  BY <1>1, HomeHolds, PTL

-----------------------------------------------------------------------------
(***************************************************************************)
(* Affiliates.  Whoever approves or pauses whom at the same time: a code   *)
(* keeps its owner, and works only while he does.                          *)
(***************************************************************************)

CodeRow == [owner : Affiliates, status : {"active", "paused"}]

\* Only what is carried into a write of members and codes: the clicks do not matter here.
PartnerWaits(c) ==
  /\ request[c].at = "approve" => request[c].member \in Affiliates /\ request[c].code \in Codes
  /\ request[c].at = "pause" => request[c].member \in Affiliates

PartnerInv ==
  /\ members \in [Affiliates -> Partner!MemberStatuses]
  /\ DOMAIN codes \subseteq Codes /\ \A k \in DOMAIN codes : codes[k] \in CodeRow
  /\ DOMAIN request = Partner!Requests /\ \A c \in Partner!Requests : PartnerWaits(c)
  /\ Partner!PausedCodesRest

LEMMA InitPartner == Partner!Init => PartnerInv
<1> SUFFICES ASSUME Partner!Init PROVE PartnerInv
  OBVIOUS
<1>1. DOMAIN codes = {}
  BY DEF Partner!Init
<1>2. members \in [Affiliates -> Partner!MemberStatuses]
  BY DEF Partner!Init, Partner!MemberStatuses
<1>3. DOMAIN request = Partner!Requests /\ \A c \in Partner!Requests : request[c].at = "idle"
  BY DEF Partner!Init, Partner!Idle
<1> QED
  BY <1>1, <1>2, <1>3 DEF PartnerInv, PartnerWaits, Partner!PausedCodesRest

\* A request that takes up what holds of it.
LEMMA PartnerMoves ==
  ASSUME PartnerInv, NEW c \in Partner!Requests, NEW what, Partner!Then(c, what),
         what.at = "approve" => what.member \in Affiliates /\ what.code \in Codes,
         what.at = "pause" => what.member \in Affiliates
  PROVE  DOMAIN request' = Partner!Requests /\ \A d \in Partner!Requests : PartnerWaits(d)'
<1>1. /\ DOMAIN request' = Partner!Requests /\ request'[c] = what
      /\ \A d \in Partner!Requests : d # c => request'[d] = request[d]
  BY DEF PartnerInv, Partner!Then
<1>2. ASSUME NEW d \in Partner!Requests PROVE PartnerWaits(d)'
  <2>1. PartnerWaits(d)
    BY DEF PartnerInv
  <2> QED
    BY <1>1, <2>1 DEF PartnerWaits
<1> QED
  BY <1>1, <1>2

LEMMA PartnerReads ==
  ASSUME PartnerInv, NEW c \in Partner!Requests,
         \/ Partner!ApproveRead(c) \/ Partner!PauseRead(c) \/ Partner!OrderRead(c)
         \/ Partner!OrderCreate(c) \/ Partner!Convert(c)
  PROVE  PartnerInv' /\ Partner!CodeKeepsOwner
<1>1. UNCHANGED <<members, codes>>
  BY DEF Partner!ApproveRead, Partner!PauseRead, Partner!OrderRead, Partner!OrderCreate,
     Partner!Convert
<1>2. PICK what : /\ Partner!Then(c, what)
                  /\ what.at = "approve" => what.member \in Affiliates /\ what.code \in Codes
                  /\ what.at = "pause" => what.member \in Affiliates
  <2>1. CASE Partner!ApproveRead(c)
    BY <2>1 DEF Partner!ApproveRead, Partner!Begin
  <2>2. CASE Partner!PauseRead(c)
    BY <2>2 DEF Partner!PauseRead, Partner!Begin
  <2>3. CASE Partner!OrderRead(c)
    <3>1. PICK k : Partner!Then(c, [at |-> "order", code |-> k])
      BY <2>3 DEF Partner!OrderRead, Partner!Begin
    <3>2. [at |-> "order", code |-> k].at = "order"
      OBVIOUS
    <3> QED
      BY <3>1, <3>2
  <2>4. CASE Partner!OrderCreate(c)
    <3>1. PICK what \in {Partner!Done, [at |-> "convert", code |-> request[c].code]} :
            Partner!Then(c, what)
      BY <2>4 DEF Partner!OrderCreate
    <3>2. what.at \in {"done", "convert"}
      BY <3>1 DEF Partner!Done
    <3> QED
      BY <3>1, <3>2
  <2>5. CASE Partner!Convert(c)
    <3>1. Partner!Then(c, Partner!Done) /\ Partner!Done.at = "done"
      BY <2>5 DEF Partner!Convert, Partner!Done
    <3> QED
      BY <3>1
  <2> QED
    BY <2>1, <2>2, <2>3, <2>4, <2>5
<1>3. DOMAIN request' = Partner!Requests /\ \A d \in Partner!Requests : PartnerWaits(d)'
  BY <1>2, PartnerMoves
<1> QED
  BY <1>1, <1>3 DEF PartnerInv, Partner!PausedCodesRest, Partner!CodeKeepsOwner

\* A code of somebody else is left alone, and the codes of the member work with him.
LEMMA Approved ==
  ASSUME PartnerInv, NEW c \in Partner!Requests, Partner!ApproveBatch(c)
  PROVE  PartnerInv' /\ Partner!CodeKeepsOwner
<1> DEFINE a == request[c].member
           k == request[c].code
           row == [owner |-> a, status |-> "active"]
<1>1. /\ a \in Affiliates /\ k \in Codes
      /\ members' = [members EXCEPT ![a] = "active"] /\ codes' = Partner!Upsert(k, a)
      /\ Partner!Then(c, Partner!Done)
  BY DEF Partner!ApproveBatch, PartnerInv, PartnerWaits
<1>2. row \in CodeRow /\ row.owner = a
  BY <1>1 DEF CodeRow
<1>3. /\ DOMAIN codes' = DOMAIN codes \cup {k}
      /\ \A x \in DOMAIN codes' :
           \/ x \in DOMAIN codes /\ codes'[x] = codes[x]
           \/ /\ codes'[x] = row
              /\ x \in DOMAIN codes => codes[x].owner = a
  BY <1>1 DEF Partner!Upsert
<1>4. /\ members' \in [Affiliates -> Partner!MemberStatuses] /\ members'[a] = "active"
      /\ \A b \in Affiliates : b # a => members'[b] = members[b]
  BY <1>1 DEF PartnerInv, Partner!MemberStatuses
<1> HIDE DEF a, k, row
<1>5. DOMAIN codes' \subseteq Codes /\ \A x \in DOMAIN codes' : codes'[x] \in CodeRow
  BY <1>1, <1>2, <1>3 DEF PartnerInv
<1>6. Partner!PausedCodesRest'
  <2>1. ASSUME NEW x \in DOMAIN codes', codes'[x].status = "active"
        PROVE  members'[codes'[x].owner] = "active"
    <3>1. CASE x \in DOMAIN codes /\ codes'[x] = codes[x]
      <4>1. members[codes[x].owner] = "active" /\ codes[x].owner \in Affiliates
        BY <2>1, <3>1 DEF PartnerInv, Partner!PausedCodesRest, CodeRow
      <4> QED
        BY <1>4, <3>1, <4>1
    <3>2. CASE codes'[x] = row
      BY <1>2, <1>4, <3>2
    <3> QED
      BY <1>3, <2>1, <3>1, <3>2
  <2> QED
    BY <2>1 DEF Partner!PausedCodesRest
<1>7. Partner!CodeKeepsOwner
  BY <1>2, <1>3 DEF Partner!CodeKeepsOwner
<1>8. DOMAIN request' = Partner!Requests /\ \A d \in Partner!Requests : PartnerWaits(d)'
  <2>1. Partner!Done.at = "done"
    BY DEF Partner!Done
  <2> QED
    BY <1>1, <2>1, PartnerMoves
<1> QED
  BY <1>4, <1>5, <1>6, <1>7, <1>8 DEF PartnerInv

LEMMA Paused ==
  ASSUME PartnerInv, NEW c \in Partner!Requests, Partner!PauseBatch(c)
  PROVE  PartnerInv' /\ Partner!CodeKeepsOwner
<1> DEFINE a == request[c].member
<1>1. /\ a \in Affiliates
      /\ members' = [members EXCEPT ![a] = "paused"] /\ codes' = Partner!PausedCodes(a)
      /\ Partner!Then(c, Partner!Done)
  BY DEF Partner!PauseBatch, PartnerInv, PartnerWaits
<1>2. /\ DOMAIN codes' = DOMAIN codes
      /\ \A x \in DOMAIN codes :
           /\ codes'[x] \in CodeRow /\ codes'[x].owner = codes[x].owner
           /\ codes[x].owner = a => codes'[x].status = "paused"
           /\ codes[x].owner # a => codes'[x] = codes[x]
  <2>1. \A x \in DOMAIN codes : codes[x] \in CodeRow
    BY DEF PartnerInv
  <2> QED
    BY <1>1, <2>1 DEF Partner!PausedCodes, CodeRow
<1>3. /\ members' \in [Affiliates -> Partner!MemberStatuses]
      /\ \A b \in Affiliates : b # a => members'[b] = members[b]
  BY <1>1 DEF PartnerInv, Partner!MemberStatuses
<1> HIDE DEF a
<1>4. DOMAIN codes' \subseteq Codes /\ \A x \in DOMAIN codes' : codes'[x] \in CodeRow
  BY <1>2 DEF PartnerInv
<1>5. Partner!PausedCodesRest'
  <2>1. ASSUME NEW x \in DOMAIN codes, codes'[x].status = "active"
        PROVE  members'[codes'[x].owner] = "active"
    <3>1. codes[x].owner # a /\ codes'[x] = codes[x]
      BY <1>2, <2>1
    <3>2. members[codes[x].owner] = "active" /\ codes[x].owner \in Affiliates
      BY <2>1, <3>1 DEF PartnerInv, Partner!PausedCodesRest, CodeRow
    <3> QED
      BY <1>3, <3>1, <3>2
  <2> QED
    BY <1>2, <2>1 DEF Partner!PausedCodesRest
<1>6. Partner!CodeKeepsOwner
  BY <1>2 DEF Partner!CodeKeepsOwner
<1>7. DOMAIN request' = Partner!Requests /\ \A d \in Partner!Requests : PartnerWaits(d)'
  <2>1. Partner!Done.at = "done"
    BY DEF Partner!Done
  <2> QED
    BY <1>1, <2>1, PartnerMoves
<1> QED
  BY <1>3, <1>4, <1>5, <1>6, <1>7 DEF PartnerInv

LEMMA PartnerStep ==
  PartnerInv /\ [Partner!Next]_(Partner!vars)
    => PartnerInv' /\ [Partner!CodeKeepsOwner]_(Partner!vars)
<1> SUFFICES ASSUME PartnerInv, [Partner!Next]_(Partner!vars)
             PROVE  PartnerInv' /\ Partner!CodeKeepsOwner
  OBVIOUS
<1>1. CASE Partner!Click \/ Partner!Expire \/ Partner!Cleanup \/ UNCHANGED Partner!vars
  <2>1. UNCHANGED <<members, codes, request>>
    BY <1>1 DEF Partner!Click, Partner!Expire, Partner!Cleanup, Partner!vars
  <2> QED
    BY <2>1 DEF PartnerInv, PartnerWaits, Partner!PausedCodesRest, Partner!CodeKeepsOwner
<1>2. CASE \E c \in Partner!Requests :
             \/ Partner!ApproveRead(c) \/ Partner!PauseRead(c) \/ Partner!OrderRead(c)
             \/ Partner!OrderCreate(c) \/ Partner!Convert(c)
  BY <1>2, PartnerReads
<1>3. CASE \E c \in Partner!Requests : Partner!ApproveBatch(c) \/ Partner!PauseBatch(c)
  BY <1>3, Approved, Paused
<1> QED
  BY <1>1, <1>2, <1>3 DEF Partner!Next

LEMMA PartnersHold == Partner!Spec => []PartnerInv
<1>1. PartnerInv /\ [Partner!Next]_(Partner!vars) => PartnerInv'
  BY PartnerStep
<1> QED
  BY <1>1, InitPartner, PTL DEF Partner!Spec

\* The codes of a paused affiliate are paused, and no code works without its owner, however
\* approvals, pauses and orders interleave.
THEOREM PausedCodesRestHolds == Partner!Spec => []Partner!PausedCodesRest
<1>1. PartnerInv => Partner!PausedCodesRest
  BY DEF PartnerInv
<1> QED
  BY <1>1, PartnersHold, PTL

\* A code never passes to another affiliate, although two approvals may have seen it free.
THEOREM CodeKeepsOwnerHolds == Partner!Spec => [][Partner!CodeKeepsOwner]_(Partner!vars)
<1>1. PartnerInv /\ [Partner!Next]_(Partner!vars) => [Partner!CodeKeepsOwner]_(Partner!vars)
  BY PartnerStep
<1> QED
  BY <1>1, PartnersHold, PTL DEF Partner!Spec

\* A click that was used up names an order that was credited to its code, and so does a request
\* that is about to use one up.
Credited(c, k) == \E o \in orders : o.order = c /\ o.code = k
CreditedNext(c, k) == \E o \in orders' : o.order = c /\ o.code = k

ClickRow == [code : Codes, expired : BOOLEAN, order : Partner!Requests \cup {None}]

ClickInv ==
  /\ DOMAIN request = Partner!Requests
  /\ \A c \in Partner!Requests :
       request[c].at = "convert" => Credited(c, request[c].code)
  /\ clicks \in Seq(ClickRow)
  /\ Partner!ClickMatchesOrder

LEMMA InitClicks == Partner!Init => ClickInv
BY DEF Partner!Init, Partner!Idle, ClickInv, Partner!ClickMatchesOrder

\* What the requests that use up no click do.
LEMMA ClicksStay ==
  ASSUME ClickInv, NEW c \in Partner!Requests, NEW what, Partner!Then(c, what),
         orders \subseteq orders', clicks' = clicks,
         what.at = "convert" => CreditedNext(c, what.code)
  PROVE  ClickInv'
<1>1. /\ DOMAIN request' = Partner!Requests /\ request'[c] = what
      /\ \A d \in Partner!Requests : d # c => request'[d] = request[d]
  BY DEF ClickInv, Partner!Then
<1>2. ASSUME NEW d \in Partner!Requests, request'[d].at = "convert"
      PROVE  CreditedNext(d, request'[d].code)
  <2>1. CASE d = c
    BY <1>1, <1>2, <2>1
  <2>2. CASE d # c
    <3>1. request[d].at = "convert" /\ request'[d].code = request[d].code
      BY <1>1, <1>2, <2>2
    <3> QED
      BY <3>1 DEF ClickInv, Credited, CreditedNext
  <2> QED
    BY <2>1, <2>2
<1>3. Partner!ClickMatchesOrder'
  BY DEF ClickInv, Partner!ClickMatchesOrder
<1> QED
  BY <1>1, <1>2, <1>3 DEF ClickInv, Credited, CreditedNext

LEMMA RequestsCredit ==
  ASSUME ClickInv, NEW c \in Partner!Requests,
         \/ Partner!ApproveRead(c) \/ Partner!ApproveBatch(c) \/ Partner!PauseRead(c)
         \/ Partner!PauseBatch(c) \/ Partner!OrderRead(c) \/ Partner!OrderCreate(c)
  PROVE  ClickInv'
<1>1. orders \subseteq orders' /\ clicks' = clicks
  BY DEF Partner!ApproveRead, Partner!ApproveBatch, Partner!PauseRead, Partner!PauseBatch,
     Partner!OrderRead, Partner!OrderCreate
<1>2. PICK what : /\ Partner!Then(c, what)
                  /\ what.at = "convert" => CreditedNext(c, what.code)
  <2>1. CASE Partner!ApproveRead(c)
    BY <2>1 DEF Partner!ApproveRead, Partner!Begin
  <2>2. CASE Partner!PauseRead(c)
    BY <2>2 DEF Partner!PauseRead, Partner!Begin
  <2>3. CASE Partner!OrderRead(c)
    <3>1. PICK k : Partner!Then(c, [at |-> "order", code |-> k])
      BY <2>3 DEF Partner!OrderRead, Partner!Begin
    <3>2. [at |-> "order", code |-> k].at = "order"
      OBVIOUS
    <3> QED
      BY <3>1, <3>2
  <2>4. CASE Partner!ApproveBatch(c) \/ Partner!PauseBatch(c)
    <3>1. Partner!Then(c, Partner!Done) /\ Partner!Done.at = "done"
      BY <2>4 DEF Partner!ApproveBatch, Partner!PauseBatch, Partner!Done
    <3> QED
      BY <3>1
  <2>5. CASE Partner!OrderCreate(c)
    <3> DEFINE k == request[c].code
    <3>1. \/ Partner!Then(c, Partner!Done) /\ Partner!Done.at = "done"
          \/ /\ Partner!Then(c, [at |-> "convert", code |-> k])
             /\ [order |-> c, code |-> k, owner |-> codes[k].owner] \in orders'
      BY <2>5 DEF Partner!OrderCreate, Partner!Done
    <3>2. [order |-> c, code |-> k, owner |-> codes[k].owner] \in orders' => CreditedNext(c, k)
      BY DEF CreditedNext
    <3>3. [at |-> "convert", code |-> k].code = k
      OBVIOUS
    <3> HIDE DEF k
    <3> QED
      BY <3>1, <3>2, <3>3
  <2> QED
    BY <2>1, <2>2, <2>3, <2>4, <2>5
<1> QED
  BY <1>1, <1>2, ClicksStay

LEMMA Converts ==
  ASSUME ClickInv, NEW c \in Partner!Requests, Partner!Convert(c)
  PROVE  ClickInv'
<1> DEFINE k == request[c].code
<1>1. /\ orders' = orders /\ Partner!Then(c, Partner!Done) /\ Credited(c, k)
      /\ clicks' = [i \in DOMAIN clicks |->
           IF i \in Partner!Converted(k) THEN [clicks[i] EXCEPT !.order = c] ELSE clicks[i]]
  BY DEF Partner!Convert, ClickInv
<1>2. \A i \in Partner!Converted(k) : i \in DOMAIN clicks /\ clicks[i].code = k
  BY DEF Partner!Converted, Partner!Latest
<1> HIDE DEF k
<1>3. \A i \in DOMAIN clicks : clicks[i] \in ClickRow
  BY DEF ClickInv
<1>4. /\ DOMAIN clicks' = DOMAIN clicks
      /\ \A i \in DOMAIN clicks :
           /\ clicks'[i] \in ClickRow /\ clicks'[i].code = clicks[i].code
           /\ \/ clicks'[i].order = clicks[i].order
              \/ clicks'[i].order = c /\ clicks[i].code = k
  BY <1>1, <1>2, <1>3 DEF ClickRow
<1>5. clicks' \in Seq(ClickRow)
  <2>1. Len(clicks) \in Nat /\ DOMAIN clicks = 1..Len(clicks)
    BY DEF ClickInv
  <2>2. clicks' \in [1..Len(clicks) -> ClickRow]
    BY <1>1, <1>4, <2>1
  <2> QED
    BY <2>1, <2>2
<1>6. Partner!ClickMatchesOrder'
  BY <1>1, <1>4 DEF ClickInv, Credited, Partner!ClickMatchesOrder
<1>7. /\ DOMAIN request' = Partner!Requests
      /\ \A d \in Partner!Requests :
           request'[d].at = "convert" => CreditedNext(d, request'[d].code)
  <2>1. Partner!Done.at = "done"
    BY DEF Partner!Done
  <2>2. /\ DOMAIN request' = Partner!Requests /\ request'[c] = Partner!Done
        /\ \A d \in Partner!Requests : d # c => request'[d] = request[d]
    BY <1>1 DEF ClickInv, Partner!Then
  <2> QED
    BY <1>1, <2>1, <2>2 DEF ClickInv, Credited, CreditedNext
<1> QED
  BY <1>5, <1>6, <1>7 DEF ClickInv, Credited, CreditedNext

\* What happens to the clicks by themselves: they come, expire and are deleted.
LEMMA ClicksComeAndGo ==
  ASSUME ClickInv, Partner!Click \/ Partner!Expire \/ Partner!Cleanup
  PROVE  ClickInv'
<1>1. orders' = orders /\ request' = request
  BY DEF Partner!Click, Partner!Expire, Partner!Cleanup
<1>2. Len(clicks) \in Nat /\ DOMAIN clicks = 1..Len(clicks)
  BY DEF ClickInv
<1>3. /\ clicks' \in Seq(ClickRow)
      /\ \A i \in DOMAIN clicks' :
           \/ clicks'[i].order = None
           \/ \E j \in DOMAIN clicks :
                clicks'[i].order = clicks[j].order /\ clicks'[i].code = clicks[j].code
  <2>1. CASE Partner!Click
    <3>1. PICK k \in Codes :
            clicks' = Append(clicks, [code |-> k, expired |-> FALSE, order |-> None])
      BY <2>1 DEF Partner!Click
    <3>2. [code |-> k, expired |-> FALSE, order |-> None] \in ClickRow
      BY DEF ClickRow
    <3> QED
      BY <1>2, <3>1, <3>2 DEF ClickInv
  <2>2. CASE Partner!Expire
    <3>1. PICK i \in DOMAIN clicks : clicks' = [clicks EXCEPT ![i].expired = TRUE]
      BY <2>2 DEF Partner!Expire
    <3>2. \A j \in DOMAIN clicks : clicks[j] \in ClickRow
      BY DEF ClickInv
    <3>3. /\ DOMAIN clicks' = DOMAIN clicks
          /\ \A j \in DOMAIN clicks :
               /\ clicks'[j] \in ClickRow
               /\ clicks'[j].order = clicks[j].order /\ clicks'[j].code = clicks[j].code
      BY <3>1, <3>2 DEF ClickRow
    <3>4. clicks' \in [1..Len(clicks) -> ClickRow]
      BY <1>2, <3>1, <3>3
    <3> QED
      BY <1>2, <3>3, <3>4
  <2>3. CASE Partner!Cleanup
    <3>1. PICK n \in DOMAIN clicks : clicks' = SubSeq(clicks, n + 1, Len(clicks))
      BY <2>3 DEF Partner!Cleanup
    <3>2. clicks' \in Seq(ClickRow) /\ Len(clicks') = Len(clicks) - n
      BY <1>2, <3>1 DEF ClickInv
    <3>3. \A i \in DOMAIN clicks' : i + n \in DOMAIN clicks /\ clicks'[i] = clicks[i + n]
      BY <1>2, <3>1, <3>2 DEF ClickInv
    <3> QED
      BY <3>2, <3>3
  <2> QED
    BY <2>1, <2>2, <2>3
<1>4. Partner!ClickMatchesOrder'
  BY <1>1, <1>3 DEF ClickInv, Partner!ClickMatchesOrder
<1> QED
  BY <1>1, <1>3, <1>4 DEF ClickInv, Credited

\* A click is used up by an order that was credited to the click's code, whatever approvals,
\* pauses, other orders and clean-ups come between the order and its conversion.
THEOREM ClickMatchesOrderHolds == Partner!Spec => []Partner!ClickMatchesOrder
<1>1. ClickInv /\ Partner!Next => ClickInv'
  BY RequestsCredit, Converts, ClicksComeAndGo DEF Partner!Next
<1>2. ClickInv /\ UNCHANGED Partner!vars => ClickInv'
  BY DEF ClickInv, Credited, Partner!ClickMatchesOrder, Partner!vars
<1>3. ClickInv => Partner!ClickMatchesOrder
  BY DEF ClickInv
<1> QED
  BY InitClicks, <1>1, <1>2, <1>3, PTL DEF Partner!Spec

-----------------------------------------------------------------------------
(***************************************************************************)
(* Materials.  Whatever receipts overlap, refused ones included: an item    *)
(* gets no more than was ordered, and what was counted stays counted.      *)
(***************************************************************************)

PurchaseStatuses == {"none", "ordered", "partially_received", "received"}
Open(status) == status \in {"ordered", "partially_received"}
PurchaseRow ==
  [status : PurchaseStatuses, ordered : [Skus -> Nat], received : [Skus -> Nat],
   updatedBy : Kitchen!Requests \cup {None}]

Within(order) == \A k \in Skus : order.received[k] <= order.ordered[k]
NothingYet(order) == order.status = "ordered" => \A k \in Skus : order.received[k] = 0

\* Before there is an order nobody receives it; what it orders is never changed.  A receipt that
\* still finds the order new closes or opens it for all to see.
ReceiptWaits(r) ==
  /\ request[r].at \in {"items", "receive"} =>
       /\ request[r].seen \in PurchaseRow /\ Open(request[r].seen.status)
       /\ purchase.status # "none" /\ request[r].seen.ordered = purchase.ordered
       /\ purchase.status = "ordered" =>
            request[r].seen.status = "ordered" /\ request[r].seen.updatedBy = purchase.updatedBy
  /\ request[r].at = "receive" =>
       /\ request[r].status \in {"received", "partially_received"}
       /\ request[r].units \in [Skus -> Nat]
       /\ \A k \in Skus : request[r].seen.received[k] + request[r].units[k] <= purchase.ordered[k]

KitchenInv ==
  /\ purchase \in PurchaseRow /\ DOMAIN request = Kitchen!Requests
  /\ Within(purchase) /\ NothingYet(purchase)
  /\ \A r \in Kitchen!Requests : ReceiptWaits(r)

LEMMA InitKitchen == Kitchen!Init => KitchenInv
<1> SUFFICES ASSUME Kitchen!Init PROVE KitchenInv
  OBVIOUS
<1>1. purchase \in PurchaseRow /\ Within(purchase) /\ NothingYet(purchase)
  BY DEF Kitchen!Init, Kitchen!NoPurchase, PurchaseRow, PurchaseStatuses, Within, NothingYet
<1>2. DOMAIN request = Kitchen!Requests /\ \A r \in Kitchen!Requests : request[r].at = "idle"
  BY DEF Kitchen!Init, Kitchen!Idle
<1> QED
  BY <1>1, <1>2 DEF KitchenInv, ReceiptWaits

\* What waits still waits when another request goes on, and the order is the same order.
LEMMA ReceiptsWait ==
  ASSUME KitchenInv, NEW r \in Kitchen!Requests, NEW what, Kitchen!Then(r, what),
         purchase.status # "none" =>
           /\ purchase'.status # "none" /\ purchase'.ordered = purchase.ordered
           /\ purchase'.status = "ordered" =>
                purchase.status = "ordered" /\ purchase'.updatedBy = purchase.updatedBy,
         what.at \in {"items", "receive"} =>
           /\ what.seen \in PurchaseRow /\ Open(what.seen.status)
           /\ purchase'.status # "none" /\ what.seen.ordered = purchase'.ordered
           /\ purchase'.status = "ordered" =>
                what.seen.status = "ordered" /\ what.seen.updatedBy = purchase'.updatedBy,
         what.at = "receive" =>
           /\ what.status \in {"received", "partially_received"}
           /\ what.units \in [Skus -> Nat]
           /\ \A k \in Skus : what.seen.received[k] + what.units[k] <= purchase'.ordered[k]
  PROVE  DOMAIN request' = Kitchen!Requests /\ \A q \in Kitchen!Requests : ReceiptWaits(q)'
<1>1. /\ DOMAIN request' = Kitchen!Requests /\ request'[r] = what
      /\ \A q \in Kitchen!Requests : q # r => request'[q] = request[q]
  BY DEF KitchenInv, Kitchen!Then
<1>2. ASSUME NEW q \in Kitchen!Requests PROVE ReceiptWaits(q)'
  <2>1. CASE q = r
    BY <1>1, <2>1 DEF ReceiptWaits
  <2>2. CASE q # r
    <3>1. ReceiptWaits(q) /\ request'[q] = request[q]
      BY <1>1, <2>2 DEF KitchenInv
    <3> QED
      BY <3>1 DEF ReceiptWaits
  <2> QED
    BY <2>1, <2>2
<1> QED
  BY <1>1, <1>2

\* The steps that leave the order alone, but for the reading of its items.
LEMMA OrderRests ==
  ASSUME KitchenInv, NEW r \in Kitchen!Requests, UNCHANGED purchase,
         \E what : Kitchen!Then(r, what) /\ what.at \notin {"items", "receive"}
  PROVE  KitchenInv' /\ Kitchen!ReceiptsStay
<1>1. PICK what : Kitchen!Then(r, what) /\ what.at \notin {"items", "receive"}
  OBVIOUS
<1>2. DOMAIN request' = Kitchen!Requests /\ \A q \in Kitchen!Requests : ReceiptWaits(q)'
  BY <1>1, ReceiptsWait
<1> QED
  BY <1>2 DEF KitchenInv, Within, NothingYet, PurchaseRow, Kitchen!ReceiptsStay

LEMMA KitchenElsewhere ==
  ASSUME KitchenInv, NEW r \in Kitchen!Requests,
         \/ Kitchen!Recipe(r) \/ Kitchen!Plan(r) \/ Kitchen!Start(r)
         \/ Kitchen!CompleteRead(r) \/ Kitchen!CompleteBatch(r)
         \/ Kitchen!AdjustRead(r) \/ Kitchen!AdjustBatch(r)
         \/ Kitchen!WasteRead(r) \/ Kitchen!WasteBatch(r)
  PROVE  KitchenInv' /\ Kitchen!ReceiptsStay
<1>1. UNCHANGED purchase
  BY DEF Kitchen!Recipe, Kitchen!Plan, Kitchen!Start, Kitchen!CompleteRead, Kitchen!CompleteBatch,
     Kitchen!AdjustRead, Kitchen!AdjustBatch, Kitchen!WasteRead, Kitchen!WasteBatch
<1>2. CASE \/ Kitchen!Recipe(r) \/ Kitchen!Plan(r) \/ Kitchen!Start(r) \/ Kitchen!CompleteBatch(r)
           \/ Kitchen!AdjustBatch(r) \/ Kitchen!WasteBatch(r)
  <2>1. Kitchen!Then(r, Kitchen!Done) /\ Kitchen!Done.at = "done"
    BY <1>2 DEF Kitchen!Recipe, Kitchen!Plan, Kitchen!Start, Kitchen!CompleteBatch,
       Kitchen!AdjustBatch, Kitchen!WasteBatch, Kitchen!Done
  <2> QED
    BY <1>1, <2>1, OrderRests
<1>3. CASE Kitchen!CompleteRead(r)
  <2>1. PICK b, n, takes :
          Kitchen!Then(r, [at |-> "complete", batch |-> b, produced |-> n, takes |-> takes])
    BY <1>3 DEF Kitchen!CompleteRead, Kitchen!Begin
  <2>2. [at |-> "complete", batch |-> b, produced |-> n, takes |-> takes].at = "complete"
    OBVIOUS
  <2> QED
    BY <1>1, <2>1, <2>2, OrderRests
<1>4. CASE Kitchen!AdjustRead(r)
  <2>1. PICK k, n, d :
          Kitchen!Then(r, [at |-> "adjust", sku |-> k, onHand |-> n, delta |-> d])
    BY <1>4 DEF Kitchen!AdjustRead, Kitchen!Begin
  <2>2. [at |-> "adjust", sku |-> k, onHand |-> n, delta |-> d].at = "adjust"
    OBVIOUS
  <2> QED
    BY <1>1, <2>1, <2>2, OrderRests
<1>5. CASE Kitchen!WasteRead(r)
  <2>1. PICK k, takes : Kitchen!Then(r, [at |-> "waste", sku |-> k, takes |-> takes])
    BY <1>5 DEF Kitchen!WasteRead, Kitchen!Begin
  <2>2. [at |-> "waste", sku |-> k, takes |-> takes].at = "waste"
    OBVIOUS
  <2> QED
    BY <1>1, <2>1, <2>2, OrderRests
<1> QED
  BY <1>2, <1>3, <1>4, <1>5

LEMMA Purchased ==
  ASSUME UnitsAreCounted, KitchenInv, NEW r \in Kitchen!Requests, Kitchen!Purchase(r)
  PROVE  KitchenInv' /\ Kitchen!ReceiptsStay
<1>1. PICK q \in [Skus -> 1..MaxQty] :
        purchase' = [status |-> "ordered", ordered |-> q, received |-> [k \in Skus |-> 0],
                     updatedBy |-> r]
  BY DEF Kitchen!Purchase
<1>2. purchase.status = "none" /\ Kitchen!Then(r, Kitchen!Done) /\ Kitchen!Done.at = "done"
  BY DEF Kitchen!Purchase, Kitchen!NoPurchase, Kitchen!Done
<1>3. q \in [Skus -> Nat]
  BY DEF UnitsAreCounted
<1>4. purchase' \in PurchaseRow /\ Within(purchase') /\ NothingYet(purchase')
  BY <1>1, <1>3 DEF PurchaseRow, PurchaseStatuses, Within, NothingYet
<1>5. DOMAIN request' = Kitchen!Requests /\ \A p \in Kitchen!Requests : ReceiptWaits(p)'
  BY <1>2, ReceiptsWait
<1> QED
  BY <1>2, <1>4, <1>5 DEF KitchenInv, Within, NothingYet, Kitchen!ReceiptsStay

LEMMA ReceiptReads ==
  ASSUME UnitsAreCounted, KitchenInv, NEW r \in Kitchen!Requests,
         Kitchen!ReceiveRead(r) \/ Kitchen!ReceiveItems(r)
  PROVE  KitchenInv' /\ Kitchen!ReceiptsStay
<1>1. UNCHANGED purchase
  BY DEF Kitchen!ReceiveRead, Kitchen!ReceiveItems
<1>2. DOMAIN request' = Kitchen!Requests /\ \A p \in Kitchen!Requests : ReceiptWaits(p)'
  <2>1. CASE Kitchen!ReceiveRead(r)
    <3> DEFINE what == [at |-> "items", seen |-> purchase]
    <3>1. Kitchen!Then(r, what) /\ Open(purchase.status)
      BY <2>1 DEF Kitchen!ReceiveRead, Kitchen!Begin, Open
    <3>2. what.at = "items" /\ what.seen = purchase
      OBVIOUS
    <3> HIDE DEF what
    <3> QED
      BY <1>1, <3>1, <3>2, ReceiptsWait DEF KitchenInv, Open
  <2>2. CASE Kitchen!ReceiveItems(r)
    <3> DEFINE seen == [request[r].seen EXCEPT !.received = purchase.received]
    <3>1. /\ ReceiptWaits(r) /\ request[r].at = "items" /\ purchase \in PurchaseRow
      BY <2>2 DEF KitchenInv, Kitchen!ReceiveItems
    <3>2. /\ seen \in PurchaseRow /\ Open(seen.status) /\ purchase.status # "none"
          /\ seen.ordered = purchase.ordered /\ seen.received = purchase.received
          /\ purchase.status = "ordered" =>
               seen.status = "ordered" /\ seen.updatedBy = purchase.updatedBy
      BY <3>1 DEF ReceiptWaits, PurchaseRow
    <3>3. CASE Kitchen!Then(r, Kitchen!Done)
      <4>1. Kitchen!Done.at = "done"
        BY DEF Kitchen!Done
      <4> QED
        BY <1>1, <3>3, <4>1, ReceiptsWait
    <3>4. CASE \E q \in [Skus -> 0..MaxQty] :
                 /\ \A k \in Skus : q[k] <= Kitchen!Outstanding(k)
                 /\ \E status \in {"received", "partially_received"} :
                      Kitchen!Then(r, [at |-> "receive", units |-> q, seen |-> seen,
                                       status |-> status])
      <4>1. PICK q \in [Skus -> 0..MaxQty], status \in {"received", "partially_received"} :
              /\ \A k \in Skus : q[k] <= Kitchen!Outstanding(k)
              /\ Kitchen!Then(r, [at |-> "receive", units |-> q, seen |-> seen, status |-> status])
        BY <3>4
      <4> DEFINE what == [at |-> "receive", units |-> q, seen |-> seen, status |-> status]
      <4>2. what.at = "receive" /\ what.units = q /\ what.seen = seen /\ what.status = status
        OBVIOUS
      <4>3. q \in [Skus -> Nat]
        BY DEF UnitsAreCounted
      <4>4. \A k \in Skus : seen.received[k] + q[k] <= purchase.ordered[k]
        BY <3>1, <3>2, <4>1, <4>3 DEF PurchaseRow, Kitchen!Outstanding
      <4>5. Kitchen!Then(r, what)
        BY <4>1
      <4> HIDE DEF what, seen
      <4> QED
        BY <1>1, <3>2, <4>2, <4>3, <4>4, <4>5, ReceiptsWait
    <3> QED
      BY <2>2, <3>3, <3>4 DEF Kitchen!ReceiveItems
  <2> QED
    BY <2>1, <2>2
<1> QED
  BY <1>1, <1>2 DEF KitchenInv, Within, NothingYet, PurchaseRow, Kitchen!ReceiptsStay

\* The receipt of a request that has read: its order's UPDATE wins or not, each item's for itself.
LEMMA Received ==
  ASSUME KitchenInv, NEW r \in Kitchen!Requests, Kitchen!ReceiveBatch(r)
  PROVE  KitchenInv' /\ Kitchen!ReceiptsStay
<1> DEFINE seen == request[r].seen
           q == request[r].units
           wins == Kitchen!OrderWins(r)
           got == [k \in Skus |-> IF k \in {j \in Skus : q[j] > 0} /\ Kitchen!ItemWins(r, k)
                                  THEN seen.received[k] + q[k] ELSE purchase.received[k]]
<1>1. /\ purchase \in PurchaseRow /\ seen \in PurchaseRow /\ Open(seen.status)
      /\ purchase.status # "none" /\ q \in [Skus -> Nat]
      /\ request[r].status \in {"received", "partially_received"}
      /\ \A k \in Skus : seen.received[k] + q[k] <= purchase.ordered[k]
  BY DEF KitchenInv, ReceiptWaits, Kitchen!ReceiveBatch
<1>2. /\ purchase' = [purchase EXCEPT !.status = IF wins THEN request[r].status ELSE @,
                                      !.updatedBy = IF wins THEN r ELSE @,
                                      !.received = got]
      /\ Kitchen!Then(r, Kitchen!Done) /\ Kitchen!Done.at = "done"
  BY <1>1 DEF Kitchen!ReceiveBatch, Kitchen!Done, PurchaseRow
<1>3. /\ got \in [Skus -> Nat]
      /\ \A k \in Skus : got[k] <= purchase.ordered[k] /\ got[k] >= purchase.received[k]
  BY <1>1 DEF KitchenInv, Within, PurchaseRow, Kitchen!ItemWins
<1>4. /\ purchase'.status \in {purchase.status, "received", "partially_received"}
      /\ purchase'.ordered = purchase.ordered /\ purchase'.received = got
      /\ purchase' \in PurchaseRow
      /\ wins => purchase'.status # "ordered" /\ purchase.status = seen.status
      /\ ~wins => purchase'.status = purchase.status
  BY <1>1, <1>2, <1>3 DEF PurchaseRow, PurchaseStatuses, Kitchen!OrderWins
<1>5. NothingYet(purchase')
  <2>1. ASSUME purchase'.status = "ordered" PROVE FALSE
    <3>1. ~wins /\ purchase.status = "ordered"
      BY <1>4, <2>1
    <3>2. seen.status = "ordered" /\ seen.updatedBy = purchase.updatedBy
      BY <3>1 DEF KitchenInv, ReceiptWaits, Kitchen!ReceiveBatch
    <3> QED
      BY <3>1, <3>2 DEF Kitchen!OrderWins
  <2> QED
    BY <2>1 DEF NothingYet
<1>6. Within(purchase')
  BY <1>3, <1>4 DEF Within
<1>7. Kitchen!ReceiptsStay
  BY <1>1, <1>3, <1>4 DEF Kitchen!ReceiptsStay, Open
<1>8. DOMAIN request' = Kitchen!Requests /\ \A p \in Kitchen!Requests : ReceiptWaits(p)'
  <2>1. /\ purchase'.status # "none" /\ purchase'.ordered = purchase.ordered
        /\ purchase'.status = "ordered" => ~wins
    BY <1>1, <1>4
  <2>2. purchase'.status # "ordered"
    BY <1>5, <1>4 DEF KitchenInv, ReceiptWaits, Kitchen!OrderWins, Kitchen!ReceiveBatch
  <2> HIDE DEF seen, q, wins, got
  <2> QED
    BY <1>2, <2>1, <2>2, ReceiptsWait
<1> QED
  BY <1>4, <1>5, <1>6, <1>7, <1>8 DEF KitchenInv, Within, NothingYet

LEMMA KitchenStep ==
  UnitsAreCounted /\ KitchenInv /\ [Kitchen!Next]_(Kitchen!vars)
    => KitchenInv' /\ [Kitchen!ReceiptsStay]_(Kitchen!vars)
<1> SUFFICES ASSUME UnitsAreCounted, KitchenInv, [Kitchen!Next]_(Kitchen!vars)
             PROVE  KitchenInv' /\ [Kitchen!ReceiptsStay]_(Kitchen!vars)
  OBVIOUS
<1>1. CASE UNCHANGED Kitchen!vars
  <2>1. UNCHANGED <<purchase, request>>
    BY <1>1 DEF Kitchen!vars
  <2> QED
    BY <1>1, <2>1 DEF KitchenInv, ReceiptWaits, Within, NothingYet
<1>2. ASSUME NEW r \in Kitchen!Requests,
             \/ Kitchen!Purchase(r) \/ Kitchen!ReceiveRead(r) \/ Kitchen!ReceiveItems(r)
             \/ Kitchen!ReceiveBatch(r) \/ Kitchen!Recipe(r) \/ Kitchen!Plan(r)
             \/ Kitchen!Start(r) \/ Kitchen!CompleteRead(r) \/ Kitchen!CompleteBatch(r)
             \/ Kitchen!AdjustRead(r) \/ Kitchen!AdjustBatch(r)
             \/ Kitchen!WasteRead(r) \/ Kitchen!WasteBatch(r)
      PROVE  KitchenInv' /\ Kitchen!ReceiptsStay
  BY <1>2, Purchased, ReceiptReads, Received, KitchenElsewhere
<1> QED
  BY <1>1, <1>2 DEF Kitchen!Next

\* No step makes a batch of the kitchen report another yield, once it has.
LEMMA YieldStep ==
  ASSUME Kitchen!Next
  PROVE  Kitchen!YieldIsFinal
<1>1. PICK r \in Kitchen!Requests :
        \/ Kitchen!Plan(r) \/ Kitchen!Start(r) \/ Kitchen!CompleteBatch(r) \/ UNCHANGED batches
  BY DEF Kitchen!Next, Kitchen!Purchase, Kitchen!ReceiveRead, Kitchen!ReceiveItems,
     Kitchen!ReceiveBatch, Kitchen!Recipe, Kitchen!CompleteRead, Kitchen!AdjustRead,
     Kitchen!AdjustBatch, Kitchen!WasteRead, Kitchen!WasteBatch
<1>2. CASE Kitchen!Plan(r)
  BY <1>2 DEF Kitchen!Plan, Kitchen!YieldIsFinal
<1>3. CASE Kitchen!Start(r)
  <2>1. PICK b \in DOMAIN batches :
          batches[b].status = "planned" /\ batches' = [batches EXCEPT ![b].status = "in_progress"]
    BY <1>3 DEF Kitchen!Start
  <2> QED
    BY <2>1 DEF Kitchen!YieldIsFinal
<1>4. CASE Kitchen!CompleteBatch(r)
  <2>1. \/ UNCHANGED batches
        \/ /\ batches[request[r].batch].status = "in_progress"
           /\ \E row : batches' = [batches EXCEPT ![request[r].batch] = row]
    BY <1>4 DEF Kitchen!CompleteBatch, Kitchen!CompleteWins
  <2> QED
    BY <2>1 DEF Kitchen!YieldIsFinal
<1>5. CASE UNCHANGED batches
  BY <1>5 DEF Kitchen!YieldIsFinal
<1> QED
  BY <1>1, <1>2, <1>3, <1>4, <1>5

\* The sum of the items, as the module unfolds it.
SumOf(v, S) == Kitchen!MapThenSumSet(LAMBDA k : v[k], S)
SumUp(v, f, s) == IF s = {} THEN 0 ELSE v[Pick(s)] + f[s \ {Pick(s)}]
SumFold(v, S) == CHOOSE f : f = [s \in SUBSET S |-> SumUp(v, f, s)]

LEMMA SumIsTotal ==
  ASSUME NEW v, NEW S, Counted(v, S)
  PROVE  SumOf(v, S) = Total(v, S)
<1>1. SumOf(v, S) = SumFold(v, S)[S]
  BY DEF SumOf, Kitchen!MapThenSumSet, Kitchen!MapThenFoldSet, SumFold, SumUp, Pick
<1>2. ASSUME NEW f, NEW s \in SUBSET S PROVE SumUp(v, f, s) = AddUp(v, f, s)
  BY DEF SumUp, AddUp
<1>3. PICK f \in [SUBSET S -> Nat] : Solves(f, v, S)
  BY TotalsExist
<1>4. f = [s \in SUBSET S |-> SumUp(v, f, s)]
  BY <1>2, <1>3 DEF Solves
<1>5. PICK g : g = SumFold(v, S)
  OBVIOUS
<1>6. g = [s \in SUBSET S |-> SumUp(v, g, s)]
  BY <1>4, <1>5 DEF SumFold
<1>7. Solves(g, v, S)
  BY <1>2, <1>6 DEF Solves
<1> QED
  BY <1>1, <1>5, <1>7, TotalIs

\* What counts as received is owed.
Owes == payable \in Nat /\ Total(purchase.received, Skus) <= payable

LEMMA NothingOwed ==
  ASSUME IsFiniteSet(Skus), NEW v \in [Skus -> Nat], \A k \in Skus : v[k] = 0
  PROVE  Total(v, Skus) = 0
<1>1. Counted(v, Skus)
  BY DEF Counted
<1>2. Total(v, Skus) = Total(v, {})
  BY <1>1, TotalOfMost
<1> QED
  BY <1>2, TotalOfNone

\* A receipt owes for everything it brings, whether it counts as received or not.
LEMMA MoreIsOwed ==
  ASSUME IsFiniteSet(Skus), Owes, NEW r \in Kitchen!Requests, Kitchen!ReceiveBatch(r), KitchenInv
  PROVE  Owes'
<1> DEFINE seen == request[r].seen
           q == request[r].units
           some == {k \in Skus : q[k] > 0}
           old == purchase.received
           new == purchase'.received
           more == [k \in Skus |-> new[k] - old[k]]
           rest == [k \in Skus |-> q[k] - more[k]]
<1>1. /\ purchase \in PurchaseRow /\ seen \in PurchaseRow /\ q \in [Skus -> Nat]
      /\ \A k \in Skus : seen.received[k] + q[k] <= purchase.ordered[k]
  BY DEF KitchenInv, ReceiptWaits, Kitchen!ReceiveBatch
<1>2. new = [k \in Skus |-> IF k \in some /\ Kitchen!ItemWins(r, k)
                            THEN seen.received[k] + q[k] ELSE old[k]]
  BY <1>1 DEF Kitchen!ReceiveBatch, PurchaseRow
<1>3. old \in [Skus -> Nat] /\ new \in [Skus -> Nat]
  BY <1>1, <1>2 DEF PurchaseRow
<1>4. ASSUME NEW k \in Skus PROVE new[k] = old[k] \/ new[k] = old[k] + q[k]
  BY <1>2, <1>4 DEF Kitchen!ItemWins
<1>5. more \in [Skus -> Nat] /\ rest \in [Skus -> Nat]
  BY <1>1, <1>3, <1>4
<1>6. /\ \A k \in Skus : new[k] = old[k] + more[k]
      /\ \A k \in Skus : q[k] = more[k] + rest[k]
      /\ \A k \in Skus \ some : q[k] = 0
  BY <1>1, <1>3, <1>5
<1>7. /\ Counted(old, Skus) /\ Counted(more, Skus) /\ Counted(rest, Skus)
      /\ Counted(q, Skus) /\ Counted(q, some)
  <2>1. IsFiniteSet(some)
    BY FS_Subset
  <2> QED
    BY <1>1, <1>3, <1>5, <2>1 DEF Counted
<1>8. payable' = payable + SumOf(q, some)
  BY DEF Kitchen!ReceiveBatch, SumOf
<1> HIDE DEF q, some, old, new, more, rest
<1>9. Total(new, Skus) = Total(old, Skus) + Total(more, Skus)
  BY <1>6, <1>7, TotalAdds
<1>10. Total(q, Skus) = Total(more, Skus) + Total(rest, Skus)
  BY <1>6, <1>7, TotalAdds
<1>11. SumOf(q, some) = Total(q, Skus)
  <2>1. some \in SUBSET Skus
    BY DEF some
  <2> QED
    BY <1>6, <1>7, <2>1, SumIsTotal, TotalOfMost
<1>12. /\ Total(old, Skus) \in Nat /\ Total(more, Skus) \in Nat /\ Total(rest, Skus) \in Nat
  BY <1>7, TotalType
<1>13. payable' \in Nat /\ Total(new, Skus) <= payable'
  BY <1>8, <1>9, <1>10, <1>11, <1>12 DEF Owes, old
<1> QED
  BY <1>13 DEF Owes, new

LEMMA OwesStep ==
  ASSUME IsFiniteSet(Skus), KitchenInv, Owes, [Kitchen!Next]_(Kitchen!vars),
         UnitsAreCounted
  PROVE  Owes'
<1>1. CASE UNCHANGED <<purchase, payable>>
  BY <1>1 DEF Owes
<1>2. CASE \E r \in Kitchen!Requests : Kitchen!ReceiveBatch(r)
  BY <1>2, MoreIsOwed
<1>3. CASE \E r \in Kitchen!Requests : Kitchen!Purchase(r)
  <2>1. /\ UNCHANGED payable
        /\ purchase'.received \in [Skus -> Nat] /\ \A k \in Skus : purchase'.received[k] = 0
    BY <1>3 DEF Kitchen!Purchase
  <2> QED
    BY <2>1, NothingOwed DEF Owes
<1>4. \/ UNCHANGED <<purchase, payable>>
      \/ \E r \in Kitchen!Requests : Kitchen!ReceiveBatch(r) \/ Kitchen!Purchase(r)
  BY DEF Kitchen!Next, Kitchen!vars, Kitchen!ReceiveRead, Kitchen!ReceiveItems, Kitchen!Recipe,
     Kitchen!Plan, Kitchen!Start, Kitchen!CompleteRead, Kitchen!CompleteBatch, Kitchen!AdjustRead,
     Kitchen!AdjustBatch, Kitchen!WasteRead, Kitchen!WasteBatch
<1> QED
  BY <1>1, <1>2, <1>3, <1>4

\* However many receipts overlap, and whether they are told that they lost: an item of a purchase
\* gets no more than was ordered, an order of which something came shows it, and whatever counts
\* as received is owed to the supplier.
THEOREM ReceivedWithinHolds ==
  ASSUME UnitsAreCounted
  PROVE  Kitchen!Spec => []Kitchen!ReceivedWithinOrder
<1> IsFiniteSet(Skus)
  BY DEF UnitsAreCounted
<1>1. Kitchen!Init => KitchenInv /\ Owes
  <2>1. Kitchen!Init => Owes
    <3> SUFFICES ASSUME Kitchen!Init PROVE Owes
      OBVIOUS
    <3>1. /\ payable = 0 /\ purchase.received \in [Skus -> Nat]
          /\ \A k \in Skus : purchase.received[k] = 0
      BY DEF Kitchen!Init, Kitchen!NoPurchase
    <3> QED
      BY <3>1, NothingOwed DEF Owes
  <2> QED
    BY <2>1, InitKitchen
<1>2. KitchenInv /\ Owes /\ [Kitchen!Next]_(Kitchen!vars) => KitchenInv' /\ Owes'
  BY KitchenStep, OwesStep
<1>3. KitchenInv /\ Owes => Kitchen!ReceivedWithinOrder
  <2> SUFFICES ASSUME KitchenInv, Owes PROVE Kitchen!ReceivedWithinOrder
    OBVIOUS
  <2>1. Counted(purchase.received, Skus)
    BY DEF KitchenInv, PurchaseRow, Counted
  <2>2. SumOf(purchase.received, Skus) <= payable
    BY <2>1, SumIsTotal DEF Owes
  <2> QED
    BY <2>2 DEF KitchenInv, Within, NothingYet, SumOf, Kitchen!ReceivedWithinOrder
<1> QED
  BY <1>1, <1>2, <1>3, PTL DEF Kitchen!Spec

\* No receipt takes back what another has counted, and none opens an order that is closed.
THEOREM ReceiptsStayHolds ==
  ASSUME UnitsAreCounted
  PROVE  Kitchen!Spec => [][Kitchen!ReceiptsStay]_(Kitchen!vars)
BY InitKitchen, KitchenStep, PTL DEF Kitchen!Spec

\* The yield a batch reported is not written over by one who completes it at the same time.
THEOREM YieldIsFinalHolds == Kitchen!Spec => [][Kitchen!YieldIsFinal]_(Kitchen!vars)
<1>1. [Kitchen!Next]_(Kitchen!vars) => [Kitchen!YieldIsFinal]_(Kitchen!vars)
  BY YieldStep
<1> QED
  BY <1>1, PTL DEF Kitchen!Spec

-----------------------------------------------------------------------------
(***************************************************************************)
(* Customers.  Orders find or make a profile, registrations take it over,  *)
(* points are added to it: none of them takes it from its account.         *)
(***************************************************************************)

ProfileShape(p) == p \in [id : {"derived", "fresh"}, user : {p.user}, points : {p.points}]
ClubInv == \A q \in DOMAIN profiles : ProfileShape(profiles[q])

\* A profile the order made or found.
LEMMA ProfileMade ==
  ASSUME ClubInv, NEW q, NEW how \in {"derived", "fresh"}, NEW u,
         profiles' = Club!WithProfile(q, how, u)
  PROVE  ClubInv' /\ Club!ProfileKeepsAccount
<1> DEFINE row == [id |-> how, user |-> u, points |-> 0]
<1>1. /\ DOMAIN profiles' = DOMAIN profiles \cup {q}
      /\ \A x \in DOMAIN profiles : profiles'[x] = profiles[x]
      /\ q \notin DOMAIN profiles => profiles'[q] = row
  BY DEF Club!WithProfile
<1>2. ProfileShape(row)
  BY DEF ProfileShape
<1> HIDE DEF row
<1> QED
  BY <1>1, <1>2 DEF ClubInv, Club!ProfileKeepsAccount

\* Only a profile that nobody has gets an account.
LEMMA ProfileLinked ==
  ASSUME ClubInv, NEW q, NEW u, profiles' = Club!Linked(q, u)
  PROVE  ClubInv' /\ Club!ProfileKeepsAccount
<1>1. CASE Club!Linkable(q)
  <2>1. /\ q \in DOMAIN profiles /\ profiles[q].user = None
        /\ profiles' = [profiles EXCEPT ![q].user = u]
    BY <1>1 DEF Club!Linked, Club!Linkable
  <2>2. /\ DOMAIN profiles' = DOMAIN profiles
        /\ \A x \in DOMAIN profiles : x # q => profiles'[x] = profiles[x]
        /\ profiles'[q] = [profiles[q] EXCEPT !.user = u]
    BY <2>1
  <2>3. ProfileShape(profiles'[q])
    BY <2>1, <2>2 DEF ClubInv, ProfileShape
  <2> QED
    BY <2>1, <2>2, <2>3 DEF ClubInv, Club!ProfileKeepsAccount
<1>2. CASE ~Club!Linkable(q)
  BY <1>2 DEF Club!Linked, ClubInv, ProfileShape, Club!ProfileKeepsAccount
<1> QED
  BY <1>1, <1>2

LEMMA ClubStep ==
  ClubInv /\ [Club!Next]_(Club!vars) => ClubInv' /\ [Club!ProfileKeepsAccount]_(Club!vars)
<1> SUFFICES ASSUME ClubInv, [Club!Next]_(Club!vars)
             PROVE  ClubInv' /\ Club!ProfileKeepsAccount
  OBVIOUS
<1>1. CASE UNCHANGED profiles
  BY <1>1 DEF ClubInv, ProfileShape, Club!ProfileKeepsAccount
<1>2. ASSUME NEW c \in Club!Requests, Club!OrderCreate(c)
      PROVE  ClubInv' /\ Club!ProfileKeepsAccount
  <2>1. UNCHANGED profiles \/ \E q : profiles' = Club!WithProfile(q, "derived", None)
    BY <1>2 DEF Club!OrderCreate
  <2> QED
    BY <1>1, <2>1, ProfileMade
<1>3. ASSUME NEW c \in Club!Requests, Club!Link(c)
      PROVE  ClubInv' /\ Club!ProfileKeepsAccount
  <2>1. UNCHANGED profiles \/ \E q, u : profiles' = Club!Linked(q, u)
    BY <1>3 DEF Club!Link
  <2> QED
    BY <1>1, <2>1, ProfileLinked
<1>4. ASSUME NEW c \in Club!Requests, Club!Adopt(c)
      PROVE  ClubInv' /\ Club!ProfileKeepsAccount
  <2>1. \E p : profiles' = Club!Linked(p, p) \/ profiles' = Club!WithProfile(p, "fresh", p)
    BY <1>4 DEF Club!Adopt
  <2> QED
    BY <2>1, ProfileLinked, ProfileMade
<1>5. ASSUME NEW c \in Club!Requests, Club!Credit(c)
      PROVE  ClubInv' /\ Club!ProfileKeepsAccount
  <2> DEFINE q == request[c].customer
  <2>1. profiles' = [profiles EXCEPT ![q].points = @ + 1]
    BY <1>5 DEF Club!Credit
  <2>2. DOMAIN profiles' = DOMAIN profiles
    BY <2>1
  <2>3. ASSUME NEW x \in DOMAIN profiles
        PROVE  ProfileShape(profiles'[x]) /\ profiles'[x].user = profiles[x].user
    <3>1. profiles'[x] = profiles[x] \/ profiles'[x] = [profiles[x] EXCEPT !.points = @ + 1]
      BY <2>1
    <3> QED
      BY <3>1 DEF ClubInv, ProfileShape
  <2> QED
    BY <2>2, <2>3 DEF ClubInv, Club!ProfileKeepsAccount
<1>6. ASSUME NEW c \in Club!Requests,
             \/ Club!OrderRead(c) \/ Club!Redeem(c) \/ Club!Earn(c) \/ Club!RegisterRead(c)
             \/ Club!Register(c) \/ Club!NotifyRead(c) \/ Club!ReviewRead(c) \/ Club!Tell(c)
             \/ Club!Crash(c)
      PROVE  UNCHANGED profiles
  BY <1>6 DEF Club!OrderRead, Club!Redeem, Club!Earn, Club!RegisterRead, Club!Register,
     Club!NotifyRead, Club!ReviewRead, Club!Tell, Club!Crash
<1>7. Club!MoveOrder \/ UNCHANGED Club!vars => UNCHANGED profiles
  BY DEF Club!MoveOrder, Club!vars
<1> QED
  BY <1>1, <1>2, <1>3, <1>4, <1>5, <1>6, <1>7 DEF Club!Next

\* A profile that belongs to an account stays with it, whoever orders with its number, registers
\* or earns points meanwhile.
THEOREM ProfileKeepsAccountHolds ==
  Club!Spec => [][Club!ProfileKeepsAccount]_(Club!vars)
<1>1. Club!Init => ClubInv
  BY DEF Club!Init, ClubInv
<1> QED
  BY <1>1, ClubStep, PTL DEF Club!Spec

-----------------------------------------------------------------------------
(***************************************************************************)
(* Catalog.  Whoever changes a price: an edit that names none keeps it.    *)
(***************************************************************************)

\* The stamps the product can have had; no request to come has one of them.
Stamped == {s \in Menu!Requests : request[s].at = "done"} \cup {None}
PriceWaits(c) ==
  request[c].at = "edit" =>
    /\ request[c].stamp \in Stamped
    /\ request[c].stamp = product.stamp /\ ~request[c].named => request[c].price = product.price

MenuInv ==
  /\ DOMAIN request = Menu!Requests /\ product.stamp \in Stamped
  /\ product \in [active : {product.active}, price : {product.price}, stamp : {product.stamp}]
  /\ \A c \in Menu!Requests : PriceWaits(c)

LEMMA InitMenu == Menu!Init => MenuInv
BY DEF Menu!Init, Menu!Idle, MenuInv, Stamped, PriceWaits

\* One request goes on; the product is as it was or has its stamp.
LEMMA MenuMoves ==
  ASSUME WritersAreNamed, MenuInv, NEW c \in Menu!Requests, NEW what, request[c].at # "done",
         Menu!Then(c, what), product' = product \/ (product'.stamp = c /\ what.at = "done"),
         product' \in [active : {product'.active}, price : {product'.price}, stamp : {product'.stamp}],
         PriceWaits(c)'
  PROVE  MenuInv'
<1>1. /\ DOMAIN request' = Menu!Requests /\ request'[c] = what
      /\ \A d \in Menu!Requests : d # c => request'[d] = request[d]
  BY DEF MenuInv, Menu!Then
<1>2. Stamped \subseteq Stamped' /\ c \notin Stamped
  BY <1>1 DEF Stamped, WritersAreNamed
<1>3. product'.stamp \in Stamped'
  BY <1>1, <1>2 DEF MenuInv, Stamped
<1>4. ASSUME NEW d \in Menu!Requests, d # c PROVE PriceWaits(d)'
  <2>1. request'[d] = request[d]
    BY <1>1, <1>4
  <2>2. request[d].at = "edit" => request[d].stamp \in Stamped /\ request[d].stamp # c
    BY <1>2 DEF MenuInv, PriceWaits
  <2> QED
    BY <1>2, <2>1, <2>2 DEF MenuInv, PriceWaits
<1> QED
  BY <1>1, <1>3, <1>4 DEF MenuInv

\* A request that is over, or waits with something else than an edit.
LEMMA MenuCalls ==
  ASSUME WritersAreNamed, MenuInv, NEW c \in Menu!Requests, NEW what, request[c].at # "done",
         Menu!Then(c, what), what.at # "edit",
         \/ product' = product
         \/ /\ what.at = "done"
            /\ \E a, p : product' = [active |-> a, price |-> p, stamp |-> c]
  PROVE  MenuInv'
<1>1. request'[c] = what
  BY DEF MenuInv, Menu!Then
<1>2. PriceWaits(c)'
  BY <1>1 DEF PriceWaits
<1>3. product' \in [active : {product'.active}, price : {product'.price}, stamp : {product'.stamp}]
  BY DEF MenuInv
<1>4. product' = product \/ (product'.stamp = c /\ what.at = "done")
  OBVIOUS
<1> QED
  BY <1>2, <1>3, <1>4, MenuMoves

LEMMA MenuReads ==
  ASSUME WritersAreNamed, MenuInv, NEW c \in Menu!Requests, Menu!EditRead(c)
  PROVE  MenuInv'
<1>1. PICK p \in Prices, named \in BOOLEAN :
        /\ ~named => p = product.price
        /\ Menu!Begin(c, [at |-> "edit", price |-> p, named |-> named, stamp |-> product.stamp])
  BY DEF Menu!EditRead
<1> DEFINE what == [at |-> "edit", price |-> p, named |-> named, stamp |-> product.stamp]
<1>2. Menu!Then(c, what) /\ request[c].at # "done"
  BY <1>1 DEF Menu!Begin, Menu!Idle
<1>3. what.at = "edit" /\ what.stamp = product.stamp /\ (~what.named => what.price = product.price)
  BY <1>1
<1>4. product' = product
  BY DEF Menu!EditRead
<1> HIDE DEF what
<1>5. /\ request'[c] = what
      /\ \A d \in Menu!Requests : d # c => request'[d] = request[d]
  BY <1>2 DEF MenuInv, Menu!Then
<1>6. Stamped \subseteq Stamped'
  BY <1>2, <1>5 DEF Stamped
<1>7. PriceWaits(c)'
  BY <1>3, <1>4, <1>5, <1>6 DEF MenuInv, PriceWaits
<1> QED
  BY <1>2, <1>4, <1>7, MenuMoves DEF MenuInv

LEMMA MenuWrites ==
  ASSUME WritersAreNamed, MenuInv, NEW c \in Menu!Requests,
         Menu!Edit(c) \/ Menu!Archive(c) \/ Menu!SetPrice(c)
  PROVE  MenuInv'
<1>1. request[c].at # "done" /\ Menu!Then(c, Menu!Done) /\ Menu!Done.at = "done"
  BY DEF Menu!Edit, Menu!Archive, Menu!SetPrice, Menu!Begin, Menu!Idle, Menu!Done
<1>2. \/ product' = product
      \/ \E p : product' = [product EXCEPT !.price = p, !.stamp = c]
      \/ \E a : product' = [product EXCEPT !.active = a, !.stamp = c]
  BY DEF Menu!Edit, Menu!Archive, Menu!SetPrice
<1>3. product' = product \/ \E a, p : product' = [active |-> a, price |-> p, stamp |-> c]
  BY <1>2 DEF MenuInv
<1> QED
  BY <1>1, <1>3, MenuCalls

LEMMA MenuRests ==
  ASSUME WritersAreNamed, MenuInv, NEW c \in Menu!Requests,
         \/ Menu!SetRead(c) \/ Menu!OptionRead(c) \/ Menu!PutOption(c) \/ Menu!ArchiveOption(c)
         \/ Menu!LoadRead(c) \/ Menu!Resolve(c)
  PROVE  MenuInv'
<1>1. product' = product
  BY DEF Menu!SetRead, Menu!OptionRead, Menu!PutOption, Menu!ArchiveOption, Menu!LoadRead, Menu!Resolve
<1>2. \E what : request[c].at # "done" /\ Menu!Then(c, what) /\ what.at # "edit"
  <2>1. CASE Menu!SetRead(c)
    BY <2>1 DEF Menu!SetRead, Menu!Begin, Menu!Idle
  <2>2. CASE Menu!OptionRead(c) \/ Menu!LoadRead(c)
    BY <2>2 DEF Menu!OptionRead, Menu!LoadRead, Menu!Begin, Menu!Idle
  <2>3. CASE Menu!PutOption(c) \/ Menu!ArchiveOption(c) \/ Menu!Resolve(c)
    BY <2>3 DEF Menu!PutOption, Menu!ArchiveOption, Menu!Resolve, Menu!Begin, Menu!Idle, Menu!Done
  <2> QED
    BY <2>1, <2>2, <2>3
<1> QED
  BY <1>1, <1>2, MenuCalls

LEMMA MenuStep == WritersAreNamed /\ MenuInv /\ [Menu!Next]_(Menu!vars) => MenuInv'
<1> SUFFICES ASSUME WritersAreNamed, MenuInv, [Menu!Next]_(Menu!vars) PROVE MenuInv'
  OBVIOUS
<1>1. CASE UNCHANGED <<product, request>>
  BY <1>1 DEF MenuInv, Stamped, PriceWaits
<1>2. Menu!Tick \/ UNCHANGED Menu!vars => UNCHANGED <<product, request>>
  BY DEF Menu!Tick, Menu!vars
<1> QED
  BY <1>1, <1>2, MenuReads, MenuWrites, MenuRests DEF Menu!Next

LEMMA KeptPrice == MenuInv /\ [Menu!Next]_(Menu!vars) => [Menu!EditsKeepPrice]_(Menu!vars)
<1> SUFFICES ASSUME MenuInv, [Menu!Next]_(Menu!vars),
                    NEW c \in Menu!Requests, request[c].at = "edit", request'[c] = Menu!Done,
                    ~request[c].named
             PROVE  product'.price = product.price
  BY DEF Menu!EditsKeepPrice
<1>1. Menu!Done.at = "done"
  BY DEF Menu!Done
<1>2. ASSUME NEW d \in Menu!Requests, request[d].at # "edit", NEW what, Menu!Then(d, what)
      PROVE  FALSE
  BY <1>1, <1>2 DEF Menu!Then, MenuInv
<1>3. ASSUME NEW d \in Menu!Requests, Menu!Edit(d) PROVE product'.price = product.price
  <2>1. d = c
    BY <1>1, <1>3 DEF Menu!Edit, Menu!Then, MenuInv
  <2>2. CASE Menu!EditWins(c)
    <3>1. request[c].price = product.price
      BY <2>2 DEF MenuInv, PriceWaits, Menu!EditWins
    <3> QED
      BY <1>3, <2>1, <2>2, <3>1 DEF Menu!Edit, MenuInv
  <2>3. CASE ~Menu!EditWins(c)
    BY <1>3, <2>1, <2>3 DEF Menu!Edit
  <2> QED
    BY <2>2, <2>3
<1>4. Menu!Tick \/ UNCHANGED Menu!vars => product'.price = product.price
  BY DEF Menu!Tick, Menu!vars
<1>5. ASSUME NEW d \in Menu!Requests,
             \/ Menu!EditRead(d) \/ Menu!Archive(d) \/ Menu!SetRead(d) \/ Menu!OptionRead(d)
             \/ Menu!ArchiveOption(d) \/ Menu!LoadRead(d)
      PROVE  FALSE
  <2>1. \E what : Menu!Begin(d, what)
    BY <1>5 DEF Menu!EditRead, Menu!Archive, Menu!SetRead, Menu!OptionRead, Menu!ArchiveOption,
       Menu!LoadRead
  <2> QED
    BY <1>2, <2>1 DEF Menu!Begin, Menu!Idle
<1>6. ASSUME NEW d \in Menu!Requests, Menu!SetPrice(d) \/ Menu!PutOption(d) \/ Menu!Resolve(d)
      PROVE  FALSE
  BY <1>2, <1>6 DEF Menu!SetPrice, Menu!PutOption, Menu!Resolve
<1> QED
  BY <1>3, <1>4, <1>5, <1>6 DEF Menu!Next

\* An edit of the product that names no price never brings back one that was changed meanwhile.
THEOREM EditsKeepPriceHolds ==
  ASSUME WritersAreNamed PROVE Menu!Spec => [][Menu!EditsKeepPrice]_(Menu!vars)
<1>1. MenuInv /\ [Menu!Next]_(Menu!vars) => MenuInv'
  BY MenuStep
<1> QED
  BY <1>1, InitMenu, KeptPrice, PTL DEF Menu!Spec

-----------------------------------------------------------------------------
(***************************************************************************)
(* StockLots.  Whoever approves a count, and however many do at once: the  *)
(* key of the entry lets one shortage of a count in.                       *)
(***************************************************************************)

ShelfInv ==
  /\ \A a \in adjusted : a.units < 0 => a.count \in written
  /\ \A a, b \in adjusted : a.units < 0 /\ b.units < 0 /\ a.count = b.count => a = b

LEMMA ShelfAdjusts ==
  ASSUME ShelfInv, NEW r \in Shelf!Requests, Shelf!ApproveBatch(r)
  PROVE  ShelfInv'
<1> DEFINE c == request[r].count
           v == request[r].variance
           a == [by |-> r, count |-> c, units |-> v]
<1>1. CASE UNCHANGED <<adjusted, written>>
  BY <1>1 DEF ShelfInv
<1>2. CASE ~(v < 0 /\ c \in written)
  <2>1. /\ adjusted' = IF v = 0 THEN adjusted ELSE adjusted \cup {a}
        /\ written' = IF v < 0 THEN written \cup {c} ELSE written
    BY <1>2 DEF Shelf!ApproveBatch, Shelf!Adjust
  <2>2. a.count = c /\ a.units = v
    OBVIOUS
  <2> HIDE DEF a
  <2>3. CASE v < 0
    <3>1. \A b \in adjusted : b.units < 0 => b.count # c
      BY <1>2, <2>3 DEF ShelfInv
    <3>2. \A b \in adjusted' : b \in adjusted \/ b = a
      BY <2>1
    <3>3. written' = written \cup {c}
      BY <2>1, <2>3
    <3> HIDE DEF c, v
    <3> QED
      BY <2>2, <3>1, <3>2, <3>3 DEF ShelfInv
  <2>4. CASE ~(v < 0)
    <3>1. \A b \in adjusted' : b.units < 0 => b \in adjusted
      BY <2>1, <2>2, <2>4
    <3>2. written' = written
      BY <2>1, <2>4
    <3> QED
      BY <3>1, <3>2 DEF ShelfInv
  <2> QED
    BY <2>3, <2>4
<1> QED
  BY <1>1, <1>2 DEF Shelf!ApproveBatch

LEMMA ShelfStep == ShelfInv /\ [Shelf!Next]_(Shelf!vars) => ShelfInv'
<1> SUFFICES ASSUME ShelfInv, [Shelf!Next]_(Shelf!vars) PROVE ShelfInv'
  OBVIOUS
<1>1. CASE UNCHANGED <<adjusted, written>>
  BY <1>1 DEF ShelfInv
<1>2. ASSUME NEW r \in Shelf!Requests,
             \/ Shelf!DeliverRead(r) \/ Shelf!DeliverBatch(r) \/ Shelf!WasteRead(r)
             \/ Shelf!WasteBatch(r) \/ Shelf!OpenRead(r) \/ Shelf!OpenBatch(r)
             \/ Shelf!SubmitRead(r) \/ Shelf!SubmitBatch(r) \/ Shelf!ApproveRead(r)
      PROVE  UNCHANGED <<adjusted, written>>
  BY <1>2 DEF Shelf!DeliverRead, Shelf!DeliverBatch, Shelf!WasteRead, Shelf!WasteBatch,
     Shelf!OpenRead, Shelf!OpenBatch, Shelf!SubmitRead, Shelf!SubmitBatch, Shelf!ApproveRead
<1>3. Shelf!Expire \/ UNCHANGED Shelf!vars => UNCHANGED <<adjusted, written>>
  BY DEF Shelf!Expire, Shelf!vars
<1> QED
  BY <1>1, <1>2, <1>3, ShelfAdjusts DEF Shelf!Next

\* Whoever approves a count, and however many do at once, a shortage it found is taken off the
\* stock once and stands in the ledger.
THEOREM ShortageOnceHolds == Shelf!Spec => []Shelf!ShortageOnce
<1>1. Shelf!Init => ShelfInv
  BY DEF Shelf!Init, ShelfInv
<1>2. ShelfInv => Shelf!ShortageOnce
  <2> SUFFICES ASSUME ShelfInv, NEW c \in Counts
               PROVE  LET off == {a \in adjusted : a.count = c /\ a.units < 0} IN
                      Shelf!Cardinality(off) <= 1 /\ (off # {} => c \in written)
    BY DEF Shelf!ShortageOnce
  <2> DEFINE off == {a \in adjusted : a.count = c /\ a.units < 0}
  <2>1. off = {} \/ \E a : off = {a}
    BY DEF ShelfInv
  <2>2. off # {} => c \in written
    BY DEF ShelfInv
  <2>3. \A S : Shelf!Cardinality(S) = Cardinality(S)
    BY DEF Shelf!Cardinality, Cardinality
  <2>4. \A a : Cardinality({a}) = 1
    BY FS_Singleton
  <2> HIDE DEF off
  <2>5. Cardinality(off) \in {0, 1}
    BY <2>1, <2>4, FS_EmptySet
  <2>6. Shelf!Cardinality(off) <= 1
    BY <2>3, <2>5
  <2> USE DEF off
  <2> QED
    BY <2>2, <2>6
<1> QED
  BY <1>1, <1>2, ShelfStep, PTL DEF Shelf!Spec

-----------------------------------------------------------------------------
(***************************************************************************)
(* Transfers.  Whatever receipts overlap: the keys of the lots and of the  *)
(* entry let one in, so that the store has the goods once and owes once.   *)
(***************************************************************************)

\* The three sums of the module, as they unfold, and as totals.
Units(rows, S) == Goods!MapThenSumSet(LAMBDA t : rows[t].received, S)
UnitsUp(rows, f, s) == IF s = {} THEN 0 ELSE rows[Pick(s)].received + f[s \ {Pick(s)}]
UnitsFold(rows, S) == CHOOSE f : f = [s \in SUBSET S |-> UnitsUp(rows, f, s)]
Stored(S) == Goods!MapThenSumSet(LAMBDA x : x.quantity, S)
StoredUp(f, s) == IF s = {} THEN 0 ELSE Pick(s).quantity + f[s \ {Pick(s)}]
StoredFold(S) == CHOOSE f : f = [s \in SUBSET S |-> StoredUp(f, s)]
OwedUp(f, s) == IF s = {} THEN 0 ELSE Pick(s).amount + f[s \ {Pick(s)}]
OwedFold(S) == CHOOSE f : f = [s \in SUBSET S |-> OwedUp(f, s)]

LEMMA UnitsAreTotal ==
  ASSUME NEW rows, NEW S, NEW v, Counted(v, S), \A t \in S : v[t] = rows[t].received
  PROVE  Units(rows, S) = Total(v, S)
<1>1. Units(rows, S) = UnitsFold(rows, S)[S]
  BY DEF Units, Goods!MapThenSumSet, Goods!MapThenFoldSet, UnitsFold, UnitsUp, Pick
<1>2. ASSUME NEW f, NEW s \in SUBSET S PROVE UnitsUp(rows, f, s) = AddUp(v, f, s)
  BY PickedIn DEF UnitsUp, AddUp
<1>3. PICK f \in [SUBSET S -> Nat] : Solves(f, v, S)
  BY TotalsExist
<1>4. f = [s \in SUBSET S |-> UnitsUp(rows, f, s)]
  BY <1>2, <1>3 DEF Solves
<1>5. PICK g : g = UnitsFold(rows, S)
  OBVIOUS
<1>6. g = [s \in SUBSET S |-> UnitsUp(rows, g, s)]
  BY <1>4, <1>5 DEF UnitsFold
<1>7. Solves(g, v, S)
  BY <1>2, <1>6 DEF Solves
<1> QED
  BY <1>1, <1>5, <1>7, TotalIs

LEMMA StoredIsTotal ==
  ASSUME NEW S, NEW v, Counted(v, S), \A x \in S : v[x] = x.quantity
  PROVE  Stored(S) = Total(v, S)
<1>1. Stored(S) = StoredFold(S)[S]
  BY DEF Stored, Goods!MapThenSumSet, Goods!MapThenFoldSet, StoredFold, StoredUp, Pick
<1>2. ASSUME NEW f, NEW s \in SUBSET S PROVE StoredUp(f, s) = AddUp(v, f, s)
  BY PickedIn DEF StoredUp, AddUp
<1>3. PICK f \in [SUBSET S -> Nat] : Solves(f, v, S)
  BY TotalsExist
<1>4. f = [s \in SUBSET S |-> StoredUp(f, s)]
  BY <1>2, <1>3 DEF Solves
<1>5. PICK g : g = StoredFold(S)
  OBVIOUS
<1>6. g = [s \in SUBSET S |-> StoredUp(g, s)]
  BY <1>4, <1>5 DEF StoredFold
<1>7. Solves(g, v, S)
  BY <1>2, <1>6 DEF Solves
<1> QED
  BY <1>1, <1>5, <1>7, TotalIs

LEMMA OwedIsTotal ==
  ASSUME NEW S, NEW v, Counted(v, S), \A e \in S : v[e] = e.amount
  PROVE  Goods!Amount(S) = Total(v, S)
<1>1. Goods!Amount(S) = OwedFold(S)[S]
  BY DEF Goods!Amount, Goods!MapThenSumSet, Goods!MapThenFoldSet, OwedFold, OwedUp, Pick
<1>2. ASSUME NEW f, NEW s \in SUBSET S PROVE OwedUp(f, s) = AddUp(v, f, s)
  BY PickedIn DEF OwedUp, AddUp
<1>3. PICK f \in [SUBSET S -> Nat] : Solves(f, v, S)
  BY TotalsExist
<1>4. f = [s \in SUBSET S |-> OwedUp(f, s)]
  BY <1>2, <1>3 DEF Solves
<1>5. PICK g : g = OwedFold(S)
  OBVIOUS
<1>6. g = [s \in SUBSET S |-> OwedUp(g, s)]
  BY <1>4, <1>5 DEF OwedFold
<1>7. Solves(g, v, S)
  BY <1>2, <1>6 DEF Solves
<1> QED
  BY <1>1, <1>5, <1>7, TotalIs

\* What one more element adds to each sum.
LEMMA OneMoreReceived ==
  ASSUME NEW rows, NEW next, NEW S, IsFiniteSet(S), \A t \in S : rows[t].received \in Nat,
         NEW x, x \notin S, next[x].received \in Nat, \A t \in S : next[t].received = rows[t].received
  PROVE  Units(next, S \cup {x}) = Units(rows, S) + next[x].received
<1> DEFINE v == [t \in S |-> rows[t].received]
           w == [t \in S \cup {x} |-> next[t].received]
<1>1. Counted(v, S) /\ \A t \in S : v[t] = rows[t].received
  BY DEF Counted
<1>2. Counted(w, S \cup {x}) /\ \A t \in S \cup {x} : w[t] = next[t].received
  BY FS_AddElement DEF Counted
<1>3. w[x] \in Nat /\ w[x] = next[x].received /\ \A t \in S : w[t] = v[t]
  OBVIOUS
<1> HIDE DEF v, w
<1>4. Total(w, S \cup {x}) = Total(v, S) + w[x]
  BY <1>1, <1>3, TotalWith
<1>5. Units(rows, S) = Total(v, S)
  BY <1>1, UnitsAreTotal
<1>6. Units(next, S \cup {x}) = Total(w, S \cup {x})
  BY <1>2, UnitsAreTotal
<1> QED
  BY <1>3, <1>4, <1>5, <1>6

LEMMA SameReceived ==
  ASSUME NEW rows, NEW next, NEW S, IsFiniteSet(S),
         \A t \in S : rows[t].received \in Nat /\ next[t].received = rows[t].received
  PROVE  Units(next, S) = Units(rows, S) /\ Units(rows, S) \in Nat
<1> DEFINE v == [t \in S |-> rows[t].received]
<1>1. Counted(v, S) /\ \A t \in S : v[t] = rows[t].received /\ v[t] = next[t].received
  BY DEF Counted
<1> HIDE DEF v
<1>2. Units(rows, S) = Total(v, S) /\ Units(next, S) = Total(v, S)
  BY <1>1, UnitsAreTotal
<1> QED
  BY <1>1, <1>2, TotalType

LEMMA OneMoreStored ==
  ASSUME NEW S, IsFiniteSet(S), \A y \in S : y.quantity \in Nat, NEW x, x \notin S, x.quantity \in Nat
  PROVE  Stored(S \cup {x}) = Stored(S) + x.quantity
<1> DEFINE v == [y \in S |-> y.quantity]
           w == [y \in S \cup {x} |-> y.quantity]
<1>1. Counted(v, S) /\ \A y \in S : v[y] = y.quantity
  BY DEF Counted
<1>2. Counted(w, S \cup {x}) /\ \A y \in S \cup {x} : w[y] = y.quantity
  BY FS_AddElement DEF Counted
<1>3. w[x] \in Nat /\ w[x] = x.quantity /\ \A y \in S : w[y] = v[y]
  OBVIOUS
<1> HIDE DEF v, w
<1>4. Total(w, S \cup {x}) = Total(v, S) + w[x]
  BY <1>1, <1>3, TotalWith
<1>5. Stored(S) = Total(v, S)
  BY <1>1, StoredIsTotal
<1>6. Stored(S \cup {x}) = Total(w, S \cup {x})
  BY <1>2, StoredIsTotal
<1> QED
  BY <1>3, <1>4, <1>5, <1>6

LEMMA OneMoreOwed ==
  ASSUME NEW S, IsFiniteSet(S), \A e \in S : e.amount \in Nat, NEW x, x \notin S, x.amount \in Nat
  PROVE  Goods!Amount(S \cup {x}) = Goods!Amount(S) + x.amount
<1> DEFINE v == [e \in S |-> e.amount]
           w == [e \in S \cup {x} |-> e.amount]
<1>1. Counted(v, S) /\ \A e \in S : v[e] = e.amount
  BY DEF Counted
<1>2. Counted(w, S \cup {x}) /\ \A e \in S \cup {x} : w[e] = e.amount
  BY FS_AddElement DEF Counted
<1>3. w[x] \in Nat /\ w[x] = x.amount /\ \A e \in S : w[e] = v[e]
  OBVIOUS
<1> HIDE DEF v, w
<1>4. Total(w, S \cup {x}) = Total(v, S) + w[x]
  BY <1>1, <1>3, TotalWith
<1>5. Goods!Amount(S) = Total(v, S)
  BY <1>1, OwedIsTotal
<1>6. Goods!Amount(S \cup {x}) = Total(w, S \cup {x})
  BY <1>2, OwedIsTotal
<1> QED
  BY <1>3, <1>4, <1>5, <1>6

\* Nothing adds up to nothing.
LEMMA NothingMoved ==
  ASSUME NEW rows
  PROVE  Units(rows, {}) = 0 /\ Stored({}) = 0 /\ Goods!Amount({}) = 0
<1>1. Counted(<<>>, {})
  BY FS_EmptySet DEF Counted
<1> QED
  BY <1>1, TotalOfNone, UnitsAreTotal, StoredIsTotal, OwedIsTotal

-----------------------------------------------------------------------------
Arrived == Goods!Existing("received") \cup Goods!Existing("partially_received")
Debts == {e \in entries : e.type = "transfer"}
Came(status) == status \in {"received", "partially_received"}

TransferShape(row) ==
  /\ row \in [status : {row.status}, requested : {row.requested}, shipped : {row.shipped},
              received : {row.received}, rejected : {row.rejected}]
  /\ row.received \in Nat

\* The entries of the debt are those of the transfers that came, one each.
DebtsFollow ==
  /\ \A e \in Debts : e.transfer \in Arrived /\ e.amount \in Nat
  /\ \A t \in Arrived : \E e \in Debts : e.transfer = t
  /\ \A e, d \in Debts : e.transfer = d.transfer => e = d

\* What came is on the shelf and owed.
GoodsBalance ==
  /\ onHand.store = Units(transfers, Arrived)
  /\ Stored(storeLots) = Units(transfers, Arrived)
  /\ Goods!Amount(Debts) = Units(transfers, Arrived)

\* A command is about a transfer that is there, and a receipt about one on its way, or that came.
GoodsWait(r) ==
  LET w == request[r] IN
  /\ w.at \in {"approve", "reject", "pack", "receive"} => w.transfer \in DOMAIN transfers
  /\ w.at = "reject" => w.status \in {"requested", "approved"}
  /\ w.at = "receive" => /\ w.received \in Nat
                         /\ \/ transfers[w.transfer].status = "in_transit"
                            \/ Came(transfers[w.transfer].status)

GoodsInv ==
  /\ DOMAIN request = Goods!Requests
  /\ DOMAIN transfers \subseteq Transfers["goods"] /\ IsFiniteSet(DOMAIN transfers)
  /\ \A t \in DOMAIN transfers : TransferShape(transfers[t])
  /\ DOMAIN onHand = {"kitchen", "store"}
  /\ IsFiniteSet(storeLots) /\ \A x \in storeLots : x.transfer \in Arrived /\ x.quantity \in Nat
  /\ IsFiniteSet(entries)
  /\ DebtsFollow /\ GoodsBalance
  /\ \A r \in Goods!Requests : GoodsWait(r)

LEMMA InitGoods == Goods!Init => GoodsInv
<1> SUFFICES ASSUME Goods!Init PROVE GoodsInv
  OBVIOUS
<1>1. DOMAIN transfers = {} /\ storeLots = {} /\ entries = {}
  BY DEF Goods!Init
<1>2. Arrived = {} /\ Debts = {}
  BY <1>1 DEF Arrived, Goods!Existing, Debts
<1>3. DOMAIN onHand = {"kitchen", "store"} /\ onHand.store = 0
  BY DEF Goods!Init
<1>4. GoodsBalance
  BY <1>1, <1>2, <1>3, NothingMoved DEF GoodsBalance
<1>5. DOMAIN request = Goods!Requests /\ \A r \in Goods!Requests : GoodsWait(r)
  BY DEF Goods!Init, Goods!Idle, GoodsWait
<1> QED
  BY <1>1, <1>2, <1>3, <1>4, <1>5, FS_EmptySet DEF GoodsInv, DebtsFollow

LEMMA ArrivedAre ==
  /\ Arrived = {t \in DOMAIN transfers : Came(transfers[t].status)}
  /\ GoodsInv => IsFiniteSet(Arrived) /\ IsFiniteSet(Debts) /\ \A t \in Arrived : transfers[t].received \in Nat
<1>1. Arrived = {t \in DOMAIN transfers : Came(transfers[t].status)}
  BY DEF Arrived, Goods!Existing, Came
<1>2. ASSUME GoodsInv PROVE IsFiniteSet(Arrived) /\ IsFiniteSet(Debts)
  BY <1>1, <1>2, FS_Subset DEF GoodsInv, Debts
<1>3. GoodsInv => \A t \in Arrived : transfers[t].received \in Nat
  BY <1>1 DEF GoodsInv, TransferShape
<1> QED
  BY <1>1, <1>2, <1>3

\* What every step but a receipt does to the transfers: none comes, none that came is changed, none
\* that is on its way turns back.
Underway ==
  /\ DOMAIN transfers \subseteq DOMAIN transfers' /\ DOMAIN transfers' \subseteq Transfers["goods"]
  /\ IsFiniteSet(DOMAIN transfers') /\ \A t \in DOMAIN transfers' : TransferShape(transfers'[t])
  /\ \A t \in DOMAIN transfers' : Came(transfers'[t].status) =>
       t \in DOMAIN transfers /\ Came(transfers[t].status)
  /\ \A t \in DOMAIN transfers :
       /\ Came(transfers[t].status) =>
            Came(transfers'[t].status) /\ transfers'[t].received = transfers[t].received
       /\ transfers[t].status = "in_transit" => transfers'[t].status = "in_transit"

LEMMA NothingComes ==
  ASSUME GoodsInv, Underway, DOMAIN onHand' = {"kitchen", "store"}, onHand'.store = onHand.store,
         storeLots' = storeLots, Debts' = Debts, IsFiniteSet(entries'),
         NEW r \in Goods!Requests, NEW what, Goods!Then(r, what), GoodsWait(r)'
  PROVE  GoodsInv'
<1>1. Arrived' = Arrived
  BY DEF Underway, Arrived, Goods!Existing, Came
<1>2. \A t \in Arrived : transfers[t].received \in Nat /\ transfers'[t].received = transfers[t].received
  BY ArrivedAre DEF Underway
<1>3. PICK R : R = Arrived
  OBVIOUS
<1>4. Units(transfers', R) = Units(transfers, R)
  BY <1>2, <1>3, ArrivedAre, SameReceived
<1>5. GoodsBalance'
  BY <1>1, <1>3, <1>4 DEF GoodsInv, GoodsBalance
<1>6. DebtsFollow'
  BY <1>1 DEF GoodsInv, DebtsFollow
<1>7. DOMAIN request' = Goods!Requests
  BY DEF GoodsInv, Goods!Then
<1>8. ASSUME NEW q \in Goods!Requests PROVE GoodsWait(q)'
  <2>1. CASE q = r
    BY <2>1
  <2>2. CASE q # r
    <3>1. request'[q] = request[q] /\ GoodsWait(q)
      BY <2>2 DEF GoodsInv, Goods!Then
    <3> QED
      BY <3>1 DEF GoodsWait, Underway
  <2> QED
    BY <2>1, <2>2
<1>9. IsFiniteSet(storeLots') /\ \A x \in storeLots' : x.transfer \in Arrived' /\ x.quantity \in Nat
  BY <1>1 DEF GoodsInv
<1> QED
  BY <1>5, <1>6, <1>7, <1>8, <1>9 DEF GoodsInv, Underway

\* A transfer that has not come takes a step of its own, and none to the store.
LEMMA OneGoesOn ==
  ASSUME GoodsInv, NEW t \in DOMAIN transfers, NEW row, transfers' = [transfers EXCEPT ![t] = row],
         TransferShape(row),
         \/ row.status = transfers[t].status /\ row.received = transfers[t].received
         \/ ~Came(transfers[t].status) /\ transfers[t].status # "in_transit" /\ ~Came(row.status)
  PROVE  Underway
<1>1. DOMAIN transfers' = DOMAIN transfers /\ transfers'[t] = row
  OBVIOUS
<1>2. \A u \in DOMAIN transfers : u # t => transfers'[u] = transfers[u]
  OBVIOUS
<1> QED
  BY <1>1, <1>2 DEF GoodsInv, Underway

LEMMA NoneGoesOn ==
  ASSUME GoodsInv, transfers' = transfers
  PROVE  Underway
BY DEF GoodsInv, Underway

-----------------------------------------------------------------------------
LEMMA GoodsRequested ==
  ASSUME GoodsInv, NEW r \in Goods!Requests, Goods!Request(r)
  PROVE  GoodsInv'
<1>1. PICK t \in Transfers["goods"] \ DOMAIN transfers, n \in 1..MaxQty :
        transfers' = [u \in DOMAIN transfers \cup {t} |->
          IF u # t THEN transfers[u]
          ELSE [status |-> "requested", requested |-> n, shipped |-> 0,
                received |-> 0, rejected |-> 0]]
  BY DEF Goods!Request
<1>2. DOMAIN transfers' = DOMAIN transfers \cup {t} /\ IsFiniteSet(DOMAIN transfers')
  BY <1>1, FS_AddElement DEF GoodsInv
<1>3. transfers'[t].status = "requested" /\ TransferShape(transfers'[t])
  BY <1>1 DEF TransferShape
<1>4. \A u \in DOMAIN transfers : transfers'[u] = transfers[u]
  BY <1>1
<1>5. Underway
  BY <1>1, <1>2, <1>3, <1>4 DEF GoodsInv, Underway, Came
<1>6. Goods!Then(r, Goods!Done) /\ Goods!Done.at = "done"
  BY DEF Goods!Request, Goods!Done
<1>7. request'[r] = Goods!Done
  BY <1>6 DEF GoodsInv, Goods!Then
<1>8. GoodsWait(r)'
  BY <1>6, <1>7 DEF GoodsWait
<1>9. UNCHANGED <<onHand, storeLots, entries>> /\ Debts' = Debts
  BY DEF Goods!Request, Debts
<1> QED
  BY <1>5, <1>6, <1>8, <1>9, NothingComes DEF GoodsInv

\* A read takes note of a transfer that is there.
LEMMA GoodsRead ==
  ASSUME GoodsInv, NEW r \in Goods!Requests,
         \/ Goods!ApproveRead(r) \/ Goods!RejectRead(r) \/ Goods!PackRead(r)
         \/ Goods!ReceiveRead(r) \/ Goods!PaymentRead(r)
  PROVE  GoodsInv'
<1> DEFINE w == request'[r]
<1>1. UNCHANGED <<transfers, onHand, storeLots, entries>> /\ Underway /\ Debts' = Debts
  <2>1. UNCHANGED <<transfers, onHand, storeLots, entries>>
    BY DEF Goods!ApproveRead, Goods!RejectRead, Goods!PackRead, Goods!ReceiveRead, Goods!PaymentRead
  <2> QED
    BY <2>1, NoneGoesOn DEF Debts
<1>2. \A what : Goods!Begin(r, what) => Goods!Then(r, what) /\ w = what
  BY DEF Goods!Begin, Goods!Then, GoodsInv
<1>3. CASE Goods!ApproveRead(r)
  <2>1. PICK t \in DOMAIN transfers : Goods!Begin(r, [at |-> "approve", transfer |-> t])
    BY <1>3 DEF Goods!ApproveRead, Goods!Existing
  <2>2. Goods!Then(r, [at |-> "approve", transfer |-> t]) /\ w.at = "approve" /\ w.transfer = t
    BY <1>2, <2>1
  <2>3. GoodsWait(r)'
    BY <1>1, <2>2 DEF GoodsWait
  <2> QED
    BY <1>1, <2>2, <2>3, NothingComes DEF GoodsInv
<1>4. CASE Goods!RejectRead(r)
  <2>1. PICK t \in DOMAIN transfers :
          /\ Goods!Begin(r, [at |-> "reject", transfer |-> t, status |-> transfers[t].status])
          /\ transfers[t].status \in {"requested", "approved"}
    BY <1>4 DEF Goods!RejectRead, Goods!Existing
  <2>2. /\ Goods!Then(r, [at |-> "reject", transfer |-> t, status |-> transfers[t].status])
        /\ w.at = "reject" /\ w.transfer = t /\ w.status = transfers[t].status
    BY <1>2, <2>1
  <2>3. GoodsWait(r)'
    BY <1>1, <2>1, <2>2 DEF GoodsWait
  <2> QED
    BY <1>1, <2>2, <2>3, NothingComes DEF GoodsInv
<1>5. CASE Goods!PackRead(r)
  <2>1. PICK t, k :
          /\ t \in DOMAIN transfers
          /\ Goods!Begin(r, [at |-> "pack", transfer |-> t, takes |-> k])
    BY <1>5 DEF Goods!PackRead, Goods!Existing
  <2>2. Goods!Then(r, [at |-> "pack", transfer |-> t, takes |-> k]) /\ w.at = "pack" /\ w.transfer = t
    BY <1>2, <2>1
  <2>3. GoodsWait(r)'
    BY <1>1, <2>1, <2>2 DEF GoodsWait
  <2> QED
    BY <1>1, <2>2, <2>3, NothingComes DEF GoodsInv
<1>6. CASE Goods!ReceiveRead(r)
  <2>1. PICK t, n, b :
          /\ t \in DOMAIN transfers
          /\ Goods!Begin(r, [at |-> "receive", transfer |-> t, received |-> n, balanceAfter |-> b])
          /\ transfers[t].status = "in_transit" /\ n \in 0..transfers[t].shipped
    BY <1>6 DEF Goods!ReceiveRead, Goods!Existing
  <2>2. /\ Goods!Then(r, [at |-> "receive", transfer |-> t, received |-> n, balanceAfter |-> b])
        /\ w.at = "receive" /\ w.transfer = t /\ w.received = n
    BY <1>2, <2>1
  <2>3. GoodsWait(r)'
    BY <1>1, <2>1, <2>2 DEF GoodsWait
  <2> QED
    BY <1>1, <2>2, <2>3, NothingComes DEF GoodsInv
<1>7. CASE Goods!PaymentRead(r)
  <2>1. PICK n, a : Goods!Begin(r, [at |-> "payment", amount |-> n, seen |-> a])
    BY <1>7 DEF Goods!PaymentRead
  <2>2. Goods!Then(r, [at |-> "payment", amount |-> n, seen |-> a]) /\ w.at = "payment"
    BY <1>2, <2>1
  <2>3. GoodsWait(r)'
    BY <2>2 DEF GoodsWait
  <2> QED
    BY <1>1, <2>2, <2>3, NothingComes DEF GoodsInv
<1> QED
  BY <1>3, <1>4, <1>5, <1>6, <1>7

-----------------------------------------------------------------------------
\* A request that is through waits for nothing.
LEMMA GoodsDone ==
  ASSUME GoodsInv, NEW r \in Goods!Requests, Goods!Then(r, Goods!Done)
  PROVE  GoodsWait(r)'
<1>1. request'[r] = Goods!Done /\ Goods!Done.at = "done"
  BY DEF GoodsInv, Goods!Then, Goods!Done
<1> QED
  BY <1>1 DEF GoodsWait

\* The guarded UPDATE of a transfer that is not packed yet.
LEMMA GoodsGuarded ==
  ASSUME GoodsInv, NEW r \in Goods!Requests, Goods!ApproveBatch(r) \/ Goods!RejectBatch(r)
  PROVE  GoodsInv'
<1> DEFINE t == request[r].transfer
<1>1. /\ t \in DOMAIN transfers /\ GoodsWait(r)
      /\ Goods!Then(r, Goods!Done) /\ UNCHANGED <<onHand, storeLots, entries>> /\ Debts' = Debts
  BY DEF GoodsInv, GoodsWait, Goods!ApproveBatch, Goods!RejectBatch, Debts
<1>2. PICK status \in {"approved", "rejected"} :
        \/ transfers' = transfers
        \/ /\ transfers[t].status \in {"requested", "approved"}
           /\ transfers' = [transfers EXCEPT ![t] = [transfers[t] EXCEPT !.status = status]]
  BY <1>1 DEF GoodsWait, Goods!ApproveBatch, Goods!RejectBatch, Goods!Step, Goods!Holds
<1>3. CASE transfers' = transfers
  <2>1. Underway
    BY <1>3, NoneGoesOn
  <2> QED
    BY <1>1, <2>1, GoodsDone, NothingComes DEF GoodsInv
<1>4. CASE /\ transfers[t].status \in {"requested", "approved"}
           /\ transfers' = [transfers EXCEPT ![t] = [transfers[t] EXCEPT !.status = status]]
  <2> DEFINE row == [transfers[t] EXCEPT !.status = status]
  <2>1. TransferShape(transfers[t])
    BY <1>1 DEF GoodsInv
  <2>2. TransferShape(row) /\ row.status = status
    BY <2>1 DEF TransferShape
  <2>3. ~Came(transfers[t].status) /\ transfers[t].status # "in_transit" /\ ~Came(row.status)
    BY <1>2, <1>4, <2>2 DEF Came
  <2>4. transfers' = [transfers EXCEPT ![t] = row]
    BY <1>4
  <2> HIDE DEF row, t
  <2>5. Underway
    BY <1>1, <2>2, <2>3, <2>4, OneGoesOn
  <2> QED
    BY <1>1, <2>5, GoodsDone, NothingComes DEF GoodsInv
<1> QED
  BY <1>2, <1>3, <1>4

LEMMA GoodsPacked ==
  ASSUME GoodsInv, NEW r \in Goods!Requests, Goods!PackBatch(r)
  PROVE  GoodsInv'
<1> DEFINE t == request[r].transfer
           old == transfers[t]
           row == [old EXCEPT !.status = IF old.status = "approved" THEN "packed" ELSE old.status,
                              !.shipped = IF old.shipped = 0 THEN old.requested ELSE old.shipped]
<1>1. /\ t \in DOMAIN transfers
      /\ Goods!Then(r, Goods!Done) /\ UNCHANGED <<storeLots, entries>> /\ Debts' = Debts
  BY DEF GoodsInv, GoodsWait, Goods!PackBatch, Debts
<1>2. transfers' = [transfers EXCEPT ![t] = row]
  <2>1. old \in [status : {old.status}, requested : {old.requested}, shipped : {old.shipped},
                    received : {old.received}, rejected : {old.rejected}]
    BY <1>1 DEF GoodsInv, TransferShape
  <2>2. transfers' = [transfers EXCEPT ![t].status = IF @ = "approved" THEN "packed" ELSE @,
                                       ![t].shipped = IF @ = 0 THEN old.requested ELSE @]
    BY DEF Goods!PackBatch
  <2> QED
    BY <1>1, <2>1, <2>2
<1>3. TransferShape(old)
  BY <1>1 DEF GoodsInv
<1>4. TransferShape(row) /\ row.received = old.received
  BY <1>3 DEF TransferShape
<1>5. row.status = IF old.status = "approved" THEN "packed" ELSE old.status
  BY <1>3 DEF TransferShape
<1>6. DOMAIN onHand' = {"kitchen", "store"} /\ onHand'.store = onHand.store
  BY DEF GoodsInv, Goods!PackBatch
<1> HIDE DEF row
<1>7. Underway
  BY <1>1, <1>2, <1>4, <1>5, OneGoesOn DEF Came
<1> QED
  BY <1>1, <1>6, <1>7, GoodsDone, NothingComes DEF GoodsInv

LEMMA GoodsShipped ==
  ASSUME GoodsInv, NEW r \in Goods!Requests, Goods!Ship(r)
  PROVE  GoodsInv'
<1>1. PICK t \in DOMAIN transfers : /\ transfers[t].status = "packed"
                                    /\ transfers' = [transfers EXCEPT ![t].status = "in_transit"]
  BY DEF Goods!Ship, Goods!Existing
<1>2. Goods!Then(r, Goods!Done) /\ UNCHANGED <<onHand, storeLots, entries>> /\ Debts' = Debts
  BY DEF Goods!Ship, Debts
<1> DEFINE row == [transfers[t] EXCEPT !.status = "in_transit"]
<1>3. TransferShape(transfers[t])
  BY DEF GoodsInv
<1>4. TransferShape(row) /\ row.status = "in_transit"
  BY <1>3 DEF TransferShape
<1>5. transfers' = [transfers EXCEPT ![t] = row]
  BY <1>1
<1> HIDE DEF row
<1>6. Underway
  BY <1>1, <1>4, <1>5, OneGoesOn DEF Came
<1> QED
  BY <1>2, <1>6, GoodsDone, NothingComes DEF GoodsInv

\* A payment and a limit leave the debts' entries alone.
LEMMA GoodsPaid ==
  ASSUME GoodsInv, NEW r \in Goods!Requests, Goods!PaymentBatch(r) \/ Goods!SetLimit(r)
  PROVE  GoodsInv'
<1>1. UNCHANGED <<transfers, onHand, storeLots>> /\ Goods!Then(r, Goods!Done)
  BY DEF Goods!PaymentBatch, Goods!SetLimit
<1>2. \/ entries' = entries
      \/ \E e : e.type = "payment" /\ entries' = entries \cup {e}
  BY DEF Goods!PaymentBatch, Goods!SetLimit
<1>3. Debts' = Debts
  BY <1>2 DEF Debts
<1>4. IsFiniteSet(entries')
  BY <1>2, FS_AddElement DEF GoodsInv
<1> QED
  BY <1>1, <1>3, <1>4, NoneGoesOn, GoodsDone, NothingComes DEF GoodsInv

\* A receipt whose transfer has an entry is undone; another one brings the goods.
LEMMA GoodsReceived ==
  ASSUME GoodsInv, NEW r \in Goods!Requests, Goods!ReceiveBatch(r)
  PROVE  GoodsInv'
<1>1. PICK t, n : t = request[r].transfer /\ n = request[r].received
  OBVIOUS
<1>2. /\ t \in DOMAIN transfers /\ n \in Nat
      /\ transfers[t].status = "in_transit" \/ Came(transfers[t].status)
      /\ Goods!Then(r, Goods!Done) /\ GoodsWait(r)'
  BY <1>1, GoodsDone DEF GoodsInv, GoodsWait, Goods!ReceiveBatch
<1>3. CASE \E e \in entries : e.transfer = t
  <2>1. UNCHANGED <<transfers, storeLots, onHand, entries>>
    BY <1>1, <1>3 DEF Goods!ReceiveBatch
  <2>2. Debts' = Debts
    BY <2>1 DEF Debts
  <2> QED
    BY <1>2, <2>1, <2>2, NoneGoesOn, NothingComes DEF GoodsInv
<1>4. CASE ~ \E e \in entries : e.transfer = t
  <2>1. Goods!Credit(r)
    BY <1>1, <1>4 DEF Goods!ReceiveBatch
  <2>2. t \notin Arrived
    BY <1>4 DEF GoodsInv, DebtsFollow, Debts
  <2>3. transfers[t].status = "in_transit"
    BY <1>2, <2>2, ArrivedAre
  <2> DEFINE old == transfers[t]
             row == Goods!Received(r)
             e == [type |-> "transfer", by |-> r, transfer |-> t, amount |-> n * Goods!Price,
                   balanceAfter |-> request[r].balanceAfter]
             x == [transfer |-> t, quantity |-> n]
  <2>4. /\ transfers' = [transfers EXCEPT ![t] = row]
        /\ storeLots' = storeLots \cup {y \in {x} : y.quantity > 0}
        /\ onHand' = [onHand EXCEPT !.store = @ + n]
        /\ entries' = entries \cup {e}
    BY <1>1, <2>1, <2>3 DEF Goods!Credit, Goods!Step, Goods!Holds
  <2>5. TransferShape(old)
    BY <1>2 DEF GoodsInv
  <2>6. TransferShape(row) /\ row.received = n /\ Came(row.status)
    BY <1>1, <1>2, <2>5 DEF Goods!Received, TransferShape, Came
  <2>7. /\ e.amount = n /\ e.transfer = t /\ e.type = "transfer"
        /\ x.quantity = n /\ x.transfer = t
    BY <1>2 DEF Goods!Price
  <2> HIDE DEF row, e, x
  <2>8. /\ DOMAIN transfers' = DOMAIN transfers /\ transfers'[t] = row
        /\ \A u \in DOMAIN transfers : u # t => transfers'[u] = transfers[u]
    BY <1>2, <2>4
  <2>9. Arrived' = Arrived \cup {t}
    BY <1>2, <2>6, <2>8 DEF Arrived, Goods!Existing, Came
  <2>10. Debts' = Debts \cup {e} /\ e \notin Debts
    BY <1>4, <2>4, <2>7 DEF Debts
  <2>11. PICK R : R = Arrived
    OBVIOUS
  <2>12. Units(transfers', R \cup {t}) = Units(transfers, R) + n
    <3>1. IsFiniteSet(R) /\ t \notin R /\ \A u \in R : transfers[u].received \in Nat
      BY <2>2, <2>11, ArrivedAre
    <3>2. transfers'[t].received = n /\ n \in Nat
      BY <1>2, <2>6, <2>8
    <3>3. \A u \in R : transfers'[u].received = transfers[u].received
      BY <2>2, <2>8, <2>11, ArrivedAre
    <3> QED
      BY <3>1, <3>2, <3>3, OneMoreReceived
  <2>13. Goods!Amount(Debts \cup {e}) = Goods!Amount(Debts) + n
    BY <1>2, <2>7, <2>10, ArrivedAre, OneMoreOwed DEF GoodsInv, DebtsFollow
  <2>14. Stored(storeLots') = Stored(storeLots) + n /\ IsFiniteSet(storeLots')
    <3>1. CASE n = 0
      <4>1. storeLots' = storeLots
        BY <2>4, <2>7, <3>1
      <4>2. Units(transfers, R) \in Nat
        BY <2>11, ArrivedAre, SameReceived
      <4> QED
        BY <2>11, <3>1, <4>1, <4>2 DEF GoodsInv, GoodsBalance
    <3>2. CASE n # 0
      <4>1. storeLots' = storeLots \cup {x}
        BY <1>2, <2>4, <2>7, <3>2
      <4>2. x \notin storeLots
        BY <2>2, <2>7 DEF GoodsInv
      <4>3. Stored(storeLots \cup {x}) = Stored(storeLots) + n
        BY <1>2, <2>7, <4>2, OneMoreStored DEF GoodsInv
      <4> QED
        BY <4>1, <4>3, FS_AddElement DEF GoodsInv
    <3> QED
      BY <3>1, <3>2
  <2>15. onHand'.store = onHand.store + n /\ DOMAIN onHand' = {"kitchen", "store"}
    BY <2>4 DEF GoodsInv
  <2>16. GoodsBalance'
    BY <2>9, <2>10, <2>11, <2>12, <2>13, <2>14, <2>15 DEF GoodsInv, GoodsBalance
  <2>17. DebtsFollow'
    BY <1>2, <1>4, <2>7, <2>9, <2>10 DEF GoodsInv, DebtsFollow, Debts
  <2>18. IsFiniteSet(entries')
    BY <2>4, FS_AddElement DEF GoodsInv
  <2>19. \A y \in storeLots' : y.transfer \in Arrived' /\ y.quantity \in Nat
    BY <1>2, <2>4, <2>7, <2>9 DEF GoodsInv
  <2>20. \A u \in DOMAIN transfers' : TransferShape(transfers'[u])
    BY <2>6, <2>8 DEF GoodsInv
  <2>21. ASSUME NEW q \in Goods!Requests PROVE GoodsWait(q)'
    <3>1. CASE q = r
      BY <1>2, <3>1
    <3>2. CASE q # r
      <4>1. request'[q] = request[q] /\ GoodsWait(q)
        BY <1>2, <3>2 DEF GoodsInv, Goods!Then
      <4> QED
        BY <2>6, <2>8, <4>1 DEF GoodsWait
    <3> QED
      BY <3>1, <3>2
  <2>22. DOMAIN request' = Goods!Requests
    BY <1>2 DEF GoodsInv, Goods!Then
  <2> QED
    BY <2>8, <2>14, <2>15, <2>16, <2>17, <2>18, <2>19, <2>20, <2>21, <2>22 DEF GoodsInv
<1> QED
  BY <1>3, <1>4

-----------------------------------------------------------------------------
LEMMA GoodsStep == GoodsInv /\ [Goods!Next]_(Goods!vars) => GoodsInv'
<1> SUFFICES ASSUME GoodsInv, [Goods!Next]_(Goods!vars) PROVE GoodsInv'
  OBVIOUS
<1>1. CASE UNCHANGED Goods!vars
  BY <1>1 DEF Goods!vars, GoodsInv, DebtsFollow, GoodsBalance, Arrived, Debts, Goods!Existing, GoodsWait
<1>2. CASE Goods!Next
  BY <1>2, GoodsRequested, GoodsRead, GoodsGuarded, GoodsPacked, GoodsShipped, GoodsPaid, GoodsReceived
     DEF Goods!Next
<1> QED
  BY <1>1, <1>2

LEMMA GoodsHolds == Goods!Spec => []GoodsInv
BY InitGoods, GoodsStep, PTL DEF Goods!Spec

LEMMA GoodsCounts == \A S : Goods!Cardinality(S) = Cardinality(S)
BY DEF Goods!Cardinality, Cardinality

\* However often a transfer is received at the same time, the store gets its goods once and owes for
\* them once: stock, lots and debt are those of the transfers that came, whatever payments,
\* rejections and late packings interleave.
THEOREM ReceivedOnceHolds == Goods!Spec => []Goods!ReceivedOnce
<1>1. GoodsInv => Goods!ReceivedOnce
  <2> SUFFICES ASSUME GoodsInv PROVE Goods!ReceivedOnce
    OBVIOUS
  <2>1. Units(transfers, Arrived) \in Nat
    BY ArrivedAre, SameReceived
  <2>2. ASSUME NEW t \in Transfers["goods"]
        PROVE  Goods!Cardinality({e \in Debts : e.transfer = t}) = IF t \in Arrived THEN 1 ELSE 0
    <3>1. CASE t \in Arrived
      <4>1. PICK e \in Debts : e.transfer = t
        BY <3>1 DEF GoodsInv, DebtsFollow
      <4>2. {d \in Debts : d.transfer = t} = {e}
        BY <4>1 DEF GoodsInv, DebtsFollow
      <4> QED
        BY <3>1, <4>2, GoodsCounts, FS_Singleton
    <3>2. CASE t \notin Arrived
      <4>1. {d \in Debts : d.transfer = t} = {}
        BY <3>2 DEF GoodsInv, DebtsFollow
      <4> QED
        BY <3>2, <4>1, GoodsCounts, FS_EmptySet
    <3> QED
      BY <3>1, <3>2
  <2>3. Goods!Amount(Debts) = Units(transfers, Arrived) * Goods!Price
    BY <2>1 DEF GoodsInv, GoodsBalance, Goods!Price
  <2> QED
    BY <2>2, <2>3 DEF GoodsInv, GoodsBalance, Goods!ReceivedOnce, Units, Stored, Arrived, Debts
<1> QED
  BY <1>1, GoodsHolds, PTL

-----------------------------------------------------------------------------
(***************************************************************************)
(* Accounts.  The counter that paces requests, for every window and limit. *)
(***************************************************************************)

Times == Login!Times
Let(S) == Login!MapThenSumSet(LAMBDA s : admitted[s], S)
From(e) == {s \in Times : e <= s}
Span(t) == {s \in Times : t <= s /\ s < t + Window["login"]}
UpTo(n) == IF n <= Limit["login"] THEN n ELSE Limit["login"]

\* Since a window was opened no more were let through than it counted; one window further back the
\* one before it adds its own at most; and nothing is let through beyond its end.
Opened(v, e, n) ==
  /\ \A s \in From(e) : v[s] = 0
  /\ Total(v, From(e - Window["login"])) <= UpTo(n)
  /\ Total(v, From(e - 2 * Window["login"])) <= UpTo(n) + Limit["login"]

Spaced(v) == \A a \in Times : Total(v, Span(a)) <= 2 * Limit["login"]

\* The row counts a window, or was swept after one.
WindowOf(b, v, t) ==
  IF b = None THEN \E e \in Int : e < t /\ Opened(v, e, Limit["login"])
  ELSE \E n \in Nat \ {0} : \E e \in Int :
         b = [requests |-> n, ends |-> e] /\ e <= t + Window["login"] /\ Opened(v, e, n)

\* What is counted was read in this tick or the last.
CountedSoon(r, t) ==
  /\ DOMAIN r = Login!Requests
  /\ \A c \in Login!Requests :
       r[c].at = "count" => r[c].now \in Times /\ r[c].now <= t /\ t <= r[c].now + 1

PaceInv ==
  /\ now \in Times /\ admitted \in [Times -> Nat] /\ Spaced(admitted)
  /\ CountedSoon(request, now) /\ WindowOf(bucket, admitted, now)

\* One more is let through at t, or none.
LetIn(v, w, t, more) == w[t] = v[t] + more /\ \A s \in Times : s # t => w[s] = v[s]

-----------------------------------------------------------------------------
\* Sums over parts of the times.
LEMMA TimesCounted ==
  ASSUME PaceIsSet, NEW v \in [Times -> Nat], NEW S \in SUBSET Times
  PROVE  Counted(v, S) /\ Total(v, S) \in Nat
<1>1. IsFiniteSet(Times)
  BY FS_Interval DEF PaceIsSet, Times, Login!Times
<1>2. Counted(v, S)
  BY <1>1, FS_Subset DEF Counted
<1> QED
  BY <1>2, TotalType

\* A part of a sum is no more than the sum.
LEMMA PartOfTotal ==
  ASSUME NEW v, NEW S, Counted(v, S), NEW T \in SUBSET S
  PROVE  Total(v, T) <= Total(v, S) /\ Total(v, T) \in Nat /\ Total(v, S) \in Nat
<1> DEFINE p == [x \in S |-> IF x \in T THEN v[x] ELSE 0]
           q == [x \in S |-> IF x \in T THEN 0 ELSE v[x]]
<1>1. Counted(p, S) /\ Counted(q, S) /\ \A x \in S : v[x] = p[x] + q[x]
  BY DEF Counted
<1>2. IsFiniteSet(T)
  BY FS_Subset DEF Counted
<1>3. Counted(v, T) /\ (\A x \in T : p[x] = v[x]) /\ \A x \in S \ T : p[x] = 0
  BY <1>2 DEF Counted
<1> HIDE DEF p, q
<1>4. Total(v, S) = Total(p, S) + Total(q, S)
  BY <1>1, TotalAdds
<1>5. Total(p, S) = Total(p, T)
  BY <1>1, <1>3, TotalOfMost
<1>6. Total(p, T) = Total(v, T)
  <2>1. \A x \in T : v[x] = p[x]
    BY <1>3
  <2> QED
    BY <1>3, <2>1, TotalSame
<1>7. Total(p, S) \in Nat /\ Total(q, S) \in Nat
  BY <1>1, TotalType
<1> QED
  BY <1>4, <1>5, <1>6, <1>7

\* One more at t is one more in the sums that t is in, and in no other.
LEMMA OneMorePassed ==
  ASSUME PaceIsSet, NEW v \in [Times -> Nat], NEW w \in [Times -> Nat], NEW t \in Times,
         w[t] = v[t] + 1, \A s \in Times : s # t => w[s] = v[s], NEW S \in SUBSET Times
  PROVE  Total(w, S) = IF t \in S THEN Total(v, S) + 1 ELSE Total(v, S)
<1>1. Counted(w, S) /\ Counted(v, S) /\ Total(v, S) \in Nat /\ Total(w, S) \in Nat
  BY TimesCounted
<1>2. CASE t \notin S
  <2>1. \A s \in S : v[s] = w[s]
    BY <1>2
  <2> QED
    BY <1>1, <1>2, <2>1, TotalSame
<1>3. CASE t \in S
  <2>1. PICK R : R = S \ {t}
    OBVIOUS
  <2>2. Counted(v, R) /\ Total(v, R) \in Nat /\ \A s \in R : v[s] = w[s]
    BY <2>1, TimesCounted
  <2>3. Total(v, R) = Total(w, R)
    BY <2>2, TotalSame
  <2>4. Total(v, S) = v[t] + Total(v, R) /\ Total(w, S) = w[t] + Total(w, R)
    BY <1>1, <1>3, <2>1, TotalWithout
  <2> QED
    BY <1>3, <2>2, <2>3, <2>4
<1> QED
  BY <1>2, <1>3

\* Nothing passes where nothing passed.
LEMMA NonePassed ==
  ASSUME PaceIsSet, NEW v \in [Times -> Nat], NEW S \in SUBSET Times, \A s \in S : v[s] = 0
  PROVE  Total(v, S) = 0
<1>1. Counted(v, S) /\ {} \in SUBSET S
  BY TimesCounted
<1>2. Total(v, S) = Total(v, {})
  BY <1>1, TotalOfMost
<1> QED
  BY <1>2, TotalOfNone

LEMMA LetIsPassed ==
  ASSUME NEW S, Counted(admitted, S)
  PROVE  Let(S) = Total(admitted, S)
<1> DEFINE up(f, s) == IF s = {} THEN 0 ELSE admitted[Pick(s)] + f[s \ {Pick(s)}]
<1>1. PICK g : g = CHOOSE f : f = [s \in SUBSET S |-> up(f, s)]
  OBVIOUS
<1>2. Let(S) = g[S]
  BY <1>1 DEF Let, Login!MapThenSumSet, Login!MapThenFoldSet, Pick
<1>3. PICK f \in [SUBSET S -> Nat] : Solves(f, admitted, S)
  BY TotalsExist
<1>4. f = [s \in SUBSET S |-> up(f, s)]
  BY <1>3 DEF Solves, AddUp
<1>5. g = [s \in SUBSET S |-> up(g, s)]
  BY <1>1, <1>4
<1>6. Solves(g, admitted, S)
  BY <1>5 DEF Solves, AddUp
<1> QED
  BY <1>2, <1>6, TotalIs

\* At most one more in the sums that t is in, and the same in the others.
LEMMA Passes ==
  ASSUME PaceIsSet, NEW v \in [Times -> Nat], NEW w \in [Times -> Nat], NEW t \in Times,
         NEW more \in {0, 1}, LetIn(v, w, t, more), NEW S \in SUBSET Times
  PROVE  /\ Total(v, S) \in Nat /\ Total(w, S) \in Nat /\ Total(w, S) <= Total(v, S) + more
         /\ t \notin S => Total(w, S) = Total(v, S)
<1>1. Total(v, S) \in Nat /\ Total(w, S) \in Nat
  BY TimesCounted
<1>2. CASE more = 1
  <2>1. w[t] = v[t] + 1 /\ \A s \in Times : s # t => w[s] = v[s]
    BY <1>2 DEF LetIn
  <2>2. Total(w, S) = IF t \in S THEN Total(v, S) + 1 ELSE Total(v, S)
    BY <2>1, OneMorePassed
  <2> QED
    BY <1>1, <1>2, <2>2
<1>3. CASE more = 0
  <2>1. \A s \in S : v[s] = w[s]
    BY <1>3 DEF LetIn
  <2>2. Counted(v, S)
    BY TimesCounted
  <2>3. Total(v, S) = Total(w, S)
    BY <2>1, <2>2, TotalSame
  <2> QED
    BY <1>1, <1>3, <2>3
<1> QED
  BY <1>2, <1>3

\* A later window finds that the earlier one let no more through than the limit since.
LEMMA NextWindow ==
  ASSUME PaceIsSet, NEW v \in [Times -> Nat], NEW e \in Int, NEW n \in Nat, Opened(v, e, n),
         NEW t \in Int, e <= t
  PROVE  /\ \A s \in From(t) : v[s] = 0
         /\ Total(v, From(t)) = 0
         /\ Total(v, From(t - Window["login"])) \in Nat /\ Total(v, From(t - Window["login"])) <= Limit["login"]
<1>1. Window["login"] \in Int /\ t - Window["login"] \in Int /\ e - Window["login"] \in Int /\ Limit["login"] \in Nat /\ Times \subseteq Int
  BY DEF PaceIsSet, Times, Login!Times
<1>2. From(t) \subseteq From(e) /\ From(t - Window["login"]) \subseteq From(e - Window["login"])
  <2>1. ASSUME NEW s \in Times PROVE (t <= s => e <= s) /\ (t - Window["login"] <= s => e - Window["login"] <= s)
    BY <1>1
  <2> QED
    BY <2>1 DEF From
<1>3. \A s \in From(t) : v[s] = 0
  BY <1>2 DEF Opened
<1>4. From(t) \in SUBSET Times /\ From(e - Window["login"]) \in SUBSET Times
  BY DEF From
<1>5. Total(v, From(t)) = 0
  BY <1>3, <1>4, NonePassed
<1>6. /\ Total(v, From(t - Window["login"])) <= Total(v, From(e - Window["login"]))
      /\ Total(v, From(t - Window["login"])) \in Nat /\ Total(v, From(e - Window["login"])) \in Nat
  <2>1. Counted(v, From(e - Window["login"]))
    BY <1>4, TimesCounted
  <2> QED
    BY <1>2, <2>1, PartOfTotal
<1>7. Total(v, From(e - Window["login"])) <= Limit["login"]
  <2>1. UpTo(n) \in Nat /\ UpTo(n) <= Limit["login"]
    BY <1>1 DEF UpTo
  <2>2. Total(v, From(e - Window["login"])) <= UpTo(n)
    BY DEF Opened
  <2> QED
    BY <1>1, <1>6, <2>1, <2>2
<1> QED
  <2>1. Total(v, From(t - Window["login"])) <= Limit["login"]
    BY <1>1, <1>6, <1>7
  <2> QED
    BY <1>3, <1>5, <1>6, <2>1

\* A span that holds a time of the window, or of the tick before it, reaches no further back than
\* the window before.
LEMMA SpanWithin ==
  ASSUME PaceIsSet, NEW v \in [Times -> Nat], NEW a \in Times, NEW t \in Span(a),
         NEW f \in Int, f <= t - Window["login"] + 1
  PROVE  Total(v, Span(a)) <= Total(v, From(f))
<1>1. Window["login"] \in Int /\ Times \subseteq Int
  BY DEF PaceIsSet, Times, Login!Times
<1>2. Span(a) \subseteq From(f) /\ From(f) \in SUBSET Times
  <2>1. t \in Int /\ t < a + Window["login"]
    BY <1>1 DEF Span
  <2>2. f <= a
    BY <1>1, <2>1
  <2>3. \A s \in Times : a <= s => f <= s
    BY <1>1, <2>2
  <2> QED
    BY <2>3 DEF Span, From
<1>3. Counted(v, From(f))
  BY <1>2, TimesCounted
<1> QED
  BY <1>2, <1>3, PartOfTotal

\* The spans that a request at t may fill are within two windows, and the others stay as they are.
LEMMA StaysSpaced ==
  ASSUME PaceIsSet, NEW v \in [Times -> Nat], NEW w \in [Times -> Nat], NEW t \in Times,
         NEW more \in {0, 1}, LetIn(v, w, t, more), Spaced(v), NEW f \in Int, f <= t - Window["login"] + 1,
         Total(w, From(f)) <= 2 * Limit["login"]
  PROVE  Spaced(w)
<1> SUFFICES ASSUME NEW a \in Times PROVE Total(w, Span(a)) <= 2 * Limit["login"]
  BY DEF Spaced
<1>1. Span(a) \in SUBSET Times /\ From(f) \in SUBSET Times
  BY DEF Span, From
<1>2. Total(w, Span(a)) \in Nat /\ Total(w, From(f)) \in Nat /\ 2 * Limit["login"] \in Nat
  BY <1>1, TimesCounted DEF PaceIsSet
<1>3. CASE t \in Span(a)
  <2>1. Total(w, Span(a)) <= Total(w, From(f))
    BY <1>3, SpanWithin
  <2> QED
    BY <1>2, <2>1
<1>4. CASE t \notin Span(a)
  <2>1. Total(w, Span(a)) = Total(v, Span(a))
    BY <1>1, <1>4, Passes
  <2>2. Total(v, Span(a)) <= 2 * Limit["login"]
    BY DEF Spaced
  <2> QED
    BY <2>1, <2>2
<1> QED
  BY <1>3, <1>4

\* The counted request opens a window of its own.
LEMMA OpensWindow ==
  ASSUME PaceIsSet, NEW v \in [Times -> Nat], NEW w \in [Times -> Nat], NEW t \in Times,
         LetIn(v, w, t, 1), Spaced(v), NEW e \in Int, NEW n \in Nat, Opened(v, e, n), e <= t
  PROVE  Opened(w, t + Window["login"], 1) /\ Spaced(w)
<1>1. Window["login"] \in Nat \ {0} /\ Limit["login"] \in Nat \ {0} /\ Times \subseteq Int /\ t \in Int
  BY DEF PaceIsSet, Times, Login!Times
<1>2. /\ \A s \in From(t) : v[s] = 0
      /\ Total(v, From(t)) = 0
      /\ Total(v, From(t - Window["login"])) \in Nat /\ Total(v, From(t - Window["login"])) <= Limit["login"]
  BY <1>1, NextWindow
<1>3. From(t) \in SUBSET Times /\ From(t - Window["login"]) \in SUBSET Times
  BY DEF From
<1>4. Total(w, From(t)) \in Nat /\ Total(w, From(t)) <= Total(v, From(t)) + 1
  BY <1>3, Passes
<1>5. /\ Total(w, From(t - Window["login"])) \in Nat
      /\ Total(w, From(t - Window["login"])) <= Total(v, From(t - Window["login"])) + 1
  BY <1>3, Passes
<1>6. Total(w, From(t)) <= 1 /\ Total(w, From(t - Window["login"])) <= 1 + Limit["login"]
  BY <1>1, <1>2, <1>4, <1>5
<1>7. ASSUME NEW s \in From(t + Window["login"]) PROVE w[s] = 0
  <2>1. s \in Times /\ s \in From(t) /\ s # t
    BY <1>1 DEF From
  <2>2. w[s] = v[s] /\ v[s] = 0
    BY <1>2, <2>1 DEF LetIn
  <2> QED
    BY <2>2
<1>8. UpTo(1) = 1 /\ (t + Window["login"]) - Window["login"] = t /\ (t + Window["login"]) - 2 * Window["login"] = t - Window["login"]
  BY <1>1 DEF UpTo
<1>9. Opened(w, t + Window["login"], 1)
  BY <1>6, <1>7, <1>8 DEF Opened
<1>10. Spaced(w)
  <2>1. t - Window["login"] \in Int /\ t - Window["login"] <= t - Window["login"] + 1 /\ 1 + Limit["login"] <= 2 * Limit["login"]
    BY <1>1
  <2>2. Total(w, From(t - Window["login"])) <= 2 * Limit["login"]
    BY <1>1, <1>5, <1>6, <2>1
  <2> QED
    BY <2>1, <2>2, StaysSpaced
<1> QED
  BY <1>9, <1>10

\* The counted request falls in a window that is open, perhaps from the tick before it was opened.
LEMMA CountsOn ==
  ASSUME PaceIsSet, NEW v \in [Times -> Nat], NEW w \in [Times -> Nat], NEW t \in Times,
         NEW n \in Nat \ {0}, NEW e \in Int, Opened(v, e, n), t < e, e <= t + 1 + Window["login"], Spaced(v),
         LetIn(v, w, t, IF n + 1 <= Limit["login"] THEN 1 ELSE 0)
  PROVE  Opened(w, e, n + 1) /\ Spaced(w)
<1>1. Window["login"] \in Nat \ {0} /\ Limit["login"] \in Nat \ {0} /\ Times \subseteq Int /\ t \in Int
  BY DEF PaceIsSet, Times, Login!Times
<1>2. PICK more : more = IF n + 1 <= Limit["login"] THEN 1 ELSE 0
  OBVIOUS
<1>3. more \in {0, 1} /\ LetIn(v, w, t, more)
  BY <1>2
<1>4. UpTo(n) \in Nat /\ UpTo(n) + more <= UpTo(n + 1) /\ UpTo(n + 1) \in Nat /\ UpTo(n + 1) <= Limit["login"]
  BY <1>1, <1>2 DEF UpTo
<1>5. From(e - Window["login"]) \in SUBSET Times /\ From(e - 2 * Window["login"]) \in SUBSET Times
  BY DEF From
<1>6. /\ Total(v, From(e - Window["login"])) \in Nat /\ Total(w, From(e - Window["login"])) \in Nat
      /\ Total(w, From(e - Window["login"])) <= Total(v, From(e - Window["login"])) + more
  BY <1>3, <1>5, Passes
<1>7. /\ Total(v, From(e - 2 * Window["login"])) \in Nat /\ Total(w, From(e - 2 * Window["login"])) \in Nat
      /\ Total(w, From(e - 2 * Window["login"])) <= Total(v, From(e - 2 * Window["login"])) + more
  BY <1>3, <1>5, Passes
<1>8. /\ Total(v, From(e - Window["login"])) <= UpTo(n)
      /\ Total(v, From(e - 2 * Window["login"])) <= UpTo(n) + Limit["login"]
  BY DEF Opened
<1>9. /\ Total(w, From(e - Window["login"])) <= UpTo(n + 1)
      /\ Total(w, From(e - 2 * Window["login"])) <= UpTo(n + 1) + Limit["login"]
  BY <1>1, <1>3, <1>4, <1>6, <1>7, <1>8
<1>10. ASSUME NEW s \in From(e) PROVE w[s] = 0
  <2>1. s \in Times /\ s # t
    BY <1>1 DEF From
  <2>2. w[s] = v[s] /\ v[s] = 0
    BY <2>1 DEF LetIn, Opened
  <2> QED
    BY <2>2
<1>11. Opened(w, e, n + 1)
  BY <1>9, <1>10 DEF Opened
<1>12. Spaced(w)
  <2>1. e - 2 * Window["login"] \in Int /\ e - 2 * Window["login"] <= t - Window["login"] + 1
    BY <1>1
  <2>2. Total(w, From(e - 2 * Window["login"])) <= 2 * Limit["login"]
    BY <1>1, <1>4, <1>7, <1>9
  <2> QED
    BY <1>3, <2>1, <2>2, StaysSpaced
<1> QED
  BY <1>11, <1>12

-----------------------------------------------------------------------------
LEMMA InitPace ==
  ASSUME PaceIsSet, Login!Init
  PROVE  PaceInv
<1>1. /\ now = 0 /\ now \in Times /\ admitted \in [Times -> Nat] /\ bucket = None
      /\ \A s \in Times : admitted[s] = 0
  BY DEF Login!Init, PaceIsSet, Times, Login!Times
<1>2. CountedSoon(request, now)
  BY DEF Login!Init, Login!Idle, CountedSoon
<1>3. ASSUME NEW S \in SUBSET Times PROVE Total(admitted, S) = 0
  BY <1>1, NonePassed
<1>4. Limit["login"] \in Nat /\ UpTo(Limit["login"]) = Limit["login"] /\ -1 \in Int /\ -1 < 0
  BY DEF PaceIsSet, UpTo
<1>5. Opened(admitted, -1, Limit["login"])
  <2>1. From(-1) \in SUBSET Times /\ From(-1 - Window["login"]) \in SUBSET Times
        /\ From(-1 - 2 * Window["login"]) \in SUBSET Times
    BY DEF From
  <2>2. Total(admitted, From(-1 - Window["login"])) = 0 /\ Total(admitted, From(-1 - 2 * Window["login"])) = 0
    BY <1>3, <2>1
  <2>3. \A s \in From(-1) : admitted[s] = 0
    BY <1>1, <2>1
  <2>4. 0 <= UpTo(Limit["login"]) /\ 0 <= UpTo(Limit["login"]) + Limit["login"]
    BY <1>4
  <2>5. /\ Total(admitted, From(-1 - Window["login"])) <= UpTo(Limit["login"])
        /\ Total(admitted, From(-1 - 2 * Window["login"])) <= UpTo(Limit["login"]) + Limit["login"]
    BY <2>2, <2>4
  <2> QED
    BY <2>3, <2>5 DEF Opened
<1>6. Spaced(admitted)
  <2>1. ASSUME NEW a \in Times PROVE Total(admitted, Span(a)) = 0
    BY <1>3 DEF Span
  <2> QED
    BY <1>4, <2>1 DEF Spaced
<1>7. WindowOf(bucket, admitted, now)
  BY <1>1, <1>4, <1>5 DEF WindowOf
<1> QED
  BY <1>1, <1>2, <1>6, <1>7 DEF PaceInv

\* What a request does next leaves the other counts as they are.
LEMMA CountsSoonStill ==
  ASSUME NEW r, NEW q, NEW t \in Int, CountedSoon(r, t), t \in Times, NEW c \in Login!Requests,
         NEW what, q = [r EXCEPT ![c] = what], what.at = "count" => what.now = t
  PROVE  CountedSoon(q, t)
<1>1. /\ DOMAIN q = Login!Requests /\ q[c] = what
      /\ \A d \in Login!Requests : d # c => q[d] = r[d]
  BY DEF CountedSoon
<1>2. ASSUME NEW d \in Login!Requests, q[d].at = "count"
      PROVE  q[d].now \in Times /\ q[d].now <= t /\ t <= q[d].now + 1
  <2>1. CASE d = c
    BY <1>1, <1>2, <2>1
  <2>2. CASE d # c
    BY <1>1, <1>2, <2>2 DEF CountedSoon
  <2> QED
    BY <2>1, <2>2
<1> QED
  BY <1>1, <1>2 DEF CountedSoon

\* The steps that leave the counter alone: sign-in, accounts, sessions, and the reading of the time.
LEMMA PaceRests ==
  ASSUME PaceInv, UNCHANGED <<bucket, admitted, now>>, NEW c \in Login!Requests, NEW what,
         Login!Then(c, what), what.at = "count" => what.now = now
  PROVE  PaceInv'
<1>1. now \in Int /\ now \in Times /\ CountedSoon(request, now)
  BY DEF PaceInv, Times, Login!Times
<1>2. request' = [request EXCEPT ![c] = what]
  BY DEF Login!Then
<1>3. CountedSoon(request', now)
  BY <1>1, <1>2, CountsSoonStill
<1> QED
  BY <1>3 DEF PaceInv, Times, Login!Times

LEMMA PaceElsewhere ==
  ASSUME PaceInv, NEW c \in Login!Requests,
         \/ Login!CreateRead(c) \/ Login!Create(c) \/ Login!Login(c) \/ Login!IssueRead(c)
         \/ Login!Open(c) \/ Login!ChangeRead(c) \/ Login!ResetRead(c) \/ Login!SetSecret(c)
         \/ Login!SetMust(c) \/ Login!Suspend(c) \/ Login!Revoke(c) \/ Login!Logout(c)
         \/ Login!Arrive(c)
  PROVE  PaceInv'
<1>1. UNCHANGED <<bucket, admitted, now>>
  BY DEF Login!CreateRead, Login!Create, Login!Login, Login!IssueRead, Login!Open,
     Login!ChangeRead, Login!ResetRead, Login!SetSecret, Login!SetMust, Login!Suspend,
     Login!Revoke, Login!Logout, Login!Arrive
<1>2. \E what : Login!Then(c, what) /\ (what.at = "count" => what.now = now)
  <2>1. CASE Login!CreateRead(c)
    <3>1. PICK p : Login!Then(c, [at |-> "create", phone |-> p])
      BY <2>1 DEF Login!CreateRead, Login!Begin
    <3>2. [at |-> "create", phone |-> p].at # "count"
      OBVIOUS
    <3> QED
      BY <3>1, <3>2
  <2>2. CASE Login!Login(c)
    <3>1. PICK u : Login!Then(c, [at |-> "issue", user |-> u, keep |-> None])
      BY <2>2 DEF Login!Login, Login!Begin
    <3>2. [at |-> "issue", user |-> u, keep |-> None].at # "count"
      OBVIOUS
    <3> QED
      BY <3>1, <3>2
  <2>3. CASE \/ Login!Create(c) \/ Login!Open(c) \/ Login!Revoke(c) \/ Login!Logout(c)
    <3>1. Login!Then(c, Login!Done) /\ Login!Done.at # "count"
      BY <2>3 DEF Login!Create, Login!Open, Login!Revoke, Login!Logout, Login!Begin, Login!Done
    <3> QED
      BY <3>1
  <2>4. CASE Login!IssueRead(c) \/ Login!SetMust(c)
    <3> DEFINE w == request[c]
    <3>1. w.at \in {"issue", "must"}
      BY <2>4 DEF Login!IssueRead, Login!SetMust
    <3>2. PICK at \in {"open", "revoke"} :
            Login!Then(c, [w EXCEPT !.at = at]) \/ Login!Then(c, Login!Done)
      BY <2>4 DEF Login!IssueRead, Login!SetMust
    <3>3. Login!Done.at # "count"
      BY DEF Login!Done
    <3>4. [w EXCEPT !.at = at].at # "count"
      BY <3>1
    <3> QED
      BY <3>2, <3>3, <3>4
  <2>5. CASE Login!ChangeRead(c) \/ Login!ResetRead(c)
    <3>1. PICK u, k, b : Login!Then(c, [at |-> "secret", user |-> u, keep |-> k, reset |-> b])
      BY <2>5 DEF Login!ChangeRead, Login!ResetRead, Login!Begin
    <3>2. [at |-> "secret", user |-> u, keep |-> k, reset |-> b].at # "count"
      OBVIOUS
    <3> QED
      BY <3>1, <3>2
  <2>6. CASE Login!SetSecret(c) \/ Login!Suspend(c)
    <3>1. \/ Login!Then(c, Login!Done)
          \/ \E at \in {"must", "revoke"} : \E u, k :
               Login!Then(c, [at |-> at, user |-> u, keep |-> k])
      <4>1. CASE Login!SetSecret(c)
        BY <4>1 DEF Login!SetSecret
      <4>2. CASE Login!Suspend(c)
        BY <4>2 DEF Login!Suspend, Login!Begin
      <4> QED
        BY <2>6, <4>1, <4>2
    <3>2. Login!Done.at # "count"
      BY DEF Login!Done
    <3>3. \A at \in {"must", "revoke"} : \A u, k : [at |-> at, user |-> u, keep |-> k].at # "count"
      OBVIOUS
    <3> QED
      BY <3>1, <3>2, <3>3
  <2>7. CASE Login!Arrive(c)
    <3>1. Login!Then(c, [at |-> "count", now |-> now])
      BY <2>7 DEF Login!Arrive, Login!Begin
    <3>2. [at |-> "count", now |-> now].now = now
      OBVIOUS
    <3> QED
      BY <3>1, <3>2
  <2> QED
    BY <2>1, <2>2, <2>3, <2>4, <2>5, <2>6, <2>7
<1>3. PICK what : Login!Then(c, what) /\ (what.at = "count" => what.now = now)
  BY <1>2
<1> QED
  BY <1>1, <1>3, PaceRests

\* The sweep takes a window that is over, so that whoever comes next opens one later.
LEMMA Swept ==
  ASSUME PaceIsSet, PaceInv, Login!Sweep
  PROVE  PaceInv'
<1>1. bucket # None /\ bucket.ends < now /\ bucket' = None /\ UNCHANGED <<admitted, now, request>>
  BY DEF Login!Sweep
<1>2. PICK n \in Nat \ {0} : \E e \in Int :
        bucket = [requests |-> n, ends |-> e] /\ Opened(admitted, e, n)
  BY <1>1 DEF PaceInv, WindowOf
<1>3. PICK e \in Int : bucket = [requests |-> n, ends |-> e] /\ Opened(admitted, e, n)
  BY <1>2
<1>4. e < now
  BY <1>1, <1>3
<1>5. Opened(admitted, e, Limit["login"])
  <2>1. From(e - Window["login"]) \in SUBSET Times /\ From(e - 2 * Window["login"]) \in SUBSET Times
    BY DEF From
  <2>2. Total(admitted, From(e - Window["login"])) \in Nat /\ Total(admitted, From(e - 2 * Window["login"])) \in Nat
    BY <2>1, TimesCounted DEF PaceInv
  <2>3. Limit["login"] \in Nat /\ UpTo(n) <= Limit["login"] /\ UpTo(n) \in Nat /\ UpTo(Limit["login"]) = Limit["login"]
    BY DEF UpTo, PaceIsSet
  <2>4. /\ Total(admitted, From(e - Window["login"])) <= UpTo(n)
        /\ Total(admitted, From(e - 2 * Window["login"])) <= UpTo(n) + Limit["login"]
    BY <1>3 DEF Opened
  <2>5. /\ Total(admitted, From(e - Window["login"])) <= UpTo(Limit["login"])
        /\ Total(admitted, From(e - 2 * Window["login"])) <= UpTo(Limit["login"]) + Limit["login"]
    BY <2>2, <2>3, <2>4
  <2> QED
    BY <1>3, <2>5 DEF Opened
<1>6. WindowOf(None, admitted, now)
  BY <1>4, <1>5 DEF WindowOf
<1> QED
  BY <1>1, <1>6 DEF PaceInv, Times, Login!Times

LEMMA Ticked ==
  ASSUME PaceIsSet, PaceInv, Login!Tick
  PROVE  PaceInv'
<1>1. /\ now < MaxTime["login"] /\ now' = now + 1 /\ UNCHANGED <<bucket, admitted, request>>
      /\ \A c \in Login!Requests : request[c].at = "count" => request[c].now = now
  BY DEF Login!Tick
<1>2. now \in Nat /\ now + 1 \in Times /\ Window["login"] \in Nat
  BY <1>1 DEF PaceInv, Times, Login!Times, PaceIsSet
<1>3. CountedSoon(request, now + 1)
  BY <1>1, <1>2 DEF PaceInv, CountedSoon
<1>4. WindowOf(bucket, admitted, now + 1)
  <2>1. CASE bucket = None
    <3>1. PICK e \in Int : e < now /\ Opened(admitted, e, Limit["login"])
      BY <2>1 DEF PaceInv, WindowOf
    <3>2. e < now + 1
      BY <1>2, <3>1
    <3> QED
      BY <2>1, <3>1, <3>2 DEF WindowOf
  <2>2. CASE bucket # None
    <3>1. PICK n \in Nat \ {0} : \E e \in Int :
            bucket = [requests |-> n, ends |-> e] /\ e <= now + Window["login"] /\ Opened(admitted, e, n)
      BY <2>2 DEF PaceInv, WindowOf
    <3>2. PICK e \in Int :
            bucket = [requests |-> n, ends |-> e] /\ e <= now + Window["login"] /\ Opened(admitted, e, n)
      BY <3>1
    <3>3. e <= now + 1 + Window["login"]
      BY <1>2, <3>2
    <3> QED
      BY <2>2, <3>2, <3>3 DEF WindowOf
  <2> QED
    BY <2>1, <2>2
<1> QED
  BY <1>1, <1>2, <1>3, <1>4 DEF PaceInv, Times, Login!Times

\* Counting, in the window that is open or in one that it opens.
LEMMA PaceCounts ==
  ASSUME PaceIsSet, PaceInv, NEW c \in Login!Requests, Login!Consume(c)
  PROVE  PaceInv'
<1>1. PICK t : t = request[c].now
  OBVIOUS
<1>2. /\ request[c].at = "count" /\ bucket' = Login!Counted(t) /\ now' = now
      /\ admitted' = [admitted EXCEPT ![t] = IF bucket'.requests <= Limit["login"] THEN @ + 1 ELSE @]
      /\ request' = [request EXCEPT ![c] = Login!Done] /\ Login!Done.at # "count"
  BY <1>1 DEF Login!Consume, Login!Done, Login!Then
<1>3. /\ t \in Times /\ t <= now /\ now <= t + 1 /\ now \in Int /\ now \in Times /\ t \in Int
      /\ admitted \in [Times -> Nat] /\ Limit["login"] \in Nat \ {0} /\ Window["login"] \in Nat \ {0}
  BY <1>1, <1>2 DEF PaceInv, CountedSoon, PaceIsSet, Times, Login!Times
<1>4. CountedSoon(request', now)
  <2>1. CountedSoon(request, now)
    BY DEF PaceInv
  <2> QED
    BY <1>2, <1>3, <2>1, CountsSoonStill
<1>5. Spaced(admitted)
  BY DEF PaceInv
<1>6. PICK w : w = admitted'
  OBVIOUS
<1>7. w \in [Times -> Nat]
  <2>1. (IF bucket'.requests <= Limit["login"] THEN admitted[t] + 1 ELSE admitted[t]) \in Nat
    BY <1>3
  <2> QED
    BY <1>2, <1>3, <1>6, <2>1
<1>8. ASSUME NEW n \in Nat \ {0}, NEW e \in Int, bucket' = [requests |-> n, ends |-> e],
             e <= now + Window["login"], Opened(w, e, n), Spaced(w)
      PROVE  PaceInv'
  <2>1. WindowOf(bucket', w, now)
    <3>1. [requests |-> n, ends |-> e] \in [requests : Int, ends : Int]
      OBVIOUS
    <3>2. bucket' # None
      BY <1>8, <3>1 DEF PaceIsSet
    <3> QED
      BY <1>8, <3>2 DEF WindowOf
  <2> QED
    BY <1>2, <1>3, <1>4, <1>6, <1>7, <1>8, <2>1 DEF PaceInv, Times, Login!Times
<1>9. CASE bucket # None /\ ~(bucket.ends <= t)
  <2>1. PICK n \in Nat \ {0} : \E e \in Int :
          bucket = [requests |-> n, ends |-> e] /\ e <= now + Window["login"] /\ Opened(admitted, e, n)
    BY <1>9 DEF PaceInv, WindowOf
  <2>2. PICK e \in Int :
          bucket = [requests |-> n, ends |-> e] /\ e <= now + Window["login"] /\ Opened(admitted, e, n)
    BY <2>1
  <2>3. bucket.ends = e /\ bucket.requests = n
    BY <2>2
  <2>4. t < e /\ e <= t + 1 + Window["login"]
    BY <1>3, <1>9, <2>2, <2>3
  <2>5. bucket' = [bucket EXCEPT !.requests = @ + 1]
    BY <1>2, <1>9 DEF Login!Counted
  <2>6. bucket' = [requests |-> n + 1, ends |-> e] /\ n + 1 \in Nat \ {0}
    BY <2>2, <2>5
  <2>7. bucket'.requests = n + 1
    BY <2>6
  <2>8. LetIn(admitted, w, t, IF n + 1 <= Limit["login"] THEN 1 ELSE 0)
    <3>1. \A s \in Times : s # t => w[s] = admitted[s]
      BY <1>2, <1>3, <1>6
    <3>2. w[t] = IF n + 1 <= Limit["login"] THEN admitted[t] + 1 ELSE admitted[t]
      BY <1>2, <1>3, <1>6, <2>7
    <3>3. w[t] = admitted[t] + IF n + 1 <= Limit["login"] THEN 1 ELSE 0
      BY <1>3, <3>2
    <3> QED
      BY <3>1, <3>3 DEF LetIn
  <2>9. Opened(w, e, n + 1) /\ Spaced(w)
    BY <1>3, <1>5, <1>7, <2>2, <2>4, <2>8, CountsOn
  <2> QED
    BY <1>8, <2>2, <2>6, <2>9
<1>10. CASE ~(bucket # None /\ ~(bucket.ends <= t))
  <2>1. bucket' = [requests |-> 1, ends |-> t + Window["login"]]
    BY <1>2, <1>10 DEF Login!Counted
  <2>2. bucket'.requests = 1 /\ 1 <= Limit["login"]
    BY <1>3, <2>1
  <2>3. LetIn(admitted, w, t, 1)
    <3>1. admitted' = [admitted EXCEPT ![t] = @ + 1]
      BY <1>2, <2>2
    <3> QED
      BY <1>3, <1>6, <3>1 DEF LetIn
  <2>4. \E e \in Int, n \in Nat : Opened(admitted, e, n) /\ e <= t
    <3>1. CASE bucket = None
      <4>1. PICK e \in Int : e < now /\ Opened(admitted, e, Limit["login"])
        BY <3>1 DEF PaceInv, WindowOf
      <4>2. e <= t
        BY <1>3, <4>1
      <4> QED
        BY <1>3, <4>1, <4>2
    <3>2. CASE bucket # None
      <4>1. PICK n \in Nat \ {0} : \E e \in Int :
              bucket = [requests |-> n, ends |-> e] /\ Opened(admitted, e, n)
        BY <3>2 DEF PaceInv, WindowOf
      <4>2. PICK e \in Int : bucket = [requests |-> n, ends |-> e] /\ Opened(admitted, e, n)
        BY <4>1
      <4>3. e <= t
        BY <1>10, <3>2, <4>2
      <4> QED
        BY <4>2, <4>3
    <3> QED
      BY <3>1, <3>2
  <2>5. PICK e \in Int, n \in Nat : Opened(admitted, e, n) /\ e <= t
    BY <2>4
  <2>6. Opened(w, t + Window["login"], 1) /\ Spaced(w)
    BY <1>3, <1>5, <1>7, <2>3, <2>5, OpensWindow
  <2>7. t + Window["login"] \in Int /\ t + Window["login"] <= now + Window["login"]
    BY <1>3
  <2> QED
    BY <1>8, <2>1, <2>6, <2>7
<1> QED
  BY <1>9, <1>10

LEMMA PaceStep == PaceIsSet /\ PaceInv /\ [Login!Next]_(Login!vars) => PaceInv'
<1> SUFFICES ASSUME PaceIsSet, PaceInv, [Login!Next]_(Login!vars) PROVE PaceInv'
  OBVIOUS
<1>1. CASE UNCHANGED Login!vars
  BY <1>1 DEF Login!vars, PaceInv, Times, Login!Times
<1>2. CASE Login!Next
  BY <1>2, Swept, Ticked, PaceElsewhere, PaceCounts DEF Login!Next
<1> QED
  BY <1>1, <1>2

\* Any stretch of time as long as the window lets through at most two windows' worth of requests,
\* however the processes come to the counter and the sweep to it, provided that each is counted
\* within a tick of reading its time.
THEOREM RequestsArePacedHolds ==
  ASSUME PaceIsSet
  PROVE  Login!Spec => []Login!RequestsArePaced
<1>1. PaceInv => Login!RequestsArePaced
  <2> SUFFICES ASSUME PaceInv, NEW t \in Times PROVE Let(Span(t)) <= 2 * Limit["login"]
    BY DEF Login!RequestsArePaced, Let, Span, Times, Login!Times
  <2>1. Span(t) \in SUBSET Times
    BY DEF Span
  <2>2. Counted(admitted, Span(t))
    BY <2>1, TimesCounted DEF PaceInv
  <2>3. Let(Span(t)) = Total(admitted, Span(t))
    BY <2>2, LetIsPassed
  <2> QED
    BY <2>3 DEF PaceInv, Spaced
<1> QED
  BY <1>1, InitPace, PaceStep, PTL DEF Login!Spec

=============================================================================
