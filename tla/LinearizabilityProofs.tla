------------------------ MODULE LinearizabilityProofs ------------------------
(***************************************************************************)
(* Theorems about modules Linearizability and Ingestion, for every         *)
(* sequential model and every history of sequential clients: what the      *)
(* search prunes is dead, its verdict is exact, a history that travelled   *)
(* through files has the verdict of the one recorded, and a check ends, as *)
(* far as safety goes.                                                     *)
(***************************************************************************)
EXTENDS Ingestion, SequenceTheorems, FiniteSetTheorems,
        WellFoundedInduction, TLAPS

(* What the assumptions say of the histories considered.                   *)
Checkable(h) == Sequential(h) /\ DecodesOnce(h)

LEMMA HistoriesAreCheckable == \A h \in Histories : Checkable(h)
BY HistoriesAssumption, DecodeAssumption DEF Checkable

-----------------------------------------------------------------------------
(* Orders of operations.                                                   *)

(* A non-empty set of naturals has a least element: the form in which the  *)
(* proofs below use induction.                                             *)
LEMMA LeastExists ==
  ASSUME NEW S, S \subseteq Nat, S # {}
  PROVE  \E i \in S : \A j \in S : i <= j
<1> DEFINE Below == {0 .. i : i \in S}
<1>1. Below # {} /\ Below \subseteq FiniteSubsetsOf(Nat)
  <2>1. \A i \in Nat : IsFiniteSet(0 .. i) /\ 0 .. i \subseteq Nat
    BY FS_Interval
  <2>2. QED
    BY <2>1 DEF FiniteSubsetsOf
<1>2. PICK x \in Below : \A y \in Below : ~ (<<y, x>> \in StrictSubsetOrdering(Nat))
  BY <1>1, FS_StrictSubsetOrderingWellFounded, WFMin
<1>3. PICK i \in S : x = 0 .. i
  BY <1>2
<1>4. ASSUME NEW j \in S, j < i
      PROVE  FALSE
  <2>1. 0 .. j \subseteq 0 .. i /\ i \in 0 .. i /\ i \notin 0 .. j
    BY <1>4
  <2>2. <<0 .. j, 0 .. i>> \in StrictSubsetOrdering(Nat)
    BY <2>1 DEF StrictSubsetOrdering
  <2>3. QED
    BY <1>2, <1>3, <2>2
<1>5. \A j \in S : i <= j
  BY <1>4
<1>6. QED
  BY <1>5

(* The states the model goes through when it applies the ops in the order  *)
(* f, up to the n-th one.                                                  *)
Run(s, n, f, ops, state) ==
  /\ s = [k \in 0 .. n |-> s[k]]
  /\ s[0] = state
  /\ \A k \in 1 .. n : s[k] = Apply(s[k - 1], ops[f[k]].op).state

RunExists(n, f, ops, state) == \E s : Run(s, n, f, ops, state)

LEMMA RunBegins == ASSUME NEW f, NEW ops, NEW state PROVE RunExists(0, f, ops, state)
<1> DEFINE s == [k \in 0 .. 0 |-> state]
<1>1. Run(s, 0, f, ops, state)
  BY DEF Run
<1>2. QED
  BY <1>1 DEF RunExists

LEMMA RunContinues ==
  ASSUME NEW f, NEW ops, NEW state, NEW n \in Nat, RunExists(n, f, ops, state)
  PROVE  RunExists(n + 1, f, ops, state)
<1>1. PICK s : Run(s, n, f, ops, state)
  BY DEF RunExists
<1> DEFINE t == [k \in 0 .. (n + 1) |->
                   IF k = n + 1 THEN Apply(s[n], ops[f[n + 1]].op).state ELSE s[k]]
<1>2. \A k \in 0 .. n : t[k] = s[k]
  OBVIOUS
<1>3. ASSUME NEW k \in 1 .. (n + 1)
      PROVE  t[k] = Apply(t[k - 1], ops[f[k]].op).state
  <2>1. CASE k = n + 1
    <3>1. t[k - 1] = s[n] /\ t[k] = Apply(s[n], ops[f[n + 1]].op).state
      BY <2>1, <1>2
    <3>2. QED
      BY <3>1, <2>1
  <2>2. CASE k \in 1 .. n
    <3>1. t[k - 1] = s[k - 1] /\ t[k] = s[k]
      BY <2>2, <1>2
    <3>2. QED
      BY <3>1, <2>2, <1>1 DEF Run
  <2>3. QED
    BY <2>1, <2>2
<1>4. t[0] = state /\ t = [k \in 0 .. (n + 1) |-> t[k]]
  BY <1>1, <1>2 DEF Run
<1> HIDE DEF t
<1>5. Run(t, n + 1, f, ops, state)
  BY <1>3, <1>4 DEF Run
<1>6. QED
  BY <1>5 DEF RunExists

LEMMA EveryRunExists ==
  ASSUME NEW f, NEW ops, NEW state, NEW n \in Nat
  PROVE  RunExists(n, f, ops, state)
<1> DEFINE Missing == {k \in Nat : ~RunExists(k, f, ops, state)}
<1>1. SUFFICES ASSUME Missing # {} PROVE FALSE
  OBVIOUS
<1>2. PICK m \in Missing : \A k \in Missing : m <= k
  BY <1>1, LeastExists
<1>3. m # 0
  BY <1>2, RunBegins
<1>4. m - 1 \in Nat /\ m - 1 \notin Missing /\ m = (m - 1) + 1
  BY <1>2, <1>3
<1>5. RunExists(m - 1, f, ops, state)
  BY <1>4
<1>6. RunExists((m - 1) + 1, f, ops, state)
  BY <1>4, <1>5, RunContinues
<1>7. QED
  BY <1>2, <1>4, <1>6

LEMMA RunIsUnique ==
  ASSUME NEW f, NEW ops, NEW state, NEW n \in Nat, NEW s, NEW t,
         Run(s, n, f, ops, state), Run(t, n, f, ops, state)
  PROVE  s = t
<1> DEFINE Apart == {k \in 0 .. n : s[k] # t[k]}
<1>1. ASSUME Apart # {} PROVE FALSE
  <2>0. Apart \subseteq Nat
    OBVIOUS
  <2>1. PICK m \in Apart : \A k \in Apart : m <= k
    <3> HIDE DEF Apart
    <3>1. QED
      BY <1>1, <2>0, LeastExists
  <2>2. m # 0
    BY <2>1 DEF Run
  <2>3. m \in 1 .. n /\ m - 1 \in 0 .. n /\ s[m - 1] = t[m - 1]
    BY <2>1, <2>2
  <2>4. s[m] = t[m]
    BY <2>3 DEF Run
  <2>5. QED
    BY <2>1, <2>4
<1>2. \A k \in 0 .. n : s[k] = t[k]
  BY <1>1
<1>3. [k \in 0 .. n |-> s[k]] = [k \in 0 .. n |-> t[k]]
  BY <1>2
<1>4. QED
  BY <1>3 DEF Run

Responds(s, n, f, ops) ==
  \A k \in 1 .. n : Apply(s[k - 1], ops[f[k]].op).response = ops[f[k]].response

(* Legal, without the recursive function in it.                            *)
LEMMA LegalIsRun ==
  ASSUME NEW f, NEW ops, NEW state, Len(f) \in Nat
  PROVE  Legal(f, ops, state)
           <=> \E s : Run(s, Len(f), f, ops, state) /\ Responds(s, Len(f), f, ops)
<1> DEFINE n == Len(f)
           Body(s) == [k \in 0 .. n |->
                         IF k = 0 THEN state ELSE Apply(s[k - 1], ops[f[k]].op).state]
           c == CHOOSE s : s = Body(s)
<1>1. Legal(f, ops, state) <=> Responds(c, n, f, ops)
  BY DEF Legal, Responds
<1>2. PICK r : Run(r, n, f, ops, state)
  BY EveryRunExists DEF RunExists
<1>3. r = Body(r)
  BY <1>2 DEF Run
<1>4. c = Body(c)
  BY <1>3
<1> HIDE DEF c
<1>5. Run(c, n, f, ops, state)
  <2>1. 0 \in 0 .. n /\ \A k \in 1 .. n : k \in 0 .. n /\ k # 0
    OBVIOUS
  <2>2. c = [k \in 0 .. n |-> c[k]]
    BY <1>4
  <2>3. \A k \in 0 .. n :
          c[k] = IF k = 0 THEN state ELSE Apply(c[k - 1], ops[f[k]].op).state
    BY <1>4
  <2>4. c[0] = state /\ \A k \in 1 .. n : c[k] = Apply(c[k - 1], ops[f[k]].op).state
    BY <2>1, <2>3
  <2>5. QED
    BY <2>2, <2>4 DEF Run
<1>6. ASSUME NEW s, Run(s, n, f, ops, state) PROVE s = c
  BY <1>5, <1>6, RunIsUnique
<1>7. QED
  BY <1>1, <1>5, <1>6

-----------------------------------------------------------------------------
(* The order of a set of operations: one comes first, the others follow.   *)

Completable(ops, S, state) == CanBeOrdered(ops, S, state, FinishesFirst)

KeepsTime(f, n, ops) ==
  \A i, j \in 1 .. n : i < j => ~FinishesFirst(ops[f[j]], ops[f[i]])

Order(f, s, n, ops, S, state) ==
  /\ f \in [1 .. n -> S]
  /\ \A i, j \in 1 .. n : f[i] = f[j] => i = j
  /\ \A x \in S : \E i \in 1 .. n : f[i] = x
  /\ KeepsTime(f, n, ops)
  /\ Run(s, n, f, ops, state)
  /\ Responds(s, n, f, ops)

LEMMA CompletableIsOrder ==
  ASSUME NEW ops, NEW S, NEW state, IsFiniteSet(S)
  PROVE  Completable(ops, S, state)
           <=> \E f, s : Order(f, s, Cardinality(S), ops, S, state)
<1> DEFINE n == Cardinality(S)
<1>1. n \in Nat
  BY FS_CardinalityType
<1>2. ASSUME NEW f \in [1 .. n -> S]
      PROVE  DOMAIN f = 1 .. n /\ Len(f) = n
  BY <1>1
<1>3. ASSUME NEW f \in [1 .. n -> S]
      PROVE  Legal(f, ops, state) <=> \E s : Run(s, n, f, ops, state) /\ Responds(s, n, f, ops)
  BY <1>1, <1>2, LegalIsRun
<1>4. ASSUME NEW f
      PROVE  f \in Bijection(1 .. n, S)
               <=> /\ f \in [1 .. n -> S]
                   /\ \A i, j \in 1 .. n : f[i] = f[j] => i = j
                   /\ \A x \in S : \E i \in 1 .. n : f[i] = x
  BY DEF Bijection, Injection, Surjection, IsInjective
<1>5. ASSUME NEW f \in [1 .. n -> S]
      PROVE  KeepsTime(f, n, ops)
               <=> \A i, j \in DOMAIN f : i < j => ~FinishesFirst(ops[f[j]], ops[f[i]])
  BY <1>2 DEF KeepsTime
<1>6. Completable(ops, S, state)
        <=> \E f \in Bijection(1 .. n, S) :
              /\ \A i, j \in DOMAIN f : i < j => ~FinishesFirst(ops[f[j]], ops[f[i]])
              /\ Legal(f, ops, state)
  BY DEF Completable, CanBeOrdered
<1> HIDE DEF n
<1>7. ASSUME Completable(ops, S, state)
      PROVE  \E f, s : Order(f, s, n, ops, S, state)
  <2>1. PICK f \in Bijection(1 .. n, S) :
              /\ \A i, j \in DOMAIN f : i < j => ~FinishesFirst(ops[f[j]], ops[f[i]])
              /\ Legal(f, ops, state)
    BY <1>6, <1>7
  <2>2. f \in [1 .. n -> S]
    BY <1>4
  <2>3. KeepsTime(f, n, ops) /\ \E s : Run(s, n, f, ops, state) /\ Responds(s, n, f, ops)
    BY <2>1, <2>2, <1>3, <1>5
  <2>4. QED
    BY <2>2, <2>3, <1>4 DEF Order
<1>8. ASSUME NEW f, NEW s, Order(f, s, n, ops, S, state)
      PROVE  Completable(ops, S, state)
  <2>1. f \in [1 .. n -> S] /\ f \in Bijection(1 .. n, S)
    BY <1>8, <1>4 DEF Order
  <2>2. Legal(f, ops, state)
    BY <2>1, <1>8, <1>3 DEF Order
  <2>3. \A i, j \in DOMAIN f : i < j => ~FinishesFirst(ops[f[j]], ops[f[i]])
    BY <2>1, <1>8, <1>5 DEF Order
  <2>4. QED
    BY <2>1, <2>2, <2>3, <1>6
<1>9. QED
  BY <1>7, <1>8 DEF n

(* Nothing is in order.                                                    *)
LEMMA NothingCompletes ==
  ASSUME NEW ops, NEW state
  PROVE  Completable(ops, {}, state)
<1>1. IsFiniteSet({}) /\ Cardinality({}) = 0
  BY FS_EmptySet
<1>2. PICK s : Run(s, 0, <<>>, ops, state)
  BY EveryRunExists DEF RunExists
<1>3. Order(<<>>, s, 0, ops, {}, state)
  BY <1>2 DEF Order, KeepsTime, Responds
<1>4. QED
  BY <1>1, <1>3, CompletableIsOrder

WellTimed(ops, S) ==
  \A i \in S : ops[i].start \in Nat /\ ops[i].finish \in Nat /\ ops[i].start <= ops[i].finish

(* The test of the search before it recurses.                              *)
CanComeFirst(ops, S, i, state) ==
  /\ RealTime => \A j \in S : ops[i].start <= ops[j].finish
  /\ Apply(state, ops[i].op).response = ops[i].response

After(ops, i, state) == Apply(state, ops[i].op).state

LEMMA OneComesFirst ==
  ASSUME NEW ops, NEW S, NEW state, IsFiniteSet(S), S # {}, WellTimed(ops, S),
         Completable(ops, S, state)
  PROVE  \E i \in S : /\ CanComeFirst(ops, S, i, state)
                      /\ Completable(ops, S \ {i}, After(ops, i, state))
<1> DEFINE n == Cardinality(S)
<1>1. n \in Nat /\ n # 0
  BY FS_CardinalityType, FS_EmptySet
<1>2. PICK f, s : Order(f, s, n, ops, S, state)
  BY CompletableIsOrder
<1> DEFINE i == f[1]
           g == [k \in 1 .. (n - 1) |-> f[k + 1]]
           r == [k \in 0 .. (n - 1) |-> s[k + 1]]
<1>3. i \in S /\ 1 \in 1 .. n
  BY <1>1, <1>2 DEF Order
<1>4. IsFiniteSet(S \ {i}) /\ Cardinality(S \ {i}) = n - 1
  BY <1>3, FS_RemoveElement
<1> HIDE DEF n
<1>5. s[0] = state /\ s[1] = After(ops, i, state)
  <2>1. 1 - 1 = 0
    OBVIOUS
  <2>2. QED
    BY <1>2, <1>3, <2>1 DEF Order, Run, After
<1>6. CanComeFirst(ops, S, i, state)
  <2>1. Apply(state, ops[i].op).response = ops[i].response
    <3>1. 1 - 1 = 0
      OBVIOUS
    <3>2. QED
      BY <1>2, <1>3, <1>5, <3>1 DEF Order, Responds
  <2>2. ASSUME RealTime, NEW j \in S
        PROVE  ops[i].start <= ops[j].finish
    <3>1. PICK k \in 1 .. n : f[k] = j
      BY <1>2 DEF Order
    <3>2. CASE k = 1
      BY <3>1, <3>2 DEF WellTimed
    <3>3. CASE 1 < k
      <4>1. ~FinishesFirst(ops[f[k]], ops[f[1]])
        BY <1>2, <1>3, <3>3 DEF Order, KeepsTime
      <4>2. ~(ops[j].finish < ops[i].start)
        BY <4>1, <3>1, <2>2 DEF FinishesFirst
      <4>3. QED
        BY <4>2, <1>3 DEF WellTimed
    <3>4. QED
      BY <3>1, <3>2, <3>3
  <2>3. QED
    BY <2>1, <2>2 DEF CanComeFirst
<1>7. Order(g, r, n - 1, ops, S \ {i}, After(ops, i, state))
  <2>1. \A k \in 1 .. (n - 1) : k + 1 \in 1 .. n /\ k + 1 # 1 /\ g[k] = f[k + 1]
    BY <1>1
  <2>2. g \in [1 .. (n - 1) -> S \ {i}]
    <3>1. \A k \in 1 .. (n - 1) : f[k + 1] \in S \ {i}
      BY <2>1, <1>2, <1>3 DEF Order
    <3>2. QED
      BY <3>1
  <2>3. \A a, b \in 1 .. (n - 1) : g[a] = g[b] => a = b
    <3>1. \A a, b \in 1 .. (n - 1) : f[a + 1] = f[b + 1] => a + 1 = b + 1
      BY <2>1, <1>2 DEF Order
    <3>2. QED
      BY <3>1, <2>1
  <2>4. \A x \in S \ {i} : \E k \in 1 .. (n - 1) : g[k] = x
    <3>1. ASSUME NEW x \in S \ {i}
          PROVE  \E k \in 1 .. (n - 1) : g[k] = x
      <4>1. PICK m \in 1 .. n : f[m] = x
        BY <1>2 DEF Order
      <4>2. m # 1
        BY <4>1
      <4>3. m - 1 \in 1 .. (n - 1) /\ m = (m - 1) + 1
        BY <1>1, <4>2
      <4>4. g[m - 1] = x
        BY <4>1, <4>3, <2>1
      <4>5. QED
        BY <4>3, <4>4
    <3>2. QED
      BY <3>1
  <2>5. KeepsTime(g, n - 1, ops)
    <3>1. ASSUME NEW a \in 1 .. (n - 1), NEW b \in 1 .. (n - 1), a < b
          PROVE  ~FinishesFirst(ops[g[b]], ops[g[a]])
      <4>1. a + 1 < b + 1 /\ a + 1 \in 1 .. n /\ b + 1 \in 1 .. n
        BY <1>1, <3>1
      <4>2. ~FinishesFirst(ops[f[b + 1]], ops[f[a + 1]])
        BY <4>1, <1>2 DEF Order, KeepsTime
      <4>3. QED
        BY <4>2, <2>1
    <3>2. QED
      BY <3>1 DEF KeepsTime
  <2>6. \A k \in 0 .. (n - 1) : r[k] = s[k + 1] /\ k + 1 \in 1 .. n
    BY <1>1
  <2>7. \A k \in 1 .. (n - 1) : /\ k - 1 \in 0 .. (n - 1) /\ k \in 0 .. (n - 1)
                                /\ (k - 1) + 1 = k /\ (k + 1) - 1 = k
    BY <1>1
  <2>8. \A k \in 1 .. (n - 1) : r[k - 1] = s[(k + 1) - 1]
    BY <2>6, <2>7
  <2>9. Run(r, n - 1, g, ops, After(ops, i, state))
    <3>1. r = [k \in 0 .. (n - 1) |-> r[k]]
      OBVIOUS
    <3>2. r[0] = After(ops, i, state)
      <4>1. 0 \in 0 .. (n - 1) /\ 0 + 1 = 1
        BY <1>1
      <4>2. QED
        BY <1>5, <2>6, <4>1
    <3>3. ASSUME NEW k \in 1 .. (n - 1)
          PROVE  r[k] = Apply(r[k - 1], ops[g[k]].op).state
      <4>1. s[k + 1] = Apply(s[(k + 1) - 1], ops[f[k + 1]].op).state
        BY <1>2, <2>1 DEF Order, Run
      <4>2. QED
        BY <4>1, <2>1, <2>6, <2>7, <2>8
    <3> HIDE DEF r, g
    <3>4. QED
      BY <3>1, <3>2, <3>3 DEF Run
  <2>10. Responds(r, n - 1, g, ops)
    <3>1. ASSUME NEW k \in 1 .. (n - 1)
          PROVE  Apply(r[k - 1], ops[g[k]].op).response = ops[g[k]].response
      <4>1. Apply(s[(k + 1) - 1], ops[f[k + 1]].op).response = ops[f[k + 1]].response
        BY <1>2, <2>1 DEF Order, Responds
      <4>2. QED
        BY <4>1, <2>1, <2>8
    <3> HIDE DEF r, g
    <3>2. QED
      BY <3>1 DEF Responds
  <2> HIDE DEF r, g, i
  <2>11. QED
    BY <2>2, <2>3, <2>4, <2>5, <2>9, <2>10 DEF Order
<1> HIDE DEF g, r, i
<1>8. Completable(ops, S \ {i}, After(ops, i, state))
  BY <1>4, <1>7, CompletableIsOrder
<1>9. QED
  BY <1>3, <1>6, <1>8

LEMMA OthersFollow ==
  ASSUME NEW ops, NEW S, NEW state, NEW i \in S, IsFiniteSet(S), WellTimed(ops, S),
         CanComeFirst(ops, S, i, state),
         Completable(ops, S \ {i}, After(ops, i, state))
  PROVE  Completable(ops, S, state)
<1> DEFINE n == Cardinality(S)
<1>1. n \in Nat /\ n # 0
  BY FS_CardinalityType, FS_EmptySet
<1>2. IsFiniteSet(S \ {i}) /\ Cardinality(S \ {i}) = n - 1
  BY FS_RemoveElement
<1>3. PICK g, r : Order(g, r, n - 1, ops, S \ {i}, After(ops, i, state))
  BY <1>2, CompletableIsOrder
<1> HIDE DEF n
<1> DEFINE f == [k \in 1 .. n |-> IF k = 1 THEN i ELSE g[k - 1]]
           s == [k \in 0 .. n |-> IF k = 0 THEN state ELSE r[k - 1]]
<1>4. /\ 1 \in 1 .. n /\ f[1] = i
      /\ \A k \in 1 .. n : k # 1 => k - 1 \in 1 .. (n - 1) /\ f[k] = g[k - 1]
  BY <1>1
<1>5. /\ s[0] = state
      /\ \A k \in 1 .. n : k - 1 \in 0 .. (n - 1) /\ s[k] = r[k - 1]
  BY <1>1
<1>6. /\ g \in [1 .. (n - 1) -> S \ {i}]
      /\ \A a, b \in 1 .. (n - 1) : g[a] = g[b] => a = b
      /\ \A x \in S \ {i} : \E k \in 1 .. (n - 1) : g[k] = x
      /\ KeepsTime(g, n - 1, ops)
      /\ Run(r, n - 1, g, ops, After(ops, i, state))
      /\ Responds(r, n - 1, g, ops)
  BY <1>3 DEF Order
<1>7. f \in [1 .. n -> S] /\ \A k \in 1 .. n : k # 1 => f[k] \in S \ {i}
  <2>1. \A k \in 1 .. n : k # 1 => f[k] \in S \ {i}
    BY <1>4, <1>6
  <2>2. QED
    BY <2>1
<1>8. \A a, b \in 1 .. n : f[a] = f[b] => a = b
  <2>1. ASSUME NEW a \in 1 .. n, NEW b \in 1 .. n, f[a] = f[b]
        PROVE  a = b
    <3>1. CASE a = 1 \/ b = 1
      BY <2>1, <3>1, <1>4, <1>7
    <3>2. CASE a # 1 /\ b # 1
      <4>1. a - 1 \in 1 .. (n - 1) /\ b - 1 \in 1 .. (n - 1) /\ g[a - 1] = g[b - 1]
        BY <2>1, <3>2, <1>4
      <4>2. a - 1 = b - 1
        BY <4>1, <1>6
      <4>3. QED
        BY <4>2, <1>1
    <3>3. QED
      BY <3>1, <3>2
  <2>2. QED
    BY <2>1
<1>9. \A x \in S : \E k \in 1 .. n : f[k] = x
  <2>1. ASSUME NEW x \in S, x # i
        PROVE  \E k \in 1 .. n : f[k] = x
    <3>1. PICK m \in 1 .. (n - 1) : g[m] = x
      BY <2>1, <1>6
    <3>2. m + 1 \in 1 .. n /\ m + 1 # 1 /\ (m + 1) - 1 = m
      BY <1>1
    <3>3. f[m + 1] = x
      BY <3>1, <3>2, <1>4
    <3>4. QED
      BY <3>2, <3>3
  <2>2. QED
    BY <2>1, <1>4
<1>10. KeepsTime(f, n, ops)
  <2>1. ASSUME NEW a \in 1 .. n, NEW b \in 1 .. n, a < b
        PROVE  ~FinishesFirst(ops[f[b]], ops[f[a]])
    <3>1. b # 1
      BY <2>1, <1>1
    <3>2. CASE a = 1
      <4>1. f[a] = i /\ f[b] \in S
        BY <3>1, <3>2, <1>4, <1>7
      <4>2. RealTime => ops[i].start <= ops[f[b]].finish
        BY <4>1 DEF CanComeFirst
      <4>3. QED
        BY <4>1, <4>2 DEF FinishesFirst, WellTimed
    <3>3. CASE a # 1
      <4>1. /\ a - 1 \in 1 .. (n - 1) /\ b - 1 \in 1 .. (n - 1) /\ a - 1 < b - 1
            /\ f[a] = g[a - 1] /\ f[b] = g[b - 1]
        BY <2>1, <3>1, <3>3, <1>4
      <4>2. ~FinishesFirst(ops[g[b - 1]], ops[g[a - 1]])
        BY <4>1, <1>6 DEF KeepsTime
      <4>3. QED
        BY <4>1, <4>2
    <3>4. QED
      BY <3>2, <3>3
  <2>2. QED
    BY <2>1 DEF KeepsTime
<1>11. Run(s, n, f, ops, state)
  <2>1. s = [k \in 0 .. n |-> s[k]]
    OBVIOUS
  <2>2. r[0] = After(ops, i, state)
    BY <1>6 DEF Run
  <2>3. ASSUME NEW k \in 1 .. n
        PROVE  s[k] = Apply(s[k - 1], ops[f[k]].op).state
    <3>1. CASE k = 1
      <4>1. k - 1 = 0 /\ s[k] = r[0]
        BY <3>1, <1>5
      <4>2. QED
        BY <4>1, <2>2, <3>1, <1>4, <1>5 DEF After
    <3>2. CASE k # 1
      <4>1. /\ k - 1 \in 1 .. (n - 1) /\ k - 1 \in 1 .. n /\ f[k] = g[k - 1]
            /\ s[k] = r[k - 1] /\ s[k - 1] = r[(k - 1) - 1]
        BY <3>2, <1>4, <1>5, <1>1
      <4>2. r[k - 1] = Apply(r[(k - 1) - 1], ops[g[k - 1]].op).state
        BY <4>1, <1>6 DEF Run
      <4>3. QED
        BY <4>1, <4>2
    <3>3. QED
      BY <3>1, <3>2
  <2> HIDE DEF s, f
  <2>4. QED
    BY <2>1, <2>3, <1>5 DEF Run
<1>12. Responds(s, n, f, ops)
  <2>1. ASSUME NEW k \in 1 .. n
        PROVE  Apply(s[k - 1], ops[f[k]].op).response = ops[f[k]].response
    <3>1. CASE k = 1
      <4>1. k - 1 = 0
        BY <3>1
      <4>2. QED
        BY <4>1, <3>1, <1>4, <1>5 DEF CanComeFirst
    <3>2. CASE k # 1
      <4>1. /\ k - 1 \in 1 .. (n - 1) /\ k - 1 \in 1 .. n /\ f[k] = g[k - 1]
            /\ s[k - 1] = r[(k - 1) - 1]
        BY <3>2, <1>4, <1>5, <1>1
      <4>2. Apply(r[(k - 1) - 1], ops[g[k - 1]].op).response = ops[g[k - 1]].response
        BY <4>1, <1>6 DEF Responds
      <4>3. QED
        BY <4>1, <4>2
    <3>3. QED
      BY <3>1, <3>2
  <2> HIDE DEF s, f
  <2>2. QED
    BY <2>1 DEF Responds
<1> HIDE DEF s, f
<1>13. Order(f, s, n, ops, S, state)
  BY <1>7, <1>8, <1>9, <1>10, <1>11, <1>12 DEF Order
<1>14. QED
  BY <1>13, CompletableIsOrder DEF n

-----------------------------------------------------------------------------
(* The search.  Its inductive invariant: what the loops have tried and     *)
(* turned down cannot be completed, except for the call that is under way; *)
(* and what can be completed on the stack can be completed from the start. *)

Dead(ops, done, state) == ~Completable(ops, DOMAIN ops \ done, state)

Fits(ops, i, done, state) ==
  i \in DOMAIN ops \ done /\ CanComeFirst(ops, DOMAIN ops \ done, i, state)

IsFrame(f) == f = [done |-> f.done, state |-> f.state, next |-> f.next]

Shapes ==
  /\ spans \in Seq(Range(spans)) /\ WellTimed(spans, Span)
  /\ stack \in Seq(Range(stack))
  /\ \A k \in DOMAIN stack :
       /\ IsFrame(stack[k])
       /\ stack[k].done \subseteq Span /\ stack[k].done # Span
       /\ stack[k].next \in Nat \ {0}

(* A frame is above the one that called it, from the iteration before the  *)
(* one it goes on with; no node is on the stack twice.                     *)
CalledFrom(k, i) ==
  /\ i \in Span \ stack[k].done
  /\ stack[k + 1].done = stack[k].done \cup {i}
  /\ stack[k + 1].state = After(spans, i, stack[k].state)

Nested ==
  /\ stack # <<>> => stack[1].done = {} /\ stack[1].state = InitState
  /\ \A k, l \in DOMAIN stack : k <= l => stack[k].done \subseteq stack[l].done
  /\ \A k \in DOMAIN stack : k # Len(stack) => CalledFrom(k, stack[k].next - 1)

Tried ==
  \A k \in DOMAIN stack : \A i \in Span :
    /\ i < stack[k].next
    /\ k # Len(stack) => i # stack[k].next - 1
    /\ Fits(spans, i, stack[k].done, stack[k].state)
    => Dead(spans, stack[k].done \cup {i}, After(spans, i, stack[k].state))

Reaches ==
  \A k \in DOMAIN stack :
    Dead(spans, {}, InitState) => Dead(spans, stack[k].done, stack[k].state)

DeadEnds ==
  verdict = "none" =>
    \A done, state :
      Node(done, state) \in visited =>
        \/ \E k \in DOMAIN stack : stack[k].done = done /\ stack[k].state = state
        \/ Dead(spans, done, state)

Decided ==
  /\ verdict \in {"none", "valid", "invalid"}
  /\ verdict = "valid" => ~Dead(spans, {}, InitState)
  /\ verdict = "invalid" => Dead(spans, {}, InitState)

SearchInv ==
  Shapes /\ Nested /\ Tried /\ Reaches /\ DeadEnds /\ Decided

LEMMA SpanFinite ==
  ASSUME Shapes
  PROVE  /\ DOMAIN spans = 1 .. Len(spans) /\ Len(spans) \in Nat
         /\ IsFiniteSet(DOMAIN spans) /\ WellTimed(spans, DOMAIN spans)
<1>1. DOMAIN spans = 1 .. Len(spans) /\ Len(spans) \in Nat
  BY DEF Shapes
<1>2. QED
  BY <1>1, FS_Interval DEF Shapes, Span

(* A node is dead exactly if each op that fits leads to a dead one.        *)
LEMMA DeadIfAllTried ==
  ASSUME NEW ops, NEW done, NEW state, IsFiniteSet(DOMAIN ops), WellTimed(ops, DOMAIN ops),
         DOMAIN ops \ done # {},
         \A i \in DOMAIN ops : Fits(ops, i, done, state)
                               => Dead(ops, done \cup {i}, After(ops, i, state))
  PROVE  Dead(ops, done, state)
<1>1. SUFFICES ASSUME Completable(ops, DOMAIN ops \ done, state) PROVE FALSE
  BY DEF Dead
<1>2. IsFiniteSet(DOMAIN ops \ done) /\ WellTimed(ops, DOMAIN ops \ done)
  BY FS_Subset DEF WellTimed
<1>3. PICK i \in DOMAIN ops \ done :
             /\ CanComeFirst(ops, DOMAIN ops \ done, i, state)
             /\ Completable(ops, (DOMAIN ops \ done) \ {i}, After(ops, i, state))
  BY <1>1, <1>2, OneComesFirst
<1>4. (DOMAIN ops \ done) \ {i} = DOMAIN ops \ (done \cup {i})
  OBVIOUS
<1>5. QED
  BY <1>3, <1>4 DEF Dead, Fits

LEMMA DeadLeadsToDead ==
  ASSUME NEW ops, NEW done, NEW state, IsFiniteSet(DOMAIN ops), WellTimed(ops, DOMAIN ops),
         NEW i, Fits(ops, i, done, state), Dead(ops, done, state)
  PROVE  Dead(ops, done \cup {i}, After(ops, i, state))
<1>1. SUFFICES ASSUME Completable(ops, DOMAIN ops \ (done \cup {i}), After(ops, i, state))
               PROVE  FALSE
  BY DEF Dead
<1>2. IsFiniteSet(DOMAIN ops \ done) /\ WellTimed(ops, DOMAIN ops \ done)
  BY FS_Subset DEF WellTimed
<1>3. (DOMAIN ops \ done) \ {i} = DOMAIN ops \ (done \cup {i})
  OBVIOUS
<1>4. Completable(ops, DOMAIN ops \ done, state)
  BY <1>1, <1>2, <1>3, OthersFollow DEF Fits
<1>5. QED
  BY <1>4 DEF Dead

(* What the steps do to the stack.                                         *)
LEMMA FrameAdvances ==
  ASSUME NEW f, IsFrame(f)
  PROVE  LET g == [f EXCEPT !.next = @ + 1]
         IN IsFrame(g) /\ g.done = f.done /\ g.state = f.state /\ g.next = f.next + 1
<1>1. PICK d, s, n : d = f.done /\ s = f.state /\ n = f.next
  OBVIOUS
<1>2. f = [done |-> d, state |-> s, next |-> n]
  BY <1>1 DEF IsFrame
<1>3. QED
  BY <1>2 DEF IsFrame

LEMMA AdvanceFacts ==
  ASSUME Shapes, stack # <<>>
  PROVE  /\ Len(stack) \in Nat \ {0} /\ DOMAIN stack = 1 .. Len(stack)
         /\ top = stack[Len(stack)]
         /\ Advance \in Seq(Range(Advance)) /\ Len(Advance) = Len(stack)
         /\ DOMAIN Advance = 1 .. Len(stack)
         /\ \A k \in 1 .. Len(stack) :
              /\ IsFrame(Advance[k])
              /\ Advance[k].done = stack[k].done /\ Advance[k].state = stack[k].state
              /\ Advance[k].next = IF k = Len(stack) THEN stack[k].next + 1 ELSE stack[k].next
<1>1. stack \in Seq(Range(stack))
  BY DEF Shapes
<1>2. Len(stack) \in Nat \ {0} /\ DOMAIN stack = 1 .. Len(stack)
  BY <1>1
<1>4. DOMAIN Advance = 1 .. Len(stack)
  BY <1>2 DEF Advance
<1>5. \A k \in 1 .. Len(stack) :
        Advance[k] = IF k = Len(stack) THEN [stack[k] EXCEPT !.next = @ + 1] ELSE stack[k]
  BY <1>2 DEF Advance
<1>6. ASSUME NEW k \in 1 .. Len(stack)
      PROVE  /\ IsFrame(Advance[k])
             /\ Advance[k].done = stack[k].done /\ Advance[k].state = stack[k].state
             /\ Advance[k].next = IF k = Len(stack) THEN stack[k].next + 1 ELSE stack[k].next
  <2>1. IsFrame(stack[k])
    BY <1>2 DEF Shapes
  <2>2. PICK f : f = stack[k]
    OBVIOUS
  <2>3. /\ IsFrame([f EXCEPT !.next = @ + 1]) /\ [f EXCEPT !.next = @ + 1].done = f.done
        /\ [f EXCEPT !.next = @ + 1].state = f.state
        /\ [f EXCEPT !.next = @ + 1].next = f.next + 1
    BY <2>1, <2>2, FrameAdvances
  <2>4. QED
    BY <2>1, <2>2, <2>3, <1>5
<1>7. Advance = [k \in 1 .. Len(stack) |-> Advance[k]]
  BY <1>4 DEF Advance
<1>8. Advance \in Seq(Range(Advance)) /\ Len(Advance) = Len(stack)
  BY <1>2, <1>4, <1>7 DEF Range
<1>9. QED
  BY <1>2, <1>4, <1>6, <1>8 DEF Last, top

LEMMA AppendFacts ==
  ASSUME NEW q, NEW e, q \in Seq(Range(q))
  PROVE  /\ Append(q, e) \in Seq(Range(Append(q, e)))
         /\ Len(q) \in Nat /\ DOMAIN q = 1 .. Len(q)
         /\ Len(Append(q, e)) = Len(q) + 1
         /\ DOMAIN Append(q, e) = 1 .. (Len(q) + 1)
         /\ \A k \in 1 .. Len(q) : Append(q, e)[k] = q[k]
         /\ Append(q, e)[Len(q) + 1] = e
<1> DEFINE T == Range(q) \cup {e}
<1>1. q \in Seq(T) /\ e \in T
  BY SeqMonotonic
<1> HIDE DEF T
<1>2. Append(q, e) \in Seq(T)
  BY <1>1, AppendProperties
<1>3. Append(q, e) \in Seq(Range(Append(q, e)))
  BY <1>2, SeqOfRange
<1>4. QED
  BY <1>1, <1>3, AppendProperties

(* A span is skipped: it does not fit, or what it leads to is dead.        *)
LEMMA SkipSearch ==
  ASSUME SearchInv, stack # <<>>, top.next \in Span,
         stack' = Advance, spans' = spans, visited' = visited, verdict' = verdict,
         Fits(spans, top.next, top.done, top.state)
           => Dead(spans, top.done \cup {top.next}, After(spans, top.next, top.state))
  PROVE  SearchInv'
<1>1. /\ Len(stack) \in Nat \ {0} /\ DOMAIN stack = 1 .. Len(stack)
      /\ top = stack[Len(stack)]
      /\ stack' \in Seq(Range(stack')) /\ Len(stack') = Len(stack)
      /\ DOMAIN stack' = 1 .. Len(stack)
      /\ \A k \in 1 .. Len(stack) :
           /\ IsFrame(stack'[k])
           /\ stack'[k].done = stack[k].done /\ stack'[k].state = stack[k].state
           /\ stack'[k].next = IF k = Len(stack) THEN stack[k].next + 1 ELSE stack[k].next
  BY AdvanceFacts DEF SearchInv
<1>2. DOMAIN stack' = DOMAIN stack
  BY <1>1
<1>3. \A k \in DOMAIN stack : stack'[k].done = stack[k].done /\ stack'[k].state = stack[k].state
  BY <1>1
<1> DEFINE last == Len(stack)
<1>11. /\ \A k \in DOMAIN stack : stack'[k].next = IF k = last THEN stack[k].next + 1 ELSE stack[k].next
       /\ last \in Nat \ {0} /\ DOMAIN stack = 1 .. last
       /\ \A k \in DOMAIN stack : stack[k].next \in Nat \ {0}
  BY <1>1 DEF SearchInv, Shapes
<1>4. Shapes'
  <2>1. \A k \in DOMAIN stack : stack'[k].next \in Nat \ {0}
    <3> HIDE DEF last
    <3>1. QED
      BY <1>11
  <2>2. \A k \in DOMAIN stack : IsFrame(stack'[k])
    BY <1>1
  <2>3. QED
    BY <1>1, <1>2, <1>3, <2>1, <2>2 DEF SearchInv, Shapes, Span
<1>5. Nested'
  <2>1. stack' # <<>> /\ 1 \in DOMAIN stack
    BY <1>1
  <2>2. \A k \in DOMAIN stack : k # Len(stack) => k + 1 \in DOMAIN stack /\ stack'[k].next = stack[k].next
    <3> HIDE DEF last
    <3>1. \A k \in DOMAIN stack : k # last => k + 1 \in DOMAIN stack /\ stack'[k].next = stack[k].next
      BY <1>11
    <3>2. QED
      BY <3>1 DEF last
  <2>3. stack'[1].done = {} /\ stack'[1].state = InitState
    BY <2>1, <1>3 DEF SearchInv, Nested
  <2>4. \A k, l \in DOMAIN stack : k <= l => stack'[k].done \subseteq stack'[l].done
    BY <1>3 DEF SearchInv, Nested
  <2>5. ASSUME NEW k \in DOMAIN stack, k # Len(stack)
        PROVE  CalledFrom(k, stack[k].next - 1)'
    <3>1. CalledFrom(k, stack[k].next - 1)
      BY <2>5 DEF SearchInv, Nested
    <3>2. k + 1 \in DOMAIN stack /\ stack'[k].next = stack[k].next
      BY <2>2, <2>5
    <3>3. PICK i : i = stack[k].next - 1
      OBVIOUS
    <3>4. /\ i \in DOMAIN spans \ stack'[k].done
          /\ stack'[k + 1].done = stack'[k].done \cup {i}
          /\ stack'[k + 1].state = After(spans, i, stack'[k].state)
      BY <2>5, <3>1, <3>2, <3>3, <1>3 DEF CalledFrom, Span
    <3>5. QED
      BY <3>2, <3>3, <3>4 DEF CalledFrom, Span
  <2>6. QED
    BY <1>1, <1>2, <2>2, <2>3, <2>4, <2>5 DEF Nested
<1>6. Tried'
  <2>1. ASSUME NEW k \in DOMAIN stack, NEW i \in Span, i < stack'[k].next,
               k # Len(stack) => i # stack'[k].next - 1,
               Fits(spans, i, stack[k].done, stack[k].state)
        PROVE  Dead(spans, stack[k].done \cup {i}, After(spans, i, stack[k].state))
    <3>1. CASE k # Len(stack) \/ i # top.next
      <4>0. i \in Nat /\ (k = last => stack[k].next = top.next)
        <5>1. Shapes
          BY DEF SearchInv
        <5>2. DOMAIN spans = 1 .. Len(spans) /\ Len(spans) \in Nat
          BY <5>1, SpanFinite
        <5>3. i \in Nat
          BY <5>2 DEF Span
        <5>4. QED
          BY <5>3, <1>1
      <4>1. i < stack[k].next /\ (k # last => i # stack[k].next - 1)
        <5> HIDE DEF last
        <5>1. CASE k = last
          <6>1. stack'[k].next = stack[k].next + 1 /\ i # stack[k].next
            BY <5>1, <1>11, <3>1, <4>0 DEF last
          <6>2. QED
            BY <6>1, <5>1, <2>1, <4>0, <1>11
        <5>2. CASE k # last
          <6>1. stack'[k].next = stack[k].next
            BY <5>2, <1>11
          <6>2. QED
            BY <6>1, <5>2, <2>1 DEF last
        <5>3. QED
          BY <5>1, <5>2
      <4>2. QED
        BY <4>1, <2>1 DEF SearchInv, Tried
    <3>2. CASE k = Len(stack) /\ i = top.next
      BY <3>2, <2>1, <1>1
    <3>3. QED
      BY <3>1, <3>2
  <2>2. QED
    BY <2>1, <1>1, <1>2, <1>3 DEF Tried, Span
<1>7. Reaches'
  BY <1>2, <1>3 DEF SearchInv, Reaches
<1>8. DeadEnds'
  BY <1>2, <1>3 DEF SearchInv, DeadEnds
<1>9. Decided'
  BY DEF SearchInv, Decided
<1>10. QED
  BY <1>4, <1>5, <1>6, <1>7, <1>8, <1>9 DEF SearchInv

(* The last op is in its place.                                            *)
LEMMA FoundSearch ==
  ASSUME SearchInv, stack # <<>>, verdict' = "valid",
         stack' = stack, spans' = spans, visited' = visited,
         Fits(spans, top.next, top.done, top.state),
         top.done \cup {top.next} = Span
  PROVE  SearchInv'
<1>0. /\ Len(stack) \in Nat \ {0} /\ DOMAIN stack = 1 .. Len(stack)
      /\ top = stack[Len(stack)]
  BY AdvanceFacts DEF SearchInv
<1>1. Len(stack) \in DOMAIN stack /\ top = stack[Len(stack)]
  BY <1>0
<1>2. ~Dead(spans, top.done \cup {top.next}, After(spans, top.next, top.state))
  <2>1. DOMAIN spans \ (top.done \cup {top.next}) = {}
    BY DEF Span
  <2>2. QED
    BY <2>1, NothingCompletes DEF Dead
<1>3. ~Dead(spans, top.done, top.state)
  BY <1>2, SpanFinite, DeadLeadsToDead DEF SearchInv
<1>4. ~Dead(spans, {}, InitState)
  BY <1>1, <1>3 DEF SearchInv, Reaches
<1>5. Decided'
  BY <1>4 DEF Decided
<1>6. Shapes' /\ Nested' /\ Tried' /\ Reaches'
  BY DEF SearchInv, Shapes, Nested, CalledFrom, Tried, Reaches, Span
<1>7. QED
  BY <1>5, <1>6 DEF SearchInv, DeadEnds

(* A call: the child is a new node, one level above.                       *)
PushedOn(last, child, after, step) ==
  /\ last = Len(stack) /\ last \in Nat \ {0} /\ DOMAIN stack = 1 .. last
  /\ top = stack[last]
  /\ stack' \in Seq(Range(stack')) /\ Len(stack') = last + 1
  /\ DOMAIN stack' = 1 .. (last + 1)
  /\ \A k \in 1 .. last : /\ stack'[k].done = stack[k].done
                          /\ stack'[k].state = stack[k].state
                          /\ IsFrame(stack'[k])
  /\ stack'[last + 1].done = child /\ stack'[last + 1].state = after
  /\ stack'[last + 1].next = 1 /\ IsFrame(stack'[last + 1])
  /\ \A k \in 1 .. last : stack[k].next \in Nat \ {0}
  /\ step \in Nat /\ stack[last].next = step /\ stack'[last].next = step + 1
  /\ \A k \in 1 .. last : k # last => stack'[k].next = stack[k].next
  /\ child \subseteq Span /\ child # Span /\ \A k \in 1 .. last : stack[k].done \subseteq child
  /\ step \in Span \ stack[last].done /\ child = stack[last].done \cup {step}
  /\ after = After(spans, step, stack[last].state)

LEMMA PushNode ==
  ASSUME SearchInv, NEW last, NEW child, NEW after, NEW step,
         PushedOn(last, child, after, step),
         Fits(spans, step, stack[last].done, stack[last].state),
         visited' = visited \cup {Node(child, after)}, spans' = spans, verdict' = verdict
  PROVE  SearchInv'
<1>1. /\ last = Len(stack) /\ last \in Nat \ {0} /\ DOMAIN stack = 1 .. last
      /\ top = stack[last]
  BY DEF PushedOn
<1>2. /\ stack' \in Seq(Range(stack')) /\ Len(stack') = last + 1
      /\ DOMAIN stack' = 1 .. (last + 1)
  BY DEF PushedOn
<1>3. \A k \in 1 .. last : /\ stack'[k].done = stack[k].done /\ stack'[k].state = stack[k].state
                           /\ IsFrame(stack'[k])
  BY DEF PushedOn
<1>4. /\ stack'[last + 1].done = child /\ stack'[last + 1].state = after
      /\ stack'[last + 1].next = 1 /\ IsFrame(stack'[last + 1])
  BY DEF PushedOn
<1>5. /\ \A k \in 1 .. last : stack[k].next \in Nat \ {0}
      /\ step \in Nat /\ stack[last].next = step /\ stack'[last].next = step + 1
      /\ \A k \in 1 .. last : k # last => stack'[k].next = stack[k].next
  BY DEF PushedOn
<1>6. /\ child \subseteq Span /\ child # Span /\ \A k \in 1 .. last : stack[k].done \subseteq child
      /\ step \in Span \ stack[last].done /\ child = stack[last].done \cup {step}
      /\ after = After(spans, step, stack[last].state)
  BY DEF PushedOn
<1>7. DeadEnds'
  <2>1. ASSUME verdict = "none", NEW done, NEW state, Node(done, state) \in visited'
        PROVE  \/ \E k \in 1 .. (last + 1) : stack'[k].done = done /\ stack'[k].state = state
               \/ Dead(spans, done, state)
    <3>1. CASE Node(done, state) \in visited
      <4>1. CASE Dead(spans, done, state)
        BY <4>1
      <4>2. CASE \E k \in DOMAIN stack : stack[k].done = done /\ stack[k].state = state
        <5>1. PICK k \in 1 .. last : stack[k].done = done /\ stack[k].state = state
          BY <4>2, <1>1
        <5>2. k \in 1 .. (last + 1)
          BY <1>1
        <5>3. QED
          BY <5>1, <5>2, <1>3
      <4>3. QED
        BY <2>1, <3>1, <4>1, <4>2 DEF SearchInv, DeadEnds
    <3>2. CASE Node(done, state) = Node(child, after)
      <4>1. done = child /\ state = after
        BY <3>2 DEF Node
      <4>2. last + 1 \in 1 .. (last + 1)
        BY <1>1
      <4>3. QED
        BY <4>1, <4>2, <1>4
    <3>3. QED
      BY <2>1, <3>1, <3>2
  <2>2. QED
    BY <2>1, <1>2 DEF DeadEnds
<1>8. \A k \in 1 .. (last + 1) : k \in 1 .. last \/ k = last + 1
  BY <1>1
<1>9. Shapes'
  <2>1. \A k \in 1 .. last : stack'[k].next \in Nat \ {0}
    BY <1>5
  <2>2. \A k \in 1 .. last : stack'[k].done \subseteq Span /\ stack'[k].done # Span
    BY <1>1, <1>3 DEF SearchInv, Shapes
  <2>3. \A k \in 1 .. (last + 1) :
          /\ IsFrame(stack'[k])
          /\ stack'[k].done \subseteq Span /\ stack'[k].done # Span
          /\ stack'[k].next \in Nat \ {0}
    BY <2>1, <2>2, <1>3, <1>4, <1>6, <1>8
  <2>4. QED
    BY <2>3, <1>2 DEF SearchInv, Shapes, Span
<1>10. Nested'
  <2>1. stack'[1].done = {} /\ stack'[1].state = InitState
    BY <1>1, <1>3 DEF SearchInv, Nested
  <2>2. \A k, l \in 1 .. (last + 1) : k <= l => stack'[k].done \subseteq stack'[l].done
    <3>1. ASSUME NEW k \in 1 .. (last + 1), NEW l \in 1 .. (last + 1), k <= l
          PROVE  stack'[k].done \subseteq stack'[l].done
      <4>1. CASE k = last + 1
        <5>1. l = last + 1
          BY <4>1, <3>1, <1>1
        <5>2. QED
          BY <4>1, <5>1
      <4>2. CASE k \in 1 .. last /\ l = last + 1
        BY <4>2, <1>3, <1>4, <1>6
      <4>3. CASE k \in 1 .. last /\ l \in 1 .. last
        BY <4>3, <3>1, <1>1, <1>3 DEF SearchInv, Nested
      <4>4. QED
        BY <4>1, <4>2, <4>3, <1>8
    <3>2. QED
      BY <3>1
  <2>3. ASSUME NEW k \in 1 .. last
        PROVE  CalledFrom(k, stack[k].next - 1)'
    <3>1. CASE k = last
      <4>1. stack'[k].next - 1 = step
        BY <3>1, <1>5
      <4>2. /\ stack'[k + 1].done = stack'[k].done \cup {step}
            /\ stack'[k + 1].state = After(spans, step, stack'[k].state)
            /\ step \in DOMAIN spans \ stack'[k].done
        BY <3>1, <1>3, <1>4, <1>6 DEF Span
      <4>3. QED
        BY <4>1, <4>2 DEF CalledFrom, Span
    <3>2. CASE k # last
      <4>1. k + 1 \in 1 .. last /\ k \in DOMAIN stack /\ stack'[k].next = stack[k].next
        BY <3>2, <1>1, <1>5
      <4>2. CalledFrom(k, stack[k].next - 1)
        BY <3>2, <4>1, <1>1 DEF SearchInv, Nested
      <4>3. PICK i : i = stack[k].next - 1
        OBVIOUS
      <4>4. /\ i \in DOMAIN spans \ stack'[k].done
            /\ stack'[k + 1].done = stack'[k].done \cup {i}
            /\ stack'[k + 1].state = After(spans, i, stack'[k].state)
        BY <4>1, <4>2, <4>3, <1>3 DEF CalledFrom, Span
      <4>5. QED
        BY <4>1, <4>3, <4>4 DEF CalledFrom, Span
    <3>3. QED
      BY <3>1, <3>2
  <2>4. QED
    BY <2>1, <2>2, <2>3, <1>2, <1>8 DEF Nested
<1>11. Tried'
  <2>1. ASSUME NEW k \in 1 .. last, NEW i \in Span, i < stack'[k].next, i # stack'[k].next - 1,
               Fits(spans, i, stack[k].done, stack[k].state)
        PROVE  Dead(spans, stack[k].done \cup {i}, After(spans, i, stack[k].state))
    <3>1. i \in Nat
      BY SpanFinite DEF SearchInv, Span
    <3>2. i < stack[k].next /\ (k # last => i # stack[k].next - 1)
      <4>1. CASE k = last
        <5>1. stack'[k].next = step + 1 /\ stack[k].next = step /\ step \in Nat
          BY <4>1, <1>5
        <5>2. QED
          BY <5>1, <4>1, <3>1, <2>1
      <4>2. CASE k # last
        <5>1. stack'[k].next = stack[k].next
          BY <4>2, <1>5
        <5>2. QED
          BY <5>1, <2>1
      <4>3. QED
        BY <4>1, <4>2
    <3>3. k \in DOMAIN stack
      BY <1>1
    <3>4. QED
      BY <2>1, <3>2, <3>3, <1>1 DEF SearchInv, Tried
  <2>2. ASSUME NEW i \in Span
        PROVE  ~(i < stack'[last + 1].next)
    <3>1. i \in Nat \ {0}
      BY SpanFinite DEF SearchInv, Span
    <3>2. QED
      BY <3>1, <1>4
  <2>3. \A k \in 1 .. last : k # last + 1
    BY <1>1
  <2>4. QED
    BY <2>1, <2>2, <2>3, <1>2, <1>3, <1>8 DEF Tried, Span
<1>12. Reaches'
  <2>1. ASSUME Dead(spans, {}, InitState), NEW k \in 1 .. (last + 1)
        PROVE  Dead(spans, stack'[k].done, stack'[k].state)
    <3>1. \A j \in 1 .. last : Dead(spans, stack[j].done, stack[j].state)
      BY <2>1, <1>1 DEF SearchInv, Reaches
    <3>2. CASE k \in 1 .. last
      BY <3>1, <3>2, <1>3
    <3>3. CASE k = last + 1
      <4>1. Dead(spans, stack[last].done, stack[last].state)
        BY <3>1, <1>1
      <4>2. Dead(spans, child, after)
        BY <4>1, <1>6, SpanFinite, DeadLeadsToDead DEF SearchInv
      <4>3. QED
        BY <3>3, <4>2, <1>4
    <3>4. QED
      BY <3>2, <3>3, <1>8
  <2>2. QED
    BY <2>1, <1>2 DEF Reaches
<1>13. Decided'
  BY DEF SearchInv, Decided
<1>14. QED
  BY <1>7, <1>9, <1>10, <1>11, <1>12, <1>13 DEF SearchInv

LEMMA PushSearch ==
  ASSUME SearchInv, stack # <<>>,
         stack' = Append(Advance, Frame(top.done \cup {top.next},
                                        After(spans, top.next, top.state))),
         visited' = visited \cup {Node(top.done \cup {top.next},
                                       After(spans, top.next, top.state))},
         spans' = spans, verdict' = verdict,
         Fits(spans, top.next, top.done, top.state),
         top.done \cup {top.next} # Span
  PROVE  SearchInv'
<1>0. PICK last, child, after, step :
        /\ last = Len(stack) /\ child = top.done \cup {top.next}
        /\ after = After(spans, top.next, top.state) /\ step = top.next
  OBVIOUS
<1>1. /\ last \in Nat \ {0} /\ DOMAIN stack = 1 .. last
      /\ top = stack[last]
      /\ Advance \in Seq(Range(Advance)) /\ Len(Advance) = last
      /\ \A k \in 1 .. last :
           /\ IsFrame(Advance[k])
           /\ Advance[k].done = stack[k].done /\ Advance[k].state = stack[k].state
           /\ Advance[k].next = IF k = last THEN stack[k].next + 1 ELSE stack[k].next
  BY <1>0, AdvanceFacts DEF SearchInv
<1>2. /\ stack' \in Seq(Range(stack')) /\ Len(stack') = last + 1
      /\ DOMAIN stack' = 1 .. (last + 1)
      /\ \A k \in 1 .. last : stack'[k] = Advance[k]
      /\ stack'[last + 1] = Frame(child, after)
  <2>1. PICK q, e : q = Advance /\ e = Frame(child, after)
    OBVIOUS
  <2>2. q \in Seq(Range(q)) /\ Len(q) = last /\ stack' = Append(q, e)
    BY <1>0, <1>1, <2>1
  <2>3. QED
    BY <2>1, <2>2, AppendFacts
<1>3. \A k \in 1 .. last : /\ stack'[k].done = stack[k].done /\ stack'[k].state = stack[k].state
                           /\ IsFrame(stack'[k])
  BY <1>1, <1>2
<1>4. /\ stack'[last + 1].done = child /\ stack'[last + 1].state = after
      /\ stack'[last + 1].next = 1 /\ IsFrame(stack'[last + 1])
  <2>1. PICK f : f = Frame(child, after)
    OBVIOUS
  <2>2. f.done = child /\ f.state = after /\ f.next = 1 /\ IsFrame(f)
    BY <2>1 DEF Frame, IsFrame
  <2>3. QED
    BY <1>2, <2>1, <2>2
<1>5. /\ \A k \in 1 .. last : stack[k].next \in Nat \ {0}
      /\ step \in Nat /\ stack[last].next = step /\ stack'[last].next = step + 1
      /\ \A k \in 1 .. last : k # last => stack'[k].next = stack[k].next
  <2>1. \A k \in 1 .. last : stack[k].next \in Nat \ {0}
    BY <1>1 DEF SearchInv, Shapes
  <2>2. last \in 1 .. last
    BY <1>1
  <2>3. QED
    BY <2>1, <2>2, <1>0, <1>1, <1>2
<1>6. /\ child \subseteq Span /\ child # Span /\ \A k \in 1 .. last : stack[k].done \subseteq child
      /\ step \in Span \ stack[last].done /\ child = stack[last].done \cup {step}
      /\ after = After(spans, step, stack[last].state)
  <2>1. last \in 1 .. last /\ \A k \in 1 .. last : k <= last
    BY <1>1
  <2>2. \A k \in 1 .. last : stack[k].done \subseteq stack[last].done
    BY <1>1, <2>1 DEF SearchInv, Nested
  <2>3. stack[last].done \subseteq Span
    BY <1>1, <2>1 DEF SearchInv, Shapes
  <2>4. step \in Span \ stack[last].done
    BY <1>0, <1>1 DEF Fits, Span
  <2>5. QED
    BY <2>2, <2>3, <2>4, <1>0, <1>1
<1>7. PushedOn(last, child, after, step)
  BY <1>0, <1>1, <1>2, <1>3, <1>4, <1>5, <1>6 DEF PushedOn
<1>8. Fits(spans, step, stack[last].done, stack[last].state)
  BY <1>0, <1>1
<1>9. visited' = visited \cup {Node(child, after)}
  BY <1>0
<1>10. QED
  BY <1>7, <1>8, <1>9, PushNode

LEMMA FrontFacts ==
  ASSUME NEW q, q \in Seq(Range(q)), q # <<>>
  PROVE  /\ Front(q) \in Seq(Range(Front(q)))
         /\ Len(q) \in Nat \ {0} /\ DOMAIN q = 1 .. Len(q)
         /\ Len(Front(q)) = Len(q) - 1
         /\ DOMAIN Front(q) = 1 .. (Len(q) - 1)
         /\ \A k \in 1 .. (Len(q) - 1) : Front(q)[k] = q[k]
<1> DEFINE T == Range(q)
           n == Len(q)
<1>1. n \in Nat \ {0} /\ DOMAIN q = 1 .. n
  OBVIOUS
<1>2. Front(q) = SubSeq(q, 1, n - 1)
  BY DEF Front
<1> HIDE DEF T, n
<1>3. /\ Front(q) \in Seq(T) /\ Len(Front(q)) = n - 1
      /\ \A k \in 1 .. (n - 1) : Front(q)[k] = q[k]
  <2>1. \A k \in 1 .. (n - 1) : k \in DOMAIN q /\ q[k] \in T
    BY <1>1 DEF T, Range
  <2>2. /\ Front(q) = [k \in 1 .. (n - 1) |-> q[k]]
    BY <1>1, <1>2 DEF T
  <2>3. QED
    BY <1>1, <2>1, <2>2
<1>4. Front(q) \in Seq(Range(Front(q)))
  BY <1>3, SeqOfRange
<1>5. QED
  BY <1>1, <1>3, <1>4 DEF n

(* A node all of whose ops were tried is dead, and so is the op its caller *)
(* had called it for.                                                      *)
PoppedTo(last) ==
  /\ last = Len(stack) /\ last \in Nat \ {0} /\ DOMAIN stack = 1 .. last
  /\ stack' \in Seq(Range(stack')) /\ Len(stack') = last - 1
  /\ DOMAIN stack' = 1 .. (last - 1)
  /\ \A k \in 1 .. (last - 1) : stack'[k] = stack[k]

LEMMA PopNode ==
  ASSUME SearchInv, NEW last, PoppedTo(last), stack[last].next \notin Span,
         visited' = visited, spans' = spans,
         verdict = "none", verdict' = IF last = 1 THEN "invalid" ELSE "none"
  PROVE  SearchInv'
<1>1. /\ last = Len(stack) /\ last \in Nat \ {0} /\ DOMAIN stack = 1 .. last
      /\ stack' \in Seq(Range(stack')) /\ Len(stack') = last - 1
      /\ DOMAIN stack' = 1 .. (last - 1)
      /\ \A k \in 1 .. (last - 1) : stack'[k] = stack[k] /\ k \in DOMAIN stack /\ k # last
      /\ last \in DOMAIN stack
  BY DEF PoppedTo
<1>2. Dead(spans, stack[last].done, stack[last].state)
  <2>1. \A i \in Span : i < stack[last].next
    <3>1. stack[last].next \in Nat \ {0} /\ Span = 1 .. Len(spans) /\ Len(spans) \in Nat
      BY <1>1, SpanFinite DEF SearchInv, Shapes, Span
    <3>2. QED
      BY <3>1
  <2>2. \A i \in DOMAIN spans :
          Fits(spans, i, stack[last].done, stack[last].state)
            => Dead(spans, stack[last].done \cup {i}, After(spans, i, stack[last].state))
    BY <2>1, <1>1 DEF SearchInv, Tried, Span
  <2>3. DOMAIN spans \ stack[last].done # {}
    BY <1>1 DEF SearchInv, Shapes, Span
  <2>4. QED
    <3>1. IsFiniteSet(DOMAIN spans) /\ WellTimed(spans, DOMAIN spans)
      BY SpanFinite DEF SearchInv
    <3>2. QED
      BY <2>2, <2>3, <3>1, DeadIfAllTried
<1>3. Shapes'
  BY <1>1 DEF SearchInv, Shapes, Span
<1>4. Nested'
  <2>1. stack' # <<>> => stack'[1].done = {} /\ stack'[1].state = InitState
    <3>1. CASE last = 1
      BY <3>1, <1>1
    <3>2. CASE last # 1
      <4>1. 1 \in 1 .. (last - 1) /\ stack # <<>>
        BY <3>2, <1>1
      <4>2. QED
        BY <4>1, <1>1 DEF SearchInv, Nested
    <3>3. QED
      BY <3>1, <3>2
  <2>2. \A k, l \in 1 .. (last - 1) : k <= l => stack'[k].done \subseteq stack'[l].done
    BY <1>1 DEF SearchInv, Nested
  <2>3. ASSUME NEW k \in 1 .. (last - 1), k # last - 1
        PROVE  CalledFrom(k, stack[k].next - 1)'
    <3>1. k + 1 \in 1 .. (last - 1)
      BY <2>3, <1>1
    <3>2. CalledFrom(k, stack[k].next - 1)
      BY <1>1 DEF SearchInv, Nested
    <3>3. stack'[k] = stack[k] /\ stack'[k + 1] = stack[k + 1]
      BY <3>1, <1>1
    <3>4. QED
      BY <3>2, <3>3 DEF CalledFrom, Span
  <2>4. QED
    BY <2>1, <2>2, <2>3, <1>1 DEF Nested
<1>5. Tried'
  <2>1. ASSUME NEW k \in 1 .. (last - 1), NEW i \in Span, i < stack[k].next,
               Fits(spans, i, stack[k].done, stack[k].state)
        PROVE  \/ k # last - 1 /\ i = stack[k].next - 1
               \/ Dead(spans, stack[k].done \cup {i}, After(spans, i, stack[k].state))
    <3>1. CASE i # stack[k].next - 1
      BY <2>1, <3>1, <1>1 DEF SearchInv, Tried
    <3>2. CASE i = stack[k].next - 1 /\ k = last - 1
      <4>1. CalledFrom(k, i) /\ k + 1 = last
        <5>1. k \in DOMAIN stack /\ k # Len(stack) /\ k + 1 = last
          BY <3>2, <1>1
        <5>2. CalledFrom(k, stack[k].next - 1)
          BY <5>1 DEF SearchInv, Nested
        <5>3. QED
          BY <5>1, <5>2, <3>2
      <4>2. /\ stack[last].done = stack[k].done \cup {i}
            /\ stack[last].state = After(spans, i, stack[k].state)
        BY <4>1 DEF CalledFrom
      <4>3. QED
        BY <4>2, <1>2
    <3>3. QED
      BY <3>1, <3>2
  <2>2. QED
    BY <2>1, <1>1 DEF Tried, Span
<1>6. Reaches'
  BY <1>1 DEF SearchInv, Reaches
<1>7. DeadEnds'
  <2>1. ASSUME NEW done, NEW state, Node(done, state) \in visited
        PROVE  \/ \E k \in 1 .. (last - 1) : stack'[k].done = done /\ stack'[k].state = state
               \/ Dead(spans, done, state)
    <3>1. CASE Dead(spans, done, state)
      BY <3>1
    <3>2. CASE \E k \in DOMAIN stack : stack[k].done = done /\ stack[k].state = state
      <4>1. PICK k \in 1 .. last : stack[k].done = done /\ stack[k].state = state
        BY <3>2, <1>1
      <4>2. CASE k = last
        BY <4>1, <4>2, <1>2
      <4>3. CASE k \in 1 .. (last - 1)
        BY <4>1, <4>3, <1>1
      <4>4. QED
        BY <4>2, <4>3, <1>1
    <3>3. QED
      BY <2>1, <3>1, <3>2 DEF SearchInv, DeadEnds
  <2>2. QED
    BY <2>1, <1>1 DEF DeadEnds
<1>8. Decided'
  <2>1. CASE last = 1
    <3>1. stack[last].done = {} /\ stack[last].state = InitState
      BY <2>1, <1>1 DEF SearchInv, Nested
    <3>2. QED
      BY <2>1, <3>1, <1>2 DEF Decided
  <2>2. CASE last # 1
    BY <2>2 DEF Decided
  <2>3. QED
    BY <2>1, <2>2
<1>9. QED
  BY <1>3, <1>4, <1>5, <1>6, <1>7, <1>8 DEF SearchInv

LEMMA SearchStart ==
  ASSUME SearchInv, StartSearch
  PROVE  SearchInv'
<1>1. spans' = spans /\ verdict = "none" /\ stack = <<>>
  BY DEF StartSearch
<1>2. CASE spans = <<>>
  <2>1. verdict' = "valid" /\ stack' = stack /\ visited' = visited
    BY <1>2 DEF StartSearch
  <2>2. ~Dead(spans, {}, InitState)
    <3>1. DOMAIN spans \ {} = {}
      BY <1>2
    <3>2. QED
      BY <3>1, NothingCompletes DEF Dead
  <2>3. QED
    BY <1>1, <2>1, <2>2
       DEF SearchInv, Shapes, Nested, CalledFrom, Tried, Reaches, DeadEnds, Decided, Span
<1>3. CASE spans # <<>>
  <2>1. PICK f : f = Frame({}, InitState)
    OBVIOUS
  <2>2. /\ stack' = <<f>> /\ visited' = {Node({}, InitState)}
        /\ verdict' = verdict
    BY <1>3, <2>1 DEF StartSearch
  <2>3. f.done = {} /\ f.state = InitState /\ f.next = 1 /\ IsFrame(f)
    BY <2>1 DEF Frame, IsFrame
  <2>4. /\ Len(stack') = 1 /\ DOMAIN stack' = {1} /\ stack'[1] = f
        /\ stack' \in Seq(Range(stack'))
    <3>1. PICK q : q = <<f>>
      OBVIOUS
    <3>2. q \in Seq({f}) /\ Len(q) = 1 /\ DOMAIN q = {1} /\ q[1] = f
      BY <3>1
    <3>3. q \in Seq(Range(q))
      BY <3>2, SeqOfRange
    <3>4. QED
      BY <2>2, <3>1, <3>2, <3>3
  <2>5. {} # Span
    <3>1. spans \in Seq(Range(spans))
      BY DEF SearchInv, Shapes
    <3>2. Len(spans) # 0
      BY <1>3, <3>1, EmptySeq
    <3>3. 1 \in DOMAIN spans
      BY <3>1, <3>2
    <3>4. QED
      BY <3>3 DEF Span
  <2>6. Shapes'
    BY <1>1, <2>3, <2>4, <2>5 DEF SearchInv, Shapes, Span
  <2>7. Nested'
    BY <2>3, <2>4 DEF Nested
  <2>8. Tried'
    <3>1. \A i \in Span : i \in Nat \ {0}
      BY SpanFinite DEF SearchInv, Span
    <3>2. \A i \in Span : ~(i < 1)
      BY <3>1
    <3>3. QED
      BY <1>1, <2>3, <2>4, <3>2 DEF Tried, Span
  <2>9. Reaches'
    BY <1>1, <2>3, <2>4 DEF Reaches
  <2>10. DeadEnds'
    <3>1. ASSUME NEW done, NEW state, Node(done, state) = Node({}, InitState)
          PROVE  done = {} /\ state = InitState
      BY <3>1 DEF Node
    <3>2. QED
      BY <2>2, <2>3, <2>4, <3>1 DEF DeadEnds
  <2>11. Decided'
    BY <1>1, <2>2 DEF Decided
  <2>12. QED
    BY <2>6, <2>7, <2>8, <2>9, <2>10, <2>11 DEF SearchInv
<1>4. QED
  BY <1>2, <1>3

LEMMA SearchTry ==
  ASSUME SearchInv, TrySpan
  PROVE  SearchInv'
<1>1. /\ verdict = "none" /\ stack # <<>> /\ top.next \in Span /\ spans' = spans
  BY DEF TrySpan, Searching
<1>2. PICK i, done, state : /\ i = top.next /\ done = top.done \cup {top.next}
                            /\ state = After(spans, top.next, top.state)
  OBVIOUS
<1>3. Fits(spans, i, top.done, top.state)
        <=> ~(i \in top.done \/ ~Callable(i, top.done) \/ ~Matches(i, top.state))
  BY <1>1, <1>2 DEF Fits, CanComeFirst, Callable, Matches, Span
<1>4. IF ~Fits(spans, i, top.done, top.state)
      THEN stack' = Advance /\ visited' = visited /\ verdict' = verdict
      ELSE IF done = Span
      THEN verdict' = "valid" /\ stack' = stack /\ visited' = visited
      ELSE IF Node(done, state) \in visited
      THEN stack' = Advance /\ visited' = visited /\ verdict' = verdict
      ELSE /\ stack' = Append(Advance, Frame(done, state))
           /\ visited' = visited \cup {Node(done, state)}
           /\ verdict' = verdict
  BY <1>2, <1>3 DEF TrySpan, After
<1>5. CASE ~Fits(spans, i, top.done, top.state)
  BY <1>1, <1>2, <1>4, <1>5, SkipSearch
<1>6. CASE Fits(spans, i, top.done, top.state) /\ done = Span
  BY <1>1, <1>2, <1>4, <1>6, FoundSearch
<1>7. CASE /\ Fits(spans, i, top.done, top.state) /\ done # Span
           /\ Node(done, state) \in visited
  <2>1. \A k \in DOMAIN stack : stack[k].done # done
    <3>1. /\ Len(stack) \in Nat \ {0} /\ DOMAIN stack = 1 .. Len(stack)
          /\ top = stack[Len(stack)]
      BY <1>1, AdvanceFacts DEF SearchInv
    <3>2. ASSUME NEW k \in DOMAIN stack
          PROVE  stack[k].done \subseteq top.done
      <4>1. k <= Len(stack) /\ Len(stack) \in DOMAIN stack
        BY <3>1
      <4>2. QED
        BY <3>1, <4>1 DEF SearchInv, Nested
    <3>3. i \in done /\ i \notin top.done
      BY <1>2, <1>7 DEF Fits
    <3>4. QED
      BY <3>2, <3>3
  <2>2. Dead(spans, done, state)
    BY <1>1, <1>7, <2>1 DEF SearchInv, DeadEnds
  <2>3. QED
    BY <1>1, <1>2, <1>4, <1>7, <2>2, SkipSearch
<1>8. CASE /\ Fits(spans, i, top.done, top.state) /\ done # Span
           /\ Node(done, state) \notin visited
  BY <1>1, <1>2, <1>4, <1>8, PushSearch
<1>9. QED
  BY <1>5, <1>6, <1>7, <1>8

LEMMA SearchBacktrack ==
  ASSUME SearchInv, Backtrack
  PROVE  SearchInv'
<1>1. /\ verdict = "none" /\ stack # <<>> /\ top.next \notin Span
      /\ spans' = spans /\ visited' = visited
      /\ stack' = Front(stack)
      /\ verdict' = IF Len(stack) = 1 THEN "invalid" ELSE "none"
  BY DEF Backtrack, Searching
<1>2. PICK last, q : last = Len(stack) /\ q = stack
  OBVIOUS
<1>3. q \in Seq(Range(q)) /\ q # <<>>
  BY <1>1, <1>2 DEF SearchInv, Shapes
<1>4. PoppedTo(last)
  BY <1>1, <1>2, <1>3, FrontFacts DEF PoppedTo
<1>5. stack[last].next \notin Span
  BY <1>1, <1>2 DEF top, Last
<1>6. QED
  BY <1>1, <1>2, <1>4, <1>5, PopNode

-----------------------------------------------------------------------------
(* Parsing: the operations found in the first n entries, and the           *)
(* invocations that wait there for their completion.                       *)

WaitingAt(h, n) ==
  {i \in 1 .. n : /\ h[i].kind = "invoke"
                  /\ \A k \in (i + 1) .. n : h[k].process # h[i].process}

OperationsUpTo(h, n) ==
  UNION {Decoded(h, p[1], p[2]) :
           p \in {q \in (1 .. n) \X (1 .. n) :
                    Completes(h, q[1], q[2]) /\ h[q[2]].kind # "fail"}}

LEMMA OperationsDef ==
  ASSUME NEW h, NEW n \in Nat, NEW x
  PROVE  x \in OperationsUpTo(h, n)
           <=> \E i, j \in 1 .. n : /\ Completes(h, i, j) /\ h[j].kind # "fail"
                                    /\ x \in Decoded(h, i, j)
<1> DEFINE P == {q \in (1 .. n) \X (1 .. n) : Completes(h, q[1], q[2]) /\ h[q[2]].kind # "fail"}
<1>1. x \in OperationsUpTo(h, n) <=> \E p \in P : x \in Decoded(h, p[1], p[2])
  BY DEF OperationsUpTo
<1>2. ASSUME NEW p \in P
      PROVE  /\ p[1] \in 1 .. n /\ p[2] \in 1 .. n
             /\ Completes(h, p[1], p[2]) /\ h[p[2]].kind # "fail"
  OBVIOUS
<1>3. ASSUME NEW i \in 1 .. n, NEW j \in 1 .. n, Completes(h, i, j), h[j].kind # "fail"
      PROVE  <<i, j>> \in P /\ <<i, j>>[1] = i /\ <<i, j>>[2] = j
  BY <1>3
<1> HIDE DEF P
<1>4. ASSUME NEW i \in 1 .. n, NEW j \in 1 .. n, Completes(h, i, j), h[j].kind # "fail",
             x \in Decoded(h, i, j)
      PROVE  \E p \in P : x \in Decoded(h, p[1], p[2])
  BY <1>3, <1>4
<1>5. QED
  BY <1>1, <1>2, <1>4

LEMMA CompletesIsWaiting ==
  ASSUME NEW h, NEW n \in Nat, NEW i \in 1 .. (n + 1), h[n + 1].kind # "invoke"
  PROVE  Completes(h, i, n + 1)
           <=> i \in WaitingAt(h, n) /\ h[i].process = h[n + 1].process
<1>1. (n + 1) - 1 = n
  OBVIOUS
<1>2. QED
  BY <1>1 DEF Completes, WaitingAt

LEMMA DecodedSpan ==
  ASSUME NEW h, NEW i, NEW j, NEW x \in Decoded(h, i, j)
  PROVE  x.start = i /\ x.finish = j
BY DEF Decoded

(* No op of a process waits while another one does.                        *)
LEMMA WaitingAlone ==
  ASSUME NEW h, Checkable(h), NEW n \in Nat, n <= Len(h),
         NEW i \in WaitingAt(h, n), NEW j \in WaitingAt(h, n), h[i].process = h[j].process
  PROVE  i = j
BY DEF WaitingAt

LEMMA ParseInvocation ==
  ASSUME NEW h, Checkable(h), NEW n \in Nat, n + 1 <= Len(h), h[n + 1].kind = "invoke"
  PROVE  /\ WaitingAt(h, n + 1) = WaitingAt(h, n) \cup {n + 1}
         /\ OperationsUpTo(h, n + 1) = OperationsUpTo(h, n)
<1>1. h \in Seq(Range(h)) /\ DOMAIN h = 1 .. Len(h) /\ Len(h) \in Nat
  BY DEF Checkable, Sequential
<1>2. ASSUME NEW i \in WaitingAt(h, n)
      PROVE  h[i].process # h[n + 1].process
  <2>1. i \in DOMAIN h /\ n + 1 \in DOMAIN h /\ i < n + 1
    BY <1>1, <1>2 DEF WaitingAt
  <2>2. h[i].kind = "invoke" /\ \A k \in (i + 1) .. n : h[k].process # h[i].process
    BY DEF WaitingAt
  <2>3. (n + 1) - 1 = n
    OBVIOUS
  <2>4. QED
    BY <2>1, <2>2, <2>3 DEF Checkable, Sequential
<1>3. \A i \in 1 .. (n + 1) : \A k \in (i + 1) .. (n + 1) : k \in (i + 1) .. n \/ k = n + 1
  OBVIOUS
<1>4. WaitingAt(h, n + 1) = WaitingAt(h, n) \cup {n + 1}
  <2>1. ASSUME NEW i \in WaitingAt(h, n + 1) PROVE i \in WaitingAt(h, n) \cup {n + 1}
    BY DEF WaitingAt
  <2>2. ASSUME NEW i \in WaitingAt(h, n) PROVE i \in WaitingAt(h, n + 1)
    <3>1. i \in 1 .. n /\ h[i].kind = "invoke" /\ \A k \in (i + 1) .. n : h[k].process # h[i].process
      BY DEF WaitingAt
    <3>2. i \in 1 .. (n + 1) /\ \A k \in (i + 1) .. (n + 1) : h[k].process # h[i].process
      BY <3>1, <1>2, <1>3
    <3>3. QED
      BY <3>1, <3>2 DEF WaitingAt
  <2>3. n + 1 \in WaitingAt(h, n + 1)
    BY DEF WaitingAt
  <2>4. QED
    BY <2>1, <2>2, <2>3
<1>5. \A i, j \in 1 .. (n + 1) : Completes(h, i, j) => i \in 1 .. n /\ j \in 1 .. n
  BY DEF Completes
<1>6. \A x : x \in OperationsUpTo(h, n + 1) <=> x \in OperationsUpTo(h, n)
  <2>1. ASSUME NEW x PROVE x \in OperationsUpTo(h, n + 1) <=> x \in OperationsUpTo(h, n)
    <3>1. 1 .. n \subseteq 1 .. (n + 1)
      OBVIOUS
    <3>2. QED
      BY <1>5, <3>1, OperationsDef
  <2>2. QED
    BY <2>1
<1>7. QED
  BY <1>4, <1>6

NewOperations(h, i, j) == IF h[j].kind = "fail" THEN {} ELSE Decoded(h, i, j)

LEMMA ParseCompleted ==
  ASSUME NEW h, Checkable(h), NEW n \in Nat, n + 1 <= Len(h), h[n + 1].kind # "invoke",
         NEW i \in WaitingAt(h, n), h[i].process = h[n + 1].process
  PROVE  /\ WaitingAt(h, n + 1) = WaitingAt(h, n) \ {i}
         /\ OperationsUpTo(h, n + 1) = OperationsUpTo(h, n) \cup NewOperations(h, i, n + 1)
<1>1. \A j \in WaitingAt(h, n) : h[j].process = h[n + 1].process => j = i
  BY WaitingAlone
<1>2. \A j \in 1 .. (n + 1) : \A k \in (j + 1) .. (n + 1) : k \in (j + 1) .. n \/ k = n + 1
  OBVIOUS
<1>3. WaitingAt(h, n + 1) = WaitingAt(h, n) \ {i}
  <2>1. ASSUME NEW j \in WaitingAt(h, n + 1) PROVE j \in WaitingAt(h, n) \ {i}
    <3>1. j \in 1 .. (n + 1) /\ j # n + 1
      BY DEF WaitingAt
    <3>2. j \in WaitingAt(h, n)
      BY <3>1 DEF WaitingAt
    <3>3. n + 1 \in (j + 1) .. (n + 1)
      BY <3>1
    <3>4. h[n + 1].process # h[j].process
      BY <3>3 DEF WaitingAt
    <3>5. QED
      BY <3>2, <3>4
  <2>2. ASSUME NEW j \in WaitingAt(h, n), j # i PROVE j \in WaitingAt(h, n + 1)
    BY <1>1, <1>2, <2>2 DEF WaitingAt
  <2>3. QED
    BY <2>1, <2>2
<1>4. \A j \in 1 .. (n + 1) : Completes(h, j, n + 1) <=> j = i
  <2>1. i \in 1 .. (n + 1)
    BY DEF WaitingAt
  <2>2. QED
    BY <1>1, <2>1, CompletesIsWaiting
<1>5. \A x : x \in OperationsUpTo(h, n + 1)
               <=> x \in OperationsUpTo(h, n) \/ x \in NewOperations(h, i, n + 1)
  <2>1. ASSUME NEW x
        PROVE  x \in OperationsUpTo(h, n + 1)
                 <=> x \in OperationsUpTo(h, n) \/ x \in NewOperations(h, i, n + 1)
    <3>1. /\ 1 .. n \subseteq 1 .. (n + 1) /\ n + 1 \in 1 .. (n + 1) /\ i \in 1 .. (n + 1)
          /\ \A j \in 1 .. (n + 1) : j \in 1 .. n \/ j = n + 1
          /\ \A a, b \in 1 .. (n + 1) : Completes(h, a, b) => a \in 1 .. n
      BY DEF WaitingAt, Completes
    <3>2. x \in NewOperations(h, i, n + 1)
            <=> h[n + 1].kind # "fail" /\ x \in Decoded(h, i, n + 1)
      BY DEF NewOperations
    <3>3. QED
      BY <1>4, <3>1, <3>2, OperationsDef
  <2>2. QED
    BY <2>1
<1>6. QED
  BY <1>3, <1>5

LEMMA ParseStray ==
  ASSUME NEW h, Checkable(h), NEW n \in Nat, n + 1 <= Len(h), h[n + 1].kind # "invoke",
         \A i \in WaitingAt(h, n) : h[i].process # h[n + 1].process
  PROVE  /\ WaitingAt(h, n + 1) = WaitingAt(h, n)
         /\ OperationsUpTo(h, n + 1) = OperationsUpTo(h, n)
<1>1. \A j \in 1 .. (n + 1) : \A k \in (j + 1) .. (n + 1) : k \in (j + 1) .. n \/ k = n + 1
  OBVIOUS
<1>2. WaitingAt(h, n + 1) = WaitingAt(h, n)
  <2>1. ASSUME NEW j \in WaitingAt(h, n + 1) PROVE j \in WaitingAt(h, n)
    BY DEF WaitingAt
  <2>2. ASSUME NEW j \in WaitingAt(h, n) PROVE j \in WaitingAt(h, n + 1)
    BY <1>1 DEF WaitingAt
  <2>3. QED
    BY <2>1, <2>2
<1>3. \A j \in 1 .. (n + 1) : ~Completes(h, j, n + 1)
  BY CompletesIsWaiting
<1>4. \A x : x \in OperationsUpTo(h, n + 1) <=> x \in OperationsUpTo(h, n)
  <2>1. ASSUME NEW x PROVE x \in OperationsUpTo(h, n + 1) <=> x \in OperationsUpTo(h, n)
    <3>1. /\ 1 .. n \subseteq 1 .. (n + 1)
          /\ \A j \in 1 .. (n + 1) : j \in 1 .. n \/ j = n + 1
          /\ \A a, b \in 1 .. (n + 1) : Completes(h, a, b) => a \in 1 .. n
      BY DEF Completes
    <3>2. QED
      BY <1>3, <3>1, OperationsDef
  <2>2. QED
    BY <2>1
<1>5. QED
  BY <1>2, <1>4

(* Sequences without repetition.                                           *)
Distinct(q) == \A k, l \in DOMAIN q : q[k] = q[l] => k = l

LEMMA RemoveDistinct ==
  ASSUME NEW q, q \in Seq(Range(q)), Distinct(q), NEW k \in DOMAIN q
  PROVE  /\ RemoveAt(q, k) \in Seq(Range(RemoveAt(q, k)))
         /\ Distinct(RemoveAt(q, k))
         /\ Range(RemoveAt(q, k)) = Range(q) \ {q[k]}
<1> DEFINE T == Range(q)
<1>0. PICK n : n = Len(q)
  OBVIOUS
<1>1. q \in Seq(T) /\ n \in Nat /\ DOMAIN q = 1 .. n /\ k \in 1 .. n
  BY <1>0
<1>2. \A m \in 1 .. n : q[m] \in T
  BY <1>1 DEF Range
<1> HIDE DEF T
<1>3. PICK a, b, r : a = SubSeq(q, 1, k - 1) /\ b = SubSeq(q, k + 1, n) /\ r = RemoveAt(q, k)
  OBVIOUS
<1>4. r = a \o b
  BY <1>0, <1>3 DEF RemoveAt
<1>5. /\ a = [m \in 1 .. (k - 1) |-> q[m]] /\ a \in Seq(T) /\ Len(a) = k - 1
  BY <1>1, <1>2, <1>3
<1>6. /\ b = [m \in 1 .. (n - k) |-> q[m + k]] /\ b \in Seq(T) /\ Len(b) = n - k
  BY <1>1, <1>2, <1>3
<1>7. /\ r \in Seq(T) /\ Len(r) = n - 1 /\ DOMAIN r = 1 .. (n - 1)
      /\ \A m \in 1 .. (n - 1) : r[m] = IF m < k THEN q[m] ELSE q[m + 1]
  <2>1. /\ r \in Seq(T) /\ Len(r) = n - 1
        /\ \A m \in 1 .. (n - 1) : r[m] = IF m <= k - 1 THEN a[m] ELSE b[m - (k - 1)]
    <3>1. (k - 1) + (n - k) = n - 1
      BY <1>1
    <3>2. /\ a \o b \in Seq(T) /\ Len(a \o b) = Len(a) + Len(b)
          /\ \A m \in 1 .. Len(a) + Len(b) :
               (a \o b)[m] = IF m <= Len(a) THEN a[m] ELSE b[m - Len(a)]
      <4>1. a \in Seq(T) /\ b \in Seq(T)
        BY <1>5, <1>6
      <4>2. QED
        BY <4>1, ConcatProperties
    <3>3. Len(a) = k - 1 /\ Len(a) + Len(b) = n - 1
      BY <1>5, <1>6, <3>1
    <3>4. QED
      BY <1>4, <3>2, <3>3
  <2>2. \A m \in 1 .. (n - 1) : m < k => m \in 1 .. (k - 1)
    BY <1>1
  <2>3. \A m \in 1 .. (n - 1) : ~(m < k) => /\ m - (k - 1) \in 1 .. (n - k)
                                            /\ (m - (k - 1)) + k = m + 1
    BY <1>1
  <2>4. \A m \in 1 .. (n - 1) : m <= k - 1 <=> m < k
    BY <1>1
  <2>5. DOMAIN r = 1 .. (n - 1)
    BY <2>1
  <2>6. QED
    BY <2>1, <2>2, <2>3, <2>4, <2>5, <1>5, <1>6
<1>8. Distinct(r)
  <2>1. ASSUME NEW x \in 1 .. (n - 1), NEW y \in 1 .. (n - 1), r[x] = r[y]
        PROVE  x = y
    <3>1. PICK u \in 1 .. n : r[x] = q[u] /\ u = IF x < k THEN x ELSE x + 1
      <4>1. (IF x < k THEN x ELSE x + 1) \in 1 .. n
        BY <1>1
      <4>2. QED
        BY <4>1, <1>7
    <3>2. PICK v \in 1 .. n : r[y] = q[v] /\ v = IF y < k THEN y ELSE y + 1
      <4>1. (IF y < k THEN y ELSE y + 1) \in 1 .. n
        BY <1>1
      <4>2. QED
        BY <4>1, <1>7
    <3>3. u = v
      BY <2>1, <3>1, <3>2, <1>1 DEF Distinct
    <3>4. QED
      BY <3>1, <3>2, <3>3, <1>1
  <2>2. QED
    BY <2>1, <1>7 DEF Distinct
<1>9. Range(r) = Range(q) \ {q[k]}
  <2>1. ASSUME NEW x \in 1 .. (n - 1)
        PROVE  \E u \in 1 .. n : u # k /\ r[x] = q[u]
    <3>1. (IF x < k THEN x ELSE x + 1) \in 1 .. n /\ (IF x < k THEN x ELSE x + 1) # k
      BY <1>1
    <3>2. QED
      BY <3>1, <1>7
  <2>2. ASSUME NEW u \in 1 .. n, u # k
        PROVE  \E x \in 1 .. (n - 1) : r[x] = q[u]
    <3>1. CASE u < k
      <4>1. u \in 1 .. (n - 1)
        BY <3>1, <1>1
      <4>2. QED
        BY <3>1, <4>1, <1>7
    <3>2. CASE u > k
      <4>1. u - 1 \in 1 .. (n - 1) /\ ~(u - 1 < k) /\ (u - 1) + 1 = u
        BY <3>2, <1>1
      <4>2. QED
        BY <4>1, <1>7
    <3>3. QED
      BY <2>2, <3>1, <3>2, <1>1
  <2>3. \A u \in 1 .. n : u # k => q[u] # q[k]
    BY <1>1 DEF Distinct
  <2>4. /\ \A y : y \in Range(r) <=> \E x \in 1 .. (n - 1) : y = r[x]
        /\ \A y : y \in Range(q) <=> \E u \in 1 .. n : y = q[u]
    BY <1>1, <1>7 DEF Range
  <2>5. ASSUME NEW y \in Range(r) PROVE y \in Range(q) /\ y # q[k]
    <3>1. PICK x \in 1 .. (n - 1) : y = r[x]
      BY <2>4, <2>5
    <3>2. PICK u \in 1 .. n : u # k /\ r[x] = q[u]
      BY <2>1
    <3>3. QED
      BY <3>1, <3>2, <2>3, <2>4
  <2>6. ASSUME NEW y \in Range(q), y # q[k] PROVE y \in Range(r)
    <3>1. PICK u \in 1 .. n : y = q[u]
      BY <2>4
    <3>2. PICK x \in 1 .. (n - 1) : r[x] = q[u]
      BY <3>1, <2>2, <2>6
    <3>3. QED
      BY <3>1, <3>2, <2>4
  <2>7. QED
    BY <2>5, <2>6
<1>10. r \in Seq(Range(r))
  BY <1>7, SeqOfRange
<1>11. QED
  BY <1>3, <1>8, <1>9, <1>10

LEMMA AppendDistinct ==
  ASSUME NEW q, NEW e, q \in Seq(Range(q)), Distinct(q), e \notin Range(q)
  PROVE  /\ Append(q, e) \in Seq(Range(Append(q, e)))
         /\ Distinct(Append(q, e))
         /\ Range(Append(q, e)) = Range(q) \cup {e}
<1>1. PICK n, r : n = Len(q) /\ r = Append(q, e)
  OBVIOUS
<1>2. /\ r \in Seq(Range(r)) /\ n \in Nat /\ DOMAIN q = 1 .. n /\ DOMAIN r = 1 .. (n + 1)
      /\ \A k \in 1 .. n : r[k] = q[k]
      /\ r[n + 1] = e
  BY <1>1, AppendFacts
<1>3. \A k \in 1 .. (n + 1) : k \in 1 .. n \/ k = n + 1
  BY <1>2
<1>4. \A k \in 1 .. n : q[k] \in Range(q) /\ k \in 1 .. (n + 1)
  BY <1>2 DEF Range
<1>5. n + 1 \in 1 .. (n + 1)
  BY <1>2
<1>6. Distinct(r)
  BY <1>2, <1>3, <1>4 DEF Distinct
<1>7. Range(r) = Range(q) \cup {e}
  BY <1>2, <1>3, <1>4, <1>5 DEF Range
<1>8. QED
  BY <1>1, <1>2, <1>6, <1>7

ParseInv ==
  /\ Checkable(entries)
  /\ pos \in 1 .. (Len(entries) + 1)
  /\ pos <= Len(entries) => verdict = "none" /\ stack = <<>> /\ visited = {}
  /\ open \in Seq(Range(open)) /\ Distinct(open) /\ Range(open) = WaitingAt(entries, pos - 1)
  /\ spans \in Seq(Range(spans)) /\ Distinct(spans)
  /\ Range(spans) = OperationsUpTo(entries, pos - 1)

LEMMA ParsePosition ==
  ASSUME ParseInv, pos <= Len(entries)
  PROVE  \E n \in Nat : /\ pos = n + 1 /\ n + 1 <= Len(entries) /\ pos - 1 = n
                        /\ pos + 1 \in 1 .. (Len(entries) + 1) /\ (pos + 1) - 1 = n + 1
<1>1. Len(entries) \in Nat
  BY DEF Checkable, Sequential, ParseInv
<1>2. pos - 1 \in Nat
  BY <1>1 DEF ParseInv
<1>3. QED
  BY <1>1, <1>2 DEF ParseInv

LEMMA ParseInvokeStep ==
  ASSUME ParseInv, ParseInvoke
  PROVE  ParseInv'
<1>1. /\ pos <= Len(entries) /\ entries[pos].kind = "invoke"
      /\ open' = Append(open, pos) /\ pos' = pos + 1
      /\ entries' = entries /\ spans' = spans /\ stack' = stack /\ visited' = visited
      /\ verdict' = verdict
  BY DEF ParseInvoke, Parsing
<1>2. PICK n \in Nat : /\ pos = n + 1 /\ n + 1 <= Len(entries) /\ pos - 1 = n
                       /\ pos + 1 \in 1 .. (Len(entries) + 1) /\ (pos + 1) - 1 = n + 1
  BY <1>1, ParsePosition
<1>3. PICK h, o : h = entries /\ o = open
  OBVIOUS
<1>4. /\ WaitingAt(h, n + 1) = WaitingAt(h, n) \cup {n + 1}
      /\ OperationsUpTo(h, n + 1) = OperationsUpTo(h, n)
  BY <1>1, <1>2, <1>3, ParseInvocation DEF ParseInv
<1>5. o \in Seq(Range(o)) /\ Distinct(o) /\ Range(o) = WaitingAt(h, n)
  BY <1>2, <1>3 DEF ParseInv
<1>6. n + 1 \notin Range(o)
  BY <1>5 DEF WaitingAt
<1>7. /\ Append(o, n + 1) \in Seq(Range(Append(o, n + 1))) /\ Distinct(Append(o, n + 1))
      /\ Range(Append(o, n + 1)) = Range(o) \cup {n + 1}
  BY <1>5, <1>6, AppendDistinct
<1>8. open' = Append(o, n + 1)
  BY <1>1, <1>2, <1>3
<1>9. /\ pos' \in 1 .. (Len(entries') + 1) /\ pos' - 1 = n + 1
      /\ verdict' = "none" /\ stack' = <<>> /\ visited' = {}
  BY <1>1, <1>2 DEF ParseInv
<1>10. /\ open' \in Seq(Range(open')) /\ Distinct(open')
       /\ Range(open') = WaitingAt(entries', pos' - 1)
  BY <1>1, <1>3, <1>4, <1>5, <1>7, <1>8, <1>9
<1>11. Range(spans') = OperationsUpTo(entries', pos' - 1)
  BY <1>1, <1>2, <1>3, <1>4, <1>9 DEF ParseInv
<1>12. QED
  BY <1>1, <1>9, <1>10, <1>11 DEF ParseInv

LEMMA ParseCompletionStep ==
  ASSUME ParseInv, ParseCompletion
  PROVE  ParseInv'
<1>1. /\ pos <= Len(entries) /\ entries[pos].kind # "invoke"
      /\ pos' = pos + 1
      /\ entries' = entries /\ stack' = stack /\ visited' = visited
      /\ verdict' = verdict
  BY DEF ParseCompletion, Parsing
<1>2. PICK n \in Nat : /\ pos = n + 1 /\ n + 1 <= Len(entries) /\ pos - 1 = n
                       /\ pos + 1 \in 1 .. (Len(entries) + 1) /\ (pos + 1) - 1 = n + 1
  BY <1>1, ParsePosition
<1>3. PICK h, o, p, w : h = entries /\ o = open /\ p = h[n + 1].process /\ w = spans
  OBVIOUS
<1>4. /\ o \in Seq(Range(o)) /\ Distinct(o) /\ Range(o) = WaitingAt(h, n)
      /\ w \in Seq(Range(w)) /\ Distinct(w) /\ Range(w) = OperationsUpTo(h, n)
      /\ Checkable(h) /\ n + 1 <= Len(h) /\ h[n + 1].kind # "invoke"
  BY <1>1, <1>2, <1>3 DEF ParseInv
<1>5. /\ pos' \in 1 .. (Len(entries') + 1) /\ pos' - 1 = n + 1 /\ pos = n + 1
      /\ verdict' = "none" /\ stack' = <<>> /\ visited' = {} /\ Checkable(entries')
      /\ entries' = h
  BY <1>1, <1>2, <1>3 DEF ParseInv
<1>6. \A k \in DOMAIN o : k \in OpenOf(p) <=> h[o[k]].process = p
  BY <1>3 DEF OpenOf
<1>7. \A k \in DOMAIN o : o[k] \in WaitingAt(h, n)
  BY <1>4 DEF Range
<1>8. SUFFICES /\ open' \in Seq(Range(open')) /\ Distinct(open')
               /\ Range(open') = WaitingAt(h, n + 1)
               /\ spans' \in Seq(Range(spans')) /\ Distinct(spans')
               /\ Range(spans') = OperationsUpTo(h, n + 1)
  BY <1>5 DEF ParseInv
<1>9. CASE OpenOf(p) = {}
  <2>1. open' = o /\ spans' = w
    BY <1>1, <1>2, <1>3, <1>9 DEF ParseCompletion
  <2>2. \A i \in WaitingAt(h, n) : h[i].process # h[n + 1].process
    BY <1>3, <1>4, <1>6, <1>9 DEF Range
  <2>3. /\ WaitingAt(h, n + 1) = WaitingAt(h, n)
        /\ OperationsUpTo(h, n + 1) = OperationsUpTo(h, n)
    BY <1>4, <2>2, ParseStray
  <2>4. QED
    BY <1>4, <2>1, <2>3
<1>10. CASE OpenOf(p) # {}
  <2>1. PICK k \in OpenOf(p) : TRUE
    BY <1>10
  <2>2. k \in DOMAIN o /\ h[o[k]].process = p
    BY <2>1, <1>3, <1>6 DEF OpenOf
  <2>3. ASSUME NEW j \in OpenOf(p) PROVE j = k
    <3>1. j \in DOMAIN o /\ h[o[j]].process = p
      BY <1>3, <1>6 DEF OpenOf
    <3>2. o[j] = o[k]
      <4>1. o[j] \in WaitingAt(h, n) /\ o[k] \in WaitingAt(h, n)
        BY <2>2, <3>1, <1>7
      <4>2. n \in Nat /\ n <= Len(h)
        BY <1>2, <1>3
      <4>3. h[o[j]].process = h[o[k]].process
        BY <2>2, <3>1
      <4>4. QED
        BY <4>1, <4>2, <4>3, <1>4, WaitingAlone
    <3>3. QED
      BY <2>2, <3>1, <3>2, <1>4 DEF Distinct
  <2>4. LatestOf(p) = k
    <3>1. k \in Nat
      BY <2>2, <1>4
    <3>2. OpenOf(p) = {k}
      BY <2>1, <2>3
    <3>3. QED
      BY <3>1, <3>2 DEF LatestOf
  <2>5. PICK i : i = o[k]
    OBVIOUS
  <2>6. i \in WaitingAt(h, n) /\ h[i].process = h[n + 1].process
    BY <2>2, <2>5, <1>3, <1>7
  <2>7. /\ WaitingAt(h, n + 1) = WaitingAt(h, n) \ {i}
        /\ OperationsUpTo(h, n + 1) = OperationsUpTo(h, n) \cup NewOperations(h, i, n + 1)
    BY <2>6, <1>4, ParseCompleted
  <2>8. PICK found : found = SpanOf(i, n + 1)
    OBVIOUS
  <2>9. found = NewOperations(h, i, n + 1)
    BY <2>8, <1>3 DEF SpanOf, NewOperations
  <2>10. /\ open' = RemoveAt(o, k)
         /\ \/ found = {} /\ spans' = w
            \/ \E s \in found : spans' = Append(w, s)
    BY <1>2, <1>3, <1>10, <2>4, <2>5, <2>8 DEF ParseCompletion
  <2>11. /\ open' \in Seq(Range(open')) /\ Distinct(open')
         /\ Range(open') = WaitingAt(h, n + 1)
    BY <1>4, <2>2, <2>5, <2>7, <2>10, RemoveDistinct
  <2>12. CASE found = {}
    BY <2>7, <2>9, <2>10, <2>11, <2>12, <1>4
  <2>13. CASE found # {}
    <3>1. PICK s \in found : spans' = Append(w, s)
      BY <2>10, <2>13
    <3>2. s \in Decoded(h, i, n + 1)
      BY <2>9 DEF NewOperations
    <3>3. s \notin Range(w)
      <4>1. ASSUME s \in OperationsUpTo(h, n) PROVE FALSE
        <5>1. PICK a \in 1 .. n, b \in 1 .. n : s \in Decoded(h, a, b)
          BY <4>1, OperationsDef
        <5>2. s.finish = b /\ s.finish = n + 1
          BY <5>1, <3>2, DecodedSpan
        <5>3. QED
          BY <5>2
      <4>2. QED
        BY <4>1, <1>4
    <3>4. found = {s}
      <4>1. i \in DOMAIN h /\ n + 1 \in DOMAIN h
        BY <1>4, <2>6 DEF Checkable, Sequential, WaitingAt
      <4>2. \A d, e \in Decode(h[n + 1].f, h[i].value, h[n + 1].value) : d = e
        BY <4>1, <1>4 DEF Checkable, DecodesOnce
      <4>3. \A d, e \in Decoded(h, i, n + 1) : d = e
        BY <4>2 DEF Decoded
      <4>4. QED
        BY <4>3, <3>2, <2>9 DEF NewOperations
    <3>5. /\ spans' \in Seq(Range(spans')) /\ Distinct(spans')
          /\ Range(spans') = Range(w) \cup {s}
      BY <3>1, <3>3, <1>4, AppendDistinct
    <3>6. QED
      BY <3>4, <3>5, <2>7, <2>9, <2>11, <1>4
  <2>14. QED
    BY <2>12, <2>13
<1>11. QED
  BY <1>9, <1>10

(* The operations found are well timed.                                    *)
LEMMA ParsedWellTimed ==
  ASSUME NEW h, NEW n \in Nat, NEW q, Range(q) = OperationsUpTo(h, n)
  PROVE  WellTimed(q, DOMAIN q)
<1> SUFFICES ASSUME NEW k \in DOMAIN q
             PROVE  q[k].start \in Nat /\ q[k].finish \in Nat /\ q[k].start <= q[k].finish
  BY DEF WellTimed
<1>1. q[k] \in OperationsUpTo(h, n)
  BY DEF Range
<1>2. PICK i \in 1 .. n, j \in 1 .. n : Completes(h, i, j) /\ q[k] \in Decoded(h, i, j)
  BY <1>1, OperationsDef
<1>3. q[k].start = i /\ q[k].finish = j /\ i < j
  BY <1>2, DecodedSpan DEF Completes
<1>4. QED
  BY <1>3

LEMMA SearchParse ==
  ASSUME SearchInv, ParseInv, ParseInv', ParseInvoke \/ ParseCompletion
  PROVE  SearchInv'
<1>1. /\ stack = <<>> /\ visited = {} /\ verdict = "none"
      /\ stack' = <<>> /\ visited' = {} /\ verdict' = "none"
  BY DEF ParseInvoke, ParseCompletion, Parsing, ParseInv
<1>2. PICK h, n, q : h = entries' /\ n = pos' - 1 /\ q = spans'
  OBVIOUS
<1>3. n \in Nat /\ Range(q) = OperationsUpTo(h, n) /\ q \in Seq(Range(q))
  <2>1. Sequential(h) /\ pos' \in 1 .. (Len(h) + 1)
    BY <1>2 DEF ParseInv, Checkable
  <2>2. Len(h) \in Nat
    BY <2>1 DEF Sequential
  <2>3. n \in Nat
    <3>1. PICK m, l : m = pos' /\ l = Len(h)
      OBVIOUS
    <3>2. m \in 1 .. (l + 1) /\ l \in Nat
      BY <2>1, <2>2, <3>1
    <3>3. m - 1 \in Nat
      BY <3>2
    <3>4. QED
      BY <1>2, <3>1, <3>3
  <2>4. QED
    BY <1>2, <2>3 DEF ParseInv
<1>4. WellTimed(q, DOMAIN q)
  BY <1>3, ParsedWellTimed
<1>5. stack' \in Seq(Range(stack')) /\ DOMAIN stack' = {}
  BY <1>1
<1>6. Shapes'
  BY <1>2, <1>3, <1>4, <1>5 DEF Shapes, Span
<1>7. Nested' /\ Tried' /\ Reaches' /\ DeadEnds' /\ Decided'
  BY <1>1, <1>5 DEF Nested, Tried, Reaches, DeadEnds, Decided
<1>8. QED
  BY <1>6, <1>7 DEF SearchInv

Nodes == \A v \in visited : v = Node(v.done, v.state)

LEMMA NodesStep == Nodes /\ [Next]_vars => Nodes'
<1> SUFFICES ASSUME Nodes, [Next]_vars, NEW v \in visited'
             PROVE  v = Node(v.done, v.state)
  BY DEF Nodes
<1>1. ASSUME NEW done, NEW state, v = Node(done, state)
      PROVE  v = Node(v.done, v.state)
  BY <1>1 DEF Node
<1>2. CASE StartSearch
  BY <1>1, <1>2 DEF StartSearch, Nodes
<1>3. CASE TrySpan
  <2>1. v \in visited \/ \E done, state : v = Node(done, state)
    BY <1>3 DEF TrySpan
  <2>2. QED
    BY <1>1, <2>1 DEF Nodes
<1>4. CASE visited' = visited
  BY <1>4 DEF Nodes
<1>5. QED
  BY <1>2, <1>3, <1>4 DEF Next, ParseInvoke, ParseCompletion, Backtrack, Done, vars

(* The inductive invariant of the checker.                                 *)
CheckerInv == ParseInv /\ SearchInv /\ Nodes

(* Nothing is parsed yet.                                                  *)
Fresh ==
  /\ pos = 1 /\ open = <<>> /\ spans = <<>>
  /\ stack = <<>> /\ visited = {} /\ verdict = "none"

LEMMA CheckerFresh ==
  ASSUME Fresh, Checkable(entries)
  PROVE  CheckerInv
<1>1. Len(entries) \in Nat
  BY DEF Checkable, Sequential
<1>2. ASSUME NEW q, q = <<>>
      PROVE  q \in Seq(Range(q)) /\ Range(q) = {} /\ Distinct(q) /\ DOMAIN q = {}
  BY <1>2 DEF Range, Distinct
<1>3. WaitingAt(entries, 0) = {}
  BY DEF WaitingAt
<1>4. OperationsUpTo(entries, 0) = {}
  BY OperationsDef
<1>5. ParseInv
  <2>1. /\ Checkable(entries) /\ pos = 1 /\ pos - 1 = 0 /\ open = <<>> /\ spans = <<>>
        /\ stack = <<>> /\ visited = {} /\ verdict = "none"
    BY DEF Fresh
  <2>2. pos \in 1 .. (Len(entries) + 1)
    BY <1>1, <2>1
  <2>3. /\ open \in Seq(Range(open)) /\ Distinct(open) /\ Range(open) = {}
        /\ spans \in Seq(Range(spans)) /\ Distinct(spans) /\ Range(spans) = {}
    BY <1>2, <2>1
  <2>4. QED
    BY <1>3, <1>4, <2>1, <2>2, <2>3 DEF ParseInv
<1>6. SearchInv
  BY <1>2 DEF Fresh, SearchInv, Shapes, Nested, Tried, Reaches, DeadEnds, Decided, WellTimed, Span
<1>7. QED
  BY <1>5, <1>6 DEF CheckerInv, Nodes, Fresh

LEMMA CheckerInit == Init => CheckerInv
BY CheckerFresh, HistoriesAreCheckable DEF Init, Fresh

LEMMA CheckerStep == CheckerInv /\ [Next]_vars => CheckerInv'
<1> SUFFICES ASSUME CheckerInv, [Next]_vars
             PROVE  CheckerInv'
  OBVIOUS
<1>0. Nodes'
  BY NodesStep DEF CheckerInv
<1>1. CASE ParseInvoke
  BY <1>0, <1>1, ParseInvokeStep, SearchParse DEF CheckerInv
<1>2. CASE ParseCompletion
  BY <1>0, <1>2, ParseCompletionStep, SearchParse DEF CheckerInv
<1>3. CASE StartSearch
  <2>1. /\ pos' = pos /\ entries' = entries /\ open' = open /\ spans' = spans
        /\ ~(pos <= Len(entries))
    <3>1. Len(entries) \in Nat /\ pos \in Nat
      BY DEF Checkable, Sequential, CheckerInv, ParseInv
    <3>2. QED
      BY <1>3, <3>1 DEF StartSearch
  <2>2. ParseInv'
    BY <2>1 DEF CheckerInv, ParseInv
  <2>3. QED
    BY <1>0, <1>3, <2>2, SearchStart DEF CheckerInv
<1>4. CASE TrySpan
  <2>1. /\ pos' = pos /\ entries' = entries /\ open' = open /\ spans' = spans
        /\ ~(pos <= Len(entries))
    BY <1>4 DEF TrySpan, Searching, CheckerInv, ParseInv
  <2>2. ParseInv'
    BY <2>1 DEF CheckerInv, ParseInv
  <2>3. QED
    BY <1>0, <1>4, <2>2, SearchTry DEF CheckerInv
<1>5. CASE Backtrack
  <2>1. /\ pos' = pos /\ entries' = entries /\ open' = open /\ spans' = spans
        /\ ~(pos <= Len(entries))
    BY <1>5 DEF Backtrack, Searching, CheckerInv, ParseInv
  <2>2. ParseInv'
    BY <2>1 DEF CheckerInv, ParseInv
  <2>3. QED
    BY <1>0, <1>5, <2>2, SearchBacktrack DEF CheckerInv
<1>6. CASE Done \/ UNCHANGED vars
  <2>1. /\ entries' = entries /\ pos' = pos /\ open' = open /\ spans' = spans
        /\ stack' = stack /\ visited' = visited /\ verdict' = verdict
    BY <1>6 DEF Done, vars
  <2>2. ParseInv'
    BY <2>1 DEF CheckerInv, ParseInv
  <2>3. Shapes' /\ Nested' /\ Tried'
    BY <2>1 DEF CheckerInv, SearchInv, Shapes, Nested, CalledFrom, Tried, Span
  <2>4. Reaches' /\ DeadEnds' /\ Decided'
    BY <2>1 DEF CheckerInv, SearchInv, Reaches, DeadEnds, Decided
  <2>5. QED
    BY <1>0, <2>2, <2>3, <2>4 DEF CheckerInv, SearchInv
<1>7. QED
  BY <1>1, <1>2, <1>3, <1>4, <1>5, <1>6 DEF Next

LEMMA CheckerInvariant == Spec => []CheckerInv
<1>1. QED
  BY CheckerInit, CheckerStep, PTL DEF Spec

-----------------------------------------------------------------------------
(* The pruning is sound: a node that was expanded and is not on the call   *)
(* stack of recurse any more cannot be completed to an order of all the    *)
(* operations, so returning false at a visited node loses nothing.         *)
THEOREM PruningIsSound == Spec => []DeadEndsAreDead
<1>1. CheckerInv => DeadEndsAreDead
  <2> SUFFICES ASSUME CheckerInv, verdict = "none", NEW v \in visited
               PROVE  \/ \E k \in DOMAIN stack : Node(stack[k].done, stack[k].state) = v
                      \/ ~CanBeOrdered(spans, Span \ v.done, v.state, FinishesFirst)
    BY DEF DeadEndsAreDead
  <2>1. v = Node(v.done, v.state)
    BY DEF CheckerInv, Nodes
  <2>2. \/ \E k \in DOMAIN stack : stack[k].done = v.done /\ stack[k].state = v.state
        \/ Dead(spans, v.done, v.state)
    BY <2>1 DEF CheckerInv, SearchInv, DeadEnds
  <2>3. CASE \E k \in DOMAIN stack : stack[k].done = v.done /\ stack[k].state = v.state
    BY <2>1, <2>3
  <2>4. CASE Dead(spans, v.done, v.state)
    BY <2>4 DEF Dead, Completable, Span
  <2>5. QED
    BY <2>2, <2>3, <2>4
<1>2. QED
  BY <1>1, CheckerInvariant, PTL

(* Operations in a legal order, as a set and as a sequence.                *)
Passes(f, s, n) ==
  /\ s = [k \in 0 .. n |-> s[k]] /\ s[0] = InitState
  /\ \A k \in 1 .. n : /\ s[k] = Apply(s[k - 1], f[k].op).state
                       /\ Apply(s[k - 1], f[k].op).response = f[k].response

Lists(f, n, ops) ==
  /\ f \in [1 .. n -> ops]
  /\ \A i, j \in 1 .. n : f[i] = f[j] => i = j
  /\ \A x \in ops : \E i \in 1 .. n : f[i] = x

InOrder(f, s, n, ops) ==
  /\ Lists(f, n, ops)
  /\ \A i, j \in 1 .. n : i < j => ~FinishesFirst(f[j], f[i])
  /\ Passes(f, s, n)

LEMMA ExplainableIsInOrder ==
  ASSUME NEW ops, NEW n \in Nat, Cardinality(ops) = n
  PROVE  Explainable(ops) <=> \E f, s : InOrder(f, s, n, ops)
<1> DEFINE same == [i \in 1 .. n |-> i]
<1>1. DOMAIN same = 1 .. n /\ Len(same) = n /\ \A k \in 1 .. n : same[k] = k
  <2>1. same \in [1 .. n -> 1 .. n]
    OBVIOUS
  <2>2. QED
    BY <2>1
<1>2. Explainable(ops)
        <=> \E f \in Bijection(1 .. n, ops) :
              /\ \A i, j \in 1 .. n : i < j => ~FinishesFirst(f[j], f[i])
              /\ Legal(same, f, InitState)
  BY DEF Explainable
<1> HIDE DEF same
<1>3. ASSUME NEW f
      PROVE  Legal(same, f, InitState)
               <=> \E s : Run(s, n, same, f, InitState) /\ Responds(s, n, same, f)
  BY <1>1, LegalIsRun
<1>4. ASSUME NEW f, NEW s
      PROVE  Run(s, n, same, f, InitState) /\ Responds(s, n, same, f) <=> Passes(f, s, n)
  BY <1>1 DEF Run, Responds, Passes
<1>5. ASSUME NEW f
      PROVE  f \in Bijection(1 .. n, ops) <=> Lists(f, n, ops)
  BY DEF Bijection, Injection, Surjection, IsInjective, Lists
<1>6. ASSUME NEW f
      PROVE  (/\ f \in Bijection(1 .. n, ops)
              /\ \A i, j \in 1 .. n : i < j => ~FinishesFirst(f[j], f[i])
              /\ Legal(same, f, InitState))
             <=> \E s : InOrder(f, s, n, ops)
  <2>1. ASSUME NEW s
        PROVE  InOrder(f, s, n, ops)
                 <=> /\ f \in Bijection(1 .. n, ops)
                     /\ \A i, j \in 1 .. n : i < j => ~FinishesFirst(f[j], f[i])
                     /\ Run(s, n, same, f, InitState) /\ Responds(s, n, same, f)
    BY <1>4, <1>5 DEF InOrder
  <2>2. QED
    BY <1>3, <2>1
<1>7. QED
  BY <1>2, <1>6

LEMMA ExplainableIsCompletable ==
  ASSUME NEW q, q \in Seq(Range(q)), Distinct(q)
  PROVE  Explainable(Range(q)) <=> Completable(q, DOMAIN q, InitState)
<1>1. PICK n, T : n = Len(q) /\ T = Range(q)
  OBVIOUS
<1>2. n \in Nat /\ DOMAIN q = 1 .. n /\ \A k \in 1 .. n : q[k] \in T
  BY <1>1 DEF Range
<1>3. \A x : x \in T <=> \E k \in 1 .. n : x = q[k]
  BY <1>1, <1>2 DEF Range
<1>4. q \in [1 .. n -> T]
  <2>1. q = [k \in 1 .. n |-> q[k]]
    BY <1>1, <1>2
  <2>2. QED
    BY <1>2, <2>1
<1>5. IsFiniteSet(1 .. n) /\ Cardinality(1 .. n) = n
  BY <1>2, FS_Interval
<1>6. Cardinality(T) = n
  <2>1. q \in Bijection(1 .. n, T)
    BY <1>2, <1>3, <1>4 DEF Bijection, Injection, Surjection, IsInjective, Distinct
  <2>2. QED
    BY <2>1, <1>5, FS_Bijection DEF ExistsBijection
<1>7. Explainable(T) <=> \E f, s : InOrder(f, s, n, T)
  BY <1>2, <1>6, ExplainableIsInOrder
<1>8. Completable(q, 1 .. n, InitState)
        <=> \E g, s : Order(g, s, n, q, 1 .. n, InitState)
  BY <1>5, CompletableIsOrder
<1>9. ASSUME NEW g, NEW s, Order(g, s, n, q, 1 .. n, InitState)
      PROVE  \E f : InOrder(f, s, n, T)
  <2> DEFINE f == [k \in 1 .. n |-> q[g[k]]]
  <2>1. /\ g \in [1 .. n -> 1 .. n]
        /\ \A i, j \in 1 .. n : g[i] = g[j] => i = j
        /\ \A x \in 1 .. n : \E i \in 1 .. n : g[i] = x
        /\ KeepsTime(g, n, q) /\ Run(s, n, g, q, InitState) /\ Responds(s, n, g, q)
    BY <1>9 DEF Order
  <2>2. \A k \in 1 .. n : f[k] = q[g[k]] /\ g[k] \in 1 .. n
    BY <2>1
  <2>3. f \in [1 .. n -> T]
    BY <1>2, <2>2
  <2> HIDE DEF f
  <2>4. \A i, j \in 1 .. n : f[i] = f[j] => i = j
    BY <1>2, <2>1, <2>2 DEF Distinct
  <2>5. \A x \in T : \E i \in 1 .. n : f[i] = x
    <3>1. ASSUME NEW x \in T PROVE \E i \in 1 .. n : f[i] = x
      <4>1. PICK m \in 1 .. n : x = q[m]
        BY <1>3
      <4>2. PICK i \in 1 .. n : g[i] = m
        BY <2>1
      <4>3. QED
        BY <4>1, <4>2, <2>2
    <3>2. QED
      BY <3>1
  <2>6. \A i, j \in 1 .. n : i < j => ~FinishesFirst(f[j], f[i])
    BY <2>1, <2>2 DEF KeepsTime
  <2>7. /\ s = [k \in 0 .. n |-> s[k]] /\ s[0] = InitState
        /\ \A k \in 1 .. n : /\ s[k] = Apply(s[k - 1], f[k].op).state
                             /\ Apply(s[k - 1], f[k].op).response = f[k].response
    <3>1. ASSUME NEW k \in 1 .. n
          PROVE  /\ s[k] = Apply(s[k - 1], f[k].op).state
                 /\ Apply(s[k - 1], f[k].op).response = f[k].response
      <4>1. q[g[k]] = f[k]
        BY <2>2
      <4>2. /\ s[k] = Apply(s[k - 1], q[g[k]].op).state
            /\ Apply(s[k - 1], q[g[k]].op).response = q[g[k]].response
        BY <2>1 DEF Run, Responds
      <4>3. QED
        BY <4>1, <4>2
    <3>2. QED
      BY <2>1, <3>1 DEF Run
  <2>8. InOrder(f, s, n, T)
    BY <2>3, <2>4, <2>5, <2>6, <2>7 DEF InOrder, Lists, Passes
  <2>9. QED
    BY <2>8
<1>10. ASSUME NEW f, NEW s, InOrder(f, s, n, T)
       PROVE  \E g : Order(g, s, n, q, 1 .. n, InitState)
  <2> DEFINE g == [k \in 1 .. n |-> CHOOSE m \in 1 .. n : q[m] = f[k]]
  <2>1. /\ f \in [1 .. n -> T]
        /\ \A i, j \in 1 .. n : f[i] = f[j] => i = j
        /\ \A x \in T : \E i \in 1 .. n : f[i] = x
        /\ \A i, j \in 1 .. n : i < j => ~FinishesFirst(f[j], f[i])
        /\ s = [k \in 0 .. n |-> s[k]] /\ s[0] = InitState
        /\ \A k \in 1 .. n : /\ s[k] = Apply(s[k - 1], f[k].op).state
                             /\ Apply(s[k - 1], f[k].op).response = f[k].response
    BY <1>10 DEF InOrder, Lists, Passes
  <2>2. ASSUME NEW k \in 1 .. n PROVE g[k] \in 1 .. n /\ q[g[k]] = f[k]
    <3>1. \E m \in 1 .. n : q[m] = f[k]
      BY <2>1, <1>3
    <3>2. QED
      BY <3>1
  <2>3. g \in [1 .. n -> 1 .. n]
    BY <2>2
  <2> HIDE DEF g
  <2>4. \A i, j \in 1 .. n : g[i] = g[j] => i = j
    BY <2>1, <2>2
  <2>5. \A x \in 1 .. n : \E i \in 1 .. n : g[i] = x
    <3>1. ASSUME NEW x \in 1 .. n PROVE \E i \in 1 .. n : g[i] = x
      <4>1. PICK i \in 1 .. n : f[i] = q[x]
        BY <1>2, <2>1
      <4>2. q[g[i]] = q[x] /\ g[i] \in 1 .. n
        BY <4>1, <2>2
      <4>3. g[i] = x
        BY <4>2, <1>2 DEF Distinct
      <4>4. QED
        BY <4>3
    <3>2. QED
      BY <3>1
  <2>6. KeepsTime(g, n, q)
    BY <2>1, <2>2 DEF KeepsTime
  <2>7. Run(s, n, g, q, InitState) /\ Responds(s, n, g, q)
    <3>1. ASSUME NEW k \in 1 .. n
          PROVE  /\ s[k] = Apply(s[k - 1], q[g[k]].op).state
                 /\ Apply(s[k - 1], q[g[k]].op).response = q[g[k]].response
      <4>1. q[g[k]] = f[k]
        BY <2>2
      <4>2. QED
        BY <4>1, <2>1
    <3>2. QED
      BY <2>1, <3>1 DEF Run, Responds
  <2>8. QED
    BY <2>3, <2>4, <2>5, <2>6, <2>7 DEF Order
<1>11. QED
  BY <1>1, <1>2, <1>7, <1>8, <1>9, <1>10

LEMMA InvIsExact == CheckerInv => VerdictIsExact
<1> SUFFICES ASSUME CheckerInv, verdict # "none"
             PROVE  verdict = "valid" <=> Explainable(OperationsOf(entries))
  BY DEF VerdictIsExact
<1>1. PICK h, n, q : h = entries /\ n = Len(entries) /\ q = spans
  OBVIOUS
<1>2. DOMAIN h = 1 .. n /\ n \in Nat /\ pos - 1 = n
  <2>1. h \in Seq(Range(h)) /\ Checkable(h) /\ pos \in 1 .. (n + 1)
    BY <1>1 DEF Checkable, Sequential, CheckerInv, ParseInv
  <2>2. n \in Nat /\ DOMAIN h = 1 .. n
    BY <1>1, <2>1
  <2>3. ~(pos <= n)
    BY <1>1 DEF CheckerInv, ParseInv
  <2>4. QED
    BY <2>1, <2>2, <2>3
<1>3. OperationsOf(h) = OperationsUpTo(h, n)
  BY <1>2 DEF OperationsOf, OperationsUpTo
<1>4. q \in Seq(Range(q)) /\ Distinct(q) /\ Range(q) = OperationsOf(h)
  BY <1>1, <1>2, <1>3 DEF CheckerInv, ParseInv
<1>5. Explainable(OperationsOf(h)) <=> Completable(q, DOMAIN q, InitState)
  BY <1>4, ExplainableIsCompletable
<1>6. Dead(q, {}, InitState) <=> ~Completable(q, DOMAIN q, InitState)
  <2>1. DOMAIN q \ {} = DOMAIN q
    OBVIOUS
  <2>2. QED
    BY <2>1 DEF Dead
<1>7. /\ verdict = "valid" => ~Dead(q, {}, InitState)
      /\ verdict # "valid" => Dead(q, {}, InitState)
  BY <1>1 DEF CheckerInv, SearchInv, Decided
<1>8. QED
  BY <1>1, <1>5, <1>6, <1>7

(* The verdict is exact, for every sequential model: valid if and only if  *)
(* the operations of the history that did not fail have an order that is   *)
(* legal for the model and, in real-time mode, keeps real time.  The       *)
(* pairing of parse_spans, the test of min_finish and the visited set lose *)
(* no order and make none up.                                              *)
THEOREM VerdictExact == Spec => []VerdictIsExact
BY InvIsExact, CheckerInvariant, PTL

-----------------------------------------------------------------------------
(* Data independence: what a verdict says does not depend on which values  *)
(* were recorded, as long as the same ones are told apart.                 *)

(* The model steps alike, through states that S relates, on an op that was *)
(* decoded from f and the values v, w and on one from f and x, y.          *)
StepsAlike(S, f, v, w, x, y) ==
  /\ Decode(f, v, w) = {} <=> Decode(f, x, y) = {}
  /\ \A d \in Decode(f, v, w), e \in Decode(f, x, y) : \A s, t :
       <<s, t>> \in S =>
         /\ Apply(s, d.op).response = d.response <=> Apply(t, e.op).response = e.response
         /\ <<Apply(s, d.op).state, Apply(t, e.op).state>> \in S

Simulates(S, h, g) ==
  /\ <<InitState, InitState>> \in S
  /\ \A i, j \in DOMAIN h :
       StepsAlike(S, h[j].f, h[i].value, h[j].value, g[i].value, g[j].value)

MovesAlike(S, a, b) ==
  \A s, t :
    <<s, t>> \in S =>
      /\ Apply(s, a.op).response = a.response => Apply(t, b.op).response = b.response
      /\ <<Apply(s, a.op).state, Apply(t, b.op).state>> \in S

(* The op of g at the place of the op a.                                   *)
Same(g, a) ==
  CHOOSE b \in OperationsOf(g) : b.start = a.start /\ b.finish = a.finish

LEMMA OperationOf ==
  ASSUME NEW h, NEW a
  PROVE  a \in OperationsOf(h)
           <=> \E i, j \in DOMAIN h : /\ Completes(h, i, j) /\ h[j].kind # "fail"
                                      /\ a \in Decoded(h, i, j)
<1> DEFINE P == {q \in (DOMAIN h) \X (DOMAIN h) :
                   Completes(h, q[1], q[2]) /\ h[q[2]].kind # "fail"}
<1>1. a \in OperationsOf(h) <=> \E p \in P : a \in Decoded(h, p[1], p[2])
  BY DEF OperationsOf
<1>2. ASSUME NEW p \in P
      PROVE  /\ p[1] \in DOMAIN h /\ p[2] \in DOMAIN h
             /\ Completes(h, p[1], p[2]) /\ h[p[2]].kind # "fail"
  OBVIOUS
<1>3. ASSUME NEW i \in DOMAIN h, NEW j \in DOMAIN h, Completes(h, i, j), h[j].kind # "fail"
      PROVE  <<i, j>> \in P /\ <<i, j>>[1] = i /\ <<i, j>>[2] = j
  BY <1>3
<1> HIDE DEF P
<1>4. ASSUME NEW i \in DOMAIN h, NEW j \in DOMAIN h, Completes(h, i, j), h[j].kind # "fail",
             a \in Decoded(h, i, j)
      PROVE  \E p \in P : a \in Decoded(h, p[1], p[2])
  BY <1>3, <1>4
<1>5. QED
  BY <1>1, <1>2, <1>4

(* An op of h has one of g at its place, which the model steps alike on.   *)
LEMMA SameOperation ==
  ASSUME NEW h, NEW g, NEW S, SameShape(h, g), Simulates(S, h, g),
         NEW n \in Nat, DOMAIN h = 1 .. n, NEW a \in OperationsOf(h)
  PROVE  \E b \in OperationsOf(g) :
           b.start = a.start /\ b.finish = a.finish /\ MovesAlike(S, a, b)
<1>1. PICK i \in DOMAIN h, j \in DOMAIN h :
        /\ Completes(h, i, j) /\ h[j].kind # "fail" /\ a \in Decoded(h, i, j)
  BY OperationOf
<1>2. PICK d \in Decode(h[j].f, h[i].value, h[j].value) :
        a = [op |-> d.op, response |-> d.response, start |-> i, finish |-> j]
  BY <1>1 DEF Decoded
<1>3. StepsAlike(S, h[j].f, h[i].value, h[j].value, g[i].value, g[j].value)
  BY DEF Simulates
<1>4. PICK e \in Decode(h[j].f, g[i].value, g[j].value) : TRUE
  BY <1>2, <1>3 DEF StepsAlike
<1>5. DOMAIN g = DOMAIN h /\ \A k \in DOMAIN h : /\ g[k].kind = h[k].kind
                                                 /\ g[k].process = h[k].process
                                                 /\ g[k].f = h[k].f
  BY DEF SameShape
<1>6. Completes(g, i, j) /\ g[j].kind # "fail" /\ g[j].f = h[j].f
  <2>1. \A k \in (i + 1) .. (j - 1) : k \in DOMAIN h
    OBVIOUS
  <2>2. \A k \in (i + 1) .. (j - 1) : g[k].process = h[k].process
    BY <1>5, <2>1
  <2>3. QED
    BY <1>1, <1>5, <2>1, <2>2 DEF Completes
<1> DEFINE b == [op |-> e.op, response |-> e.response, start |-> i, finish |-> j]
<1>7. b \in OperationsOf(g)
  <2>1. b \in Decoded(g, i, j)
    BY <1>4, <1>6 DEF Decoded
  <2>2. QED
    BY <2>1, <1>5, <1>6, OperationOf
<1>8. b.op = e.op /\ b.response = e.response /\ b.start = i /\ b.finish = j
  OBVIOUS
<1>9. a.op = d.op /\ a.response = d.response /\ a.start = i /\ a.finish = j
  BY <1>2
<1> HIDE DEF b
<1>10. QED
  BY <1>3, <1>7, <1>8, <1>9 DEF StepsAlike, MovesAlike

(* An op is where it started and finished: decode yields one at most.      *)
LEMMA OneOperation ==
  ASSUME NEW h, DecodesOnce(h), NEW a \in OperationsOf(h), NEW b \in OperationsOf(h),
         a.start = b.start, a.finish = b.finish
  PROVE  a = b
<1>1. PICK i \in DOMAIN h, j \in DOMAIN h : a \in Decoded(h, i, j)
  BY OperationOf
<1>2. PICK k \in DOMAIN h, l \in DOMAIN h : b \in Decoded(h, k, l)
  BY OperationOf
<1>3. k = i /\ l = j
  BY <1>1, <1>2, DecodedSpan
<1>4. \A d, e \in Decode(h[j].f, h[i].value, h[j].value) : d = e
  BY DEF DecodesOnce
<1>5. QED
  BY <1>1, <1>2, <1>3, <1>4 DEF Decoded

(* Places of the ops of h in those of g, one to one.                       *)
LEMMA SameOperations ==
  ASSUME NEW h, NEW g, NEW S, SameShape(h, g), Simulates(S, h, g), DecodesOnce(g),
         NEW n \in Nat, DOMAIN h = 1 .. n, NEW a \in OperationsOf(h)
  PROVE  /\ Same(g, a) \in OperationsOf(g)
         /\ Same(g, a).start = a.start /\ Same(g, a).finish = a.finish
         /\ MovesAlike(S, a, Same(g, a))
<1>1. PICK b \in OperationsOf(g) :
        b.start = a.start /\ b.finish = a.finish /\ MovesAlike(S, a, b)
  BY SameOperation
<1>2. /\ Same(g, a) \in OperationsOf(g)
      /\ Same(g, a).start = a.start /\ Same(g, a).finish = a.finish
  BY <1>1, Zenon DEF Same
<1>3. Same(g, a) = b
  BY <1>1, <1>2, OneOperation
<1>4. QED
  BY <1>1, <1>2, <1>3

(* A run along the ops of h is accompanied by one along those of g.        *)
LEMMA RunsAlike ==
  ASSUME NEW h, NEW g, NEW S, SameShape(h, g), Simulates(S, h, g), DecodesOnce(g),
         NEW l \in Nat, DOMAIN h = 1 .. l,
         NEW n \in Nat, NEW f, NEW F,
         \A k \in 1 .. n : f[k] \in OperationsOf(h) /\ F[k] = Same(g, f[k]),
         NEW s, Passes(f, s, n)
  PROVE  \E t : Passes(F, t, n)
<1> DEFINE same == [k \in 1 .. n |-> k]
<1>1. \A k \in 1 .. n : same[k] = k
  OBVIOUS
<1>2. PICK t : Run(t, n, same, F, InitState)
  BY EveryRunExists DEF RunExists
<1> HIDE DEF same
<1>3. /\ t = [k \in 0 .. n |-> t[k]] /\ t[0] = InitState
      /\ \A k \in 1 .. n : t[k] = Apply(t[k - 1], F[k].op).state
  BY <1>1, <1>2 DEF Run
<1>4. \A k \in 1 .. n : /\ s[k] = Apply(s[k - 1], f[k].op).state
                        /\ Apply(s[k - 1], f[k].op).response = f[k].response
  BY DEF Passes
<1> DEFINE Apart == {k \in 0 .. n : <<s[k], t[k]>> \notin S}
<1>5. ASSUME Apart # {} PROVE FALSE
  <2>0. Apart \subseteq Nat
    OBVIOUS
  <2>1. PICK m \in Apart : \A k \in Apart : m <= k
    <3> HIDE DEF Apart
    <3>1. QED
      BY <1>5, <2>0, LeastExists
  <2>2. m # 0
    <3>1. s[0] = InitState /\ t[0] = InitState
      BY <1>3 DEF Passes
    <3>2. <<InitState, InitState>> \in S
      BY DEF Simulates
    <3>3. QED
      BY <2>1, <3>1, <3>2
  <2>3. m \in 1 .. n /\ <<s[m - 1], t[m - 1]>> \in S
    <3>1. m \in 1 .. n /\ m - 1 \in 0 .. n /\ ~(m <= m - 1)
      BY <2>1, <2>2
    <3>2. m - 1 \notin Apart
      BY <2>1, <3>1
    <3>3. QED
      BY <3>1, <3>2
  <2>4. <<Apply(s[m - 1], f[m].op).state, Apply(t[m - 1], F[m].op).state>> \in S
    BY <2>3, SameOperations DEF MovesAlike
  <2>5. QED
    BY <2>1, <2>3, <2>4, <1>3, <1>4
<1>6. ASSUME NEW k \in 1 .. n
      PROVE  Apply(t[k - 1], F[k].op).response = F[k].response
  <2>1. k - 1 \in 0 .. n
    OBVIOUS
  <2>2. <<s[k - 1], t[k - 1]>> \in S
    BY <1>5, <2>1
  <2>3. f[k] \in OperationsOf(h) /\ MovesAlike(S, f[k], F[k])
    BY SameOperations
  <2>4. QED
    BY <2>2, <2>3, <1>4 DEF MovesAlike
<1>7. Passes(F, t, n)
  BY <1>3, <1>6 DEF Passes
<1>8. QED
  BY <1>7

(* An explanation of h makes one of g.                                     *)
LEMMA ExplainedAlike ==
  ASSUME NEW h, NEW g, NEW S, SameShape(h, g),
         Simulates(S, h, g), DecodesOnce(h), DecodesOnce(g),
         NEW l \in Nat, DOMAIN h = 1 .. l,
         \A b \in OperationsOf(g) :
            \E a \in OperationsOf(h) : a.start = b.start /\ a.finish = b.finish,
         NEW n \in Nat, Cardinality(OperationsOf(h)) = n, Cardinality(OperationsOf(g)) = n,
         Explainable(OperationsOf(h))
  PROVE  Explainable(OperationsOf(g))
<1> DEFINE A == OperationsOf(h)
           B == OperationsOf(g)
<1>1. PICK f, s : InOrder(f, s, n, A)
  BY ExplainableIsInOrder
<1>2. /\ f \in [1 .. n -> A] /\ \A i, j \in 1 .. n : f[i] = f[j] => i = j
      /\ \A x \in A : \E i \in 1 .. n : f[i] = x
      /\ \A i, j \in 1 .. n : i < j => ~FinishesFirst(f[j], f[i])
      /\ Passes(f, s, n)
  BY <1>1 DEF InOrder, Lists
<1> DEFINE F == [k \in 1 .. n |-> Same(g, f[k])]
<1>3. ASSUME NEW a \in A
      PROVE  Same(g, a) \in B /\ Same(g, a).start = a.start /\ Same(g, a).finish = a.finish
  BY SameOperations
<1>4. ASSUME NEW k \in 1 .. n
      PROVE  /\ f[k] \in A /\ F[k] = Same(g, f[k])
             /\ F[k] \in B /\ F[k].start = f[k].start /\ F[k].finish = f[k].finish
  <2>1. f[k] \in A /\ F[k] = Same(g, f[k])
    BY <1>2
  <2>2. QED
    BY <2>1, <1>3
<1>5. F \in [1 .. n -> B]
  BY <1>4
<1> HIDE DEF F
<1>6. PICK t : Passes(F, t, n)
  <2>1. \A k \in 1 .. n : f[k] \in OperationsOf(h) /\ F[k] = Same(g, f[k])
    BY <1>4
  <2>2. Passes(f, s, n)
    BY <1>2
  <2>3. QED
    BY <2>1, <2>2, RunsAlike
<1>7. \A i, j \in 1 .. n : F[i] = F[j] => i = j
  <2> TAKE i \in 1 .. n, j \in 1 .. n
  <2> HAVE F[i] = F[j]
  <2>1. f[i].start = f[j].start /\ f[i].finish = f[j].finish
    BY <1>4
  <2>2. f[i] = f[j]
    BY <1>4, <2>1, OneOperation
  <2>3. QED
    BY <1>2, <2>2
<1>8. \A x \in B : \E i \in 1 .. n : F[i] = x
  <2> TAKE x \in B
  <2>1. PICK a \in A : a.start = x.start /\ a.finish = x.finish
    OBVIOUS
  <2>2. PICK i \in 1 .. n : f[i] = a
    BY <1>2
  <2>3. F[i] = x
    <3>1. F[i] \in B /\ F[i].start = x.start /\ F[i].finish = x.finish
      BY <1>4, <2>1, <2>2
    <3>2. QED
      BY <3>1, OneOperation
  <2>4. QED
    BY <2>3
<1>9. \A i, j \in 1 .. n : i < j => ~FinishesFirst(F[j], F[i])
  BY <1>2, <1>4 DEF FinishesFirst
<1>10. InOrder(F, t, n, B)
  BY <1>5, <1>6, <1>7, <1>8, <1>9 DEF InOrder, Lists
<1>11. QED
  BY <1>10, ExplainableIsInOrder

(* Histories that differ in values the model does not tell apart have      *)
(* explanations for the same reasons, in both directions.                  *)
LEMMA SameExplanations ==
  ASSUME NEW h, NEW g, NEW S, SameShape(h, g), Simulates(S, h, g),
         DecodesOnce(h), DecodesOnce(g),
         NEW l \in Nat, h = [i \in 1 .. l |-> h[i]], IsFiniteSet(OperationsOf(g))
  PROVE  Explainable(OperationsOf(h)) <=> Explainable(OperationsOf(g))
<1> DEFINE A == OperationsOf(h)
           B == OperationsOf(g)
           Back == {<<p[2], p[1]>> : p \in {q \in S : q = <<q[1], q[2]>>}}
<1>1. \A s, t : <<t, s>> \in Back <=> <<s, t>> \in S
  <2>1. ASSUME NEW s, NEW t, <<s, t>> \in S PROVE <<t, s>> \in Back
    <3>1. <<s, t>>[1] = s /\ <<s, t>>[2] = t
      OBVIOUS
    <3>2. QED
      BY <2>1, <3>1
  <2>2. ASSUME NEW s, NEW t, <<t, s>> \in Back PROVE <<s, t>> \in S
    <3>1. PICK q \in S : q = <<q[1], q[2]>> /\ <<t, s>> = <<q[2], q[1]>>
      BY <2>2
    <3>2. s = q[1] /\ t = q[2]
      BY <3>1
    <3>3. QED
      BY <3>1, <3>2
  <2>3. QED
    BY <2>1, <2>2
<1> HIDE DEF Back
<1>2. /\ DOMAIN h = 1 .. l /\ DOMAIN g = 1 .. l
      /\ \A i \in 1 .. l : /\ g[i].kind = h[i].kind /\ g[i].process = h[i].process
                           /\ g[i].f = h[i].f
  <2>1. DOMAIN h = 1 .. l
    OBVIOUS
  <2>2. QED
    BY <2>1 DEF SameShape
<1>3. SameShape(g, h)
  BY <1>2 DEF SameShape
<1>4. Simulates(Back, g, h)
  <2>1. ASSUME NEW f, NEW v, NEW w, NEW x, NEW y, StepsAlike(S, f, v, w, x, y)
        PROVE  StepsAlike(Back, f, x, y, v, w)
    <3>1. ASSUME NEW d \in Decode(f, x, y), NEW e \in Decode(f, v, w), NEW s, NEW t,
                 <<s, t>> \in Back
          PROVE  /\ Apply(s, d.op).response = d.response <=> Apply(t, e.op).response = e.response
                 /\ <<Apply(s, d.op).state, Apply(t, e.op).state>> \in Back
      <4>1. <<t, s>> \in S
        BY <1>1, <3>1
      <4>2. /\ Apply(t, e.op).response = e.response <=> Apply(s, d.op).response = d.response
            /\ <<Apply(t, e.op).state, Apply(s, d.op).state>> \in S
        BY <2>1, <4>1 DEF StepsAlike
      <4>3. QED
        BY <1>1, <4>2
    <3>2. QED
      BY <2>1, <3>1 DEF StepsAlike
  <2>2. QED
    BY <1>1, <1>2, <2>1 DEF Simulates
<1>5. \A a \in A : \E b \in B : b.start = a.start /\ b.finish = a.finish
  BY SameOperation
<1>6. ASSUME NEW b \in B
      PROVE  \E a \in A : a.start = b.start /\ a.finish = b.finish
  <2>1. \E a \in A : a.start = b.start /\ a.finish = b.finish /\ MovesAlike(Back, b, a)
    BY <1>2, <1>3, <1>4, SameOperation
  <2>2. QED
    BY <2>1
<1> DEFINE m == [a \in A |-> Same(g, a)]
<1>7. ASSUME NEW a \in A
      PROVE  m[a] \in B /\ m[a].start = a.start /\ m[a].finish = a.finish
  BY SameOperations
<1>8. m \in [A -> B]
  BY <1>7
<1> HIDE DEF m
<1>9. m \in Bijection(A, B)
  <2>1. ASSUME NEW a \in A, NEW b \in A, m[a] = m[b] PROVE a = b
    BY <1>7, <2>1, OneOperation
  <2>2. ASSUME NEW b \in B PROVE \E a \in A : m[a] = b
    <3>1. PICK a \in A : a.start = b.start /\ a.finish = b.finish
      BY <1>6
    <3>2. QED
      BY <1>7, <3>1, OneOperation
  <2>3. QED
    BY <1>8, <2>1, <2>2 DEF Bijection, Injection, Surjection, IsInjective
<1>10. PICK n \in Nat : Cardinality(A) = n /\ Cardinality(B) = n
  <2>1. IsFiniteSet(A)
    BY <1>9, FS_Injection DEF ExistsInjection, Bijection
  <2>2. QED
    BY <1>9, <2>1, FS_Bijection, FS_CardinalityType DEF ExistsBijection
<1>11. Explainable(A) => Explainable(B)
  BY <1>6, <1>10, ExplainedAlike
<1>12. Explainable(B) => Explainable(A)
  BY <1>2, <1>3, <1>4, <1>5, <1>10, ExplainedAlike
<1>13. QED
  BY <1>11, <1>12

(* A replacement of values that keeps which of them are among the known,   *)
(* and the known ones apart.  What the others become does not matter.      *)
Renaming(R, Known) ==
  \A a, b, c, d :
    <<a, b>> \in R /\ <<c, d>> \in R =>
      /\ a \in Known <=> b \in Known
      /\ a \in Known /\ c \in Known => (a = c <=> b = d)

(* The model decodes only known values, and looks at them only to compare  *)
(* them: whatever the values are replaced by, as long as the known ones    *)
(* are replaced by known ones, one to one, there is a relation of states   *)
(* that it keeps.                                                          *)
DataIndependent(Known) ==
  \A R : Renaming(R, Known) /\ <<InitState, InitState>> \in R =>
    \E S : /\ <<InitState, InitState>> \in S
           /\ \A f, v, w, x, y :
                <<v, x>> \in R /\ <<w, y>> \in R => StepsAlike(S, f, v, w, x, y)

(* decode returns an Option, whatever it is given.                         *)
DecodeIsOption == \A f, v, w : \A d, e \in Decode(f, v, w) : d = e

(* The register of propsim-oracle/tests/register_linearizable.rs: a write  *)
(* is decoded from its invocation, a read from its completion, either only *)
(* from an integer, and nothing else is decoded.                           *)
IsRegister(read, write, Ints) ==
  /\ read # write /\ InitState \in Ints
  /\ \A f, v, w :
       Decode(f, v, w) =
         IF f = write /\ v \in Ints
         THEN {[op |-> [f |-> write, value |-> v], response |-> v]}
         ELSE IF f = read /\ w \in Ints
         THEN {[op |-> [f |-> read], response |-> w]}
         ELSE {}
  /\ \A s, op :
       LET t == IF op.f = write THEN op.value ELSE s
       IN Apply(s, op) = [state |-> t, response |-> t]

(* The register only compares the integers it decodes.                     *)
LEMMA RegisterComparesOnly ==
  ASSUME NEW read, NEW write, NEW Ints, IsRegister(read, write, Ints)
  PROVE  DataIndependent(Ints) /\ DecodeIsOption
<1>1. DecodeIsOption
  BY DEF DecodeIsOption, IsRegister
<1>2. ASSUME NEW R, Renaming(R, Ints), <<InitState, InitState>> \in R
      PROVE  \E S : /\ <<InitState, InitState>> \in S
                    /\ \A f, v, w, x, y :
                         <<v, x>> \in R /\ <<w, y>> \in R => StepsAlike(S, f, v, w, x, y)
  <2> DEFINE S == {p \in R : p[1] \in Ints}
  <2>1. \A a, b : <<a, b>> \in S <=> <<a, b>> \in R /\ a \in Ints
    <3>1. \A a, b : <<a, b>>[1] = a
      OBVIOUS
    <3>2. QED
      BY <3>1
  <2> HIDE DEF S
  <2>2. <<InitState, InitState>> \in S
    BY <1>2, <2>1 DEF IsRegister
  <2>3. ASSUME NEW a, NEW b, NEW c, NEW d, <<a, b>> \in S, <<c, d>> \in S
        PROVE  a = c <=> b = d
    BY <1>2, <2>1, <2>3 DEF Renaming
  <2>4. ASSUME NEW f, NEW v, NEW w, NEW x, NEW y, <<v, x>> \in R, <<w, y>> \in R
        PROVE  StepsAlike(S, f, v, w, x, y)
    <3>1. (v \in Ints <=> x \in Ints) /\ (w \in Ints <=> y \in Ints)
      BY <1>2, <2>4 DEF Renaming
    <3>2. CASE f = write /\ v \in Ints
      <4>1. /\ Decode(f, v, w) = {[op |-> [f |-> write, value |-> v], response |-> v]}
            /\ Decode(f, x, y) = {[op |-> [f |-> write, value |-> x], response |-> x]}
        BY <3>1, <3>2 DEF IsRegister
      <4>2. ASSUME NEW s
            PROVE  /\ Apply(s, [f |-> write, value |-> v]) = [state |-> v, response |-> v]
                   /\ Apply(s, [f |-> write, value |-> x]) = [state |-> x, response |-> x]
        BY DEF IsRegister
      <4>3. <<v, x>> \in S
        BY <2>1, <2>4, <3>2
      <4>4. ASSUME NEW d \in Decode(f, v, w), NEW e \in Decode(f, x, y), NEW s, NEW t
            PROVE  /\ Apply(s, d.op).response = d.response
                   /\ Apply(t, e.op).response = e.response
                   /\ <<Apply(s, d.op).state, Apply(t, e.op).state>> \in S
        <5>1. /\ d.op = [f |-> write, value |-> v] /\ d.response = v
              /\ e.op = [f |-> write, value |-> x] /\ e.response = x
          BY <4>1
        <5>2. /\ Apply(s, d.op) = [state |-> v, response |-> v]
              /\ Apply(t, e.op) = [state |-> x, response |-> x]
          BY <4>2, <5>1
        <5>3. QED
          BY <4>3, <5>1, <5>2
      <4>5. QED
        BY <4>1, <4>4 DEF StepsAlike
    <3>3. CASE ~(f = write /\ v \in Ints) /\ f = read /\ w \in Ints
      <4>1. /\ Decode(f, v, w) = {[op |-> [f |-> read], response |-> w]}
            /\ Decode(f, x, y) = {[op |-> [f |-> read], response |-> y]}
        BY <3>1, <3>3 DEF IsRegister
      <4>2. ASSUME NEW s
            PROVE  Apply(s, [f |-> read]) = [state |-> s, response |-> s]
        <5>1. PICK op : op = [f |-> read]
          OBVIOUS
        <5>2. op.f # write
          BY <5>1 DEF IsRegister
        <5>3. Apply(s, op) = [state |-> s, response |-> s]
          BY <5>2 DEF IsRegister
        <5>4. QED
          BY <5>1, <5>3
      <4>3. <<w, y>> \in S
        BY <2>1, <2>4, <3>3
      <4>4. ASSUME NEW s, NEW t, <<s, t>> \in S PROVE s = w <=> t = y
        BY <2>3, <4>3, <4>4
      <4>5. ASSUME NEW d \in Decode(f, v, w), NEW e \in Decode(f, x, y), NEW s, NEW t,
                   <<s, t>> \in S
            PROVE  /\ Apply(s, d.op).response = d.response
                        <=> Apply(t, e.op).response = e.response
                   /\ <<Apply(s, d.op).state, Apply(t, e.op).state>> \in S
        <5>1. /\ d.op = [f |-> read] /\ d.response = w
              /\ e.op = [f |-> read] /\ e.response = y
          BY <4>1
        <5>2. /\ Apply(s, d.op) = [state |-> s, response |-> s]
              /\ Apply(t, e.op) = [state |-> t, response |-> t]
          BY <4>2, <5>1
        <5>3. QED
          BY <4>4, <4>5, <5>1, <5>2
      <4>6. QED
        BY <4>1, <4>5 DEF StepsAlike
    <3>4. CASE ~(f = write /\ v \in Ints) /\ ~(f = read /\ w \in Ints)
      <4>1. Decode(f, v, w) = {} /\ Decode(f, x, y) = {}
        BY <3>1, <3>4 DEF IsRegister
      <4>2. QED
        BY <4>1 DEF StepsAlike
    <3>5. QED
      BY <3>2, <3>3, <3>4
  <2>5. QED
    BY <2>2, <2>4
<1>3. DataIndependent(Ints)
  BY <1>2 DEF DataIndependent
<1>4. QED
  BY <1>1, <1>3

(* The journey kept which values are known, and the known ones apart; the  *)
(* initial state, often a value, counts as one.                            *)
ToldApart(Known) ==
  LET values(h) == <<InitState>> \o [i \in DOMAIN h |-> h[i].value]
      before == values(recorded)
      after == values(entries)
  IN \A i, j \in DOMAIN before :
       /\ before[i] \in Known <=> after[i] \in Known
       /\ before[i] \in Known /\ before[j] \in Known
            => (before[i] = before[j] <=> after[i] = after[j])

(* The values of two histories, told apart alike, are a renaming of each   *)
(* other.                                                                  *)
LEMMA ToldApartRenames ==
  ASSUME NEW Known, ToldApart(Known), SameShape(recorded, entries), NEW n \in Nat,
         recorded = [i \in 1 .. n |-> recorded[i]]
  PROVE  \E R : /\ Renaming(R, Known) /\ <<InitState, InitState>> \in R
                /\ \A i \in 1 .. n : <<recorded[i].value, entries[i].value>> \in R
<1> DEFINE values(h) == <<InitState>> \o [i \in DOMAIN h |-> h[i].value]
           before == values(recorded)
           after == values(entries)
           R == {<<before[i], after[i]>> : i \in 1 .. (n + 1)}
<1>1. DOMAIN recorded = 1 .. n /\ DOMAIN entries = 1 .. n
  <2>1. DOMAIN recorded = 1 .. n
    OBVIOUS
  <2>2. QED
    BY <2>1 DEF SameShape
<1>2. ASSUME NEW h, DOMAIN h = 1 .. n
      PROVE  /\ DOMAIN values(h) = 1 .. (n + 1)
             /\ values(h)[1] = InitState
             /\ \A i \in 1 .. n : values(h)[i + 1] = h[i].value
  <2> DEFINE own == [i \in DOMAIN h |-> h[i].value]
             V == {own[i] : i \in 1 .. n} \cup {InitState}
  <2>1. own \in Seq(V) /\ Len(own) = n /\ \A i \in 1 .. n : own[i] = h[i].value
    BY <1>2
  <2>2. <<InitState>> \in Seq(V) /\ Len(<<InitState>>) = 1
    OBVIOUS
  <2> HIDE DEF own, V
  <2>3. \A i \in 1 .. n : i + 1 > 1 /\ (i + 1) - 1 = i /\ i + 1 \in 1 .. (1 + n)
    OBVIOUS
  <2>4. QED
    BY <2>1, <2>2, <2>3 DEF own
<1>3. \A i, j \in 1 .. (n + 1) :
        /\ before[i] \in Known <=> after[i] \in Known
        /\ before[i] \in Known /\ before[j] \in Known
             => (before[i] = before[j] <=> after[i] = after[j])
  <2>1. \A i, j \in DOMAIN before :
          /\ before[i] \in Known <=> after[i] \in Known
          /\ before[i] \in Known /\ before[j] \in Known
               => (before[i] = before[j] <=> after[i] = after[j])
    BY Zenon DEF ToldApart
  <2>2. DOMAIN before = 1 .. (n + 1)
    BY <1>1, <1>2
  <2> HIDE DEF before, after
  <2>3. QED
    BY <2>1, <2>2
<1>4. Renaming(R, Known)
  <2> HIDE DEF before, after
  <2>1. QED
    BY <1>3 DEF Renaming
<1>5. 1 \in 1 .. (n + 1) /\ \A i \in 1 .. n : i + 1 \in 1 .. (n + 1)
  OBVIOUS
<1>6. /\ before[1] = InitState /\ after[1] = InitState
      /\ \A i \in 1 .. n : before[i + 1] = recorded[i].value /\ after[i + 1] = entries[i].value
  BY <1>1, <1>2
<1> HIDE DEF before, after
<1>7. \A i \in 1 .. (n + 1) : <<before[i], after[i]>> \in R
  OBVIOUS
<1> HIDE DEF R
<1>8. QED
  BY <1>4, <1>5, <1>6, <1>7

-----------------------------------------------------------------------------
(* The verdict on a history that travelled.                                *)

(* Nothing is parsed before the last journey is over, and what is then     *)
(* checked is checked as if it had been recorded.                          *)
TravelInv ==
  /\ Checkable(recorded)
  /\ stage # "memory" \/ route # <<>> => Fresh
  /\ Checkable(entries) => CheckerInv

LEMMA TravelInit == IngestionInit => TravelInv
BY CheckerInit, HistoriesAreCheckable DEF IngestionInit, Init, TravelInv, Fresh

LEMMA TravelStep == TravelInv /\ [IngestionNext]_journey => TravelInv'
<1> SUFFICES ASSUME TravelInv, [IngestionNext]_journey
             PROVE  TravelInv'
  OBVIOUS
<1>1. ASSUME Fresh', recorded' = recorded
      PROVE  TravelInv'
  <2>1. Checkable(entries)' => CheckerInv'
    BY <1>1, CheckerFresh, PTL
  <2>2. QED
    BY <1>1, <2>1 DEF TravelInv
<1>2. ASSUME UNCHANGED vars, Fresh PROVE Fresh'
  BY <1>2 DEF vars, Fresh
<1>3. CASE Export
  BY <1>1, <1>2, <1>3 DEF Export, TravelInv
<1>4. CASE Import
  <2>1. Fresh /\ recorded' = recorded
    BY <1>4 DEF Import, TravelInv
  <2>2. Fresh'
    BY <1>4, <2>1 DEF Import, Fresh
  <2>3. QED
    BY <1>1, <2>1, <2>2
<1>5. CASE Abandon
  BY <1>1, <1>2, <1>5 DEF Abandon, travelVars, TravelInv
<1>6. CASE Check \/ UNCHANGED journey
  <2>1. [Next]_vars /\ UNCHANGED travelVars
    BY <1>6 DEF Check, journey
  <2>2. /\ recorded' = recorded /\ stage' = stage /\ route' = route
        /\ entries' = entries
    BY <2>1 DEF travelVars, vars, Next, ParseInvoke, ParseCompletion, StartSearch, TrySpan,
                Backtrack, Done
  <2>3. Checkable(entries') => CheckerInv'
    BY <2>1, <2>2, CheckerStep DEF TravelInv
  <2>4. stage # "memory" \/ route # <<>> => Fresh'
    BY <1>2, <1>6 DEF Check, TravelInv, journey
  <2>5. QED
    BY <2>2, <2>3, <2>4 DEF TravelInv
<1>7. QED
  BY <1>3, <1>4, <1>5, <1>6 DEF IngestionNext

(* What was parsed is finite.                                              *)
LEMMA ParsedOperations ==
  ASSUME CheckerInv, verdict # "none"
  PROVE  IsFiniteSet(OperationsOf(entries))
<1>1. PICK h, n, q : h = entries /\ n = Len(entries) /\ q = spans
  OBVIOUS
<1>2. DOMAIN h = 1 .. n /\ n \in Nat /\ pos - 1 = n
  <2>1. h \in Seq(Range(h)) /\ pos \in 1 .. (n + 1) /\ ~(pos <= n)
    BY <1>1 DEF Checkable, Sequential, CheckerInv, ParseInv
  <2>2. n \in Nat /\ DOMAIN h = 1 .. n
    BY <1>1, <2>1
  <2>3. QED
    BY <2>1, <2>2
<1>3. OperationsOf(h) = OperationsUpTo(h, n)
  BY <1>2 DEF OperationsOf, OperationsUpTo
<1>4. q \in Seq(Range(q)) /\ Range(q) = OperationsOf(h)
  BY <1>1, <1>2, <1>3 DEF CheckerInv, ParseInv
<1>5. PICK m \in Nat : DOMAIN q = 1 .. m /\ IsFiniteSet(DOMAIN q)
  BY <1>4, FS_Interval
<1>6. q \in Surjection(DOMAIN q, Range(q))
  BY <1>4 DEF Surjection, Range
<1>7. QED
  BY <1>1, <1>4, <1>5, <1>6, FS_Surjection

(* A history that came out of files is checked as exactly as one that was  *)
(* recorded here, if it is one of sequential clients (from_jepsen, then    *)
(* check).                                                                 *)
THEOREM ImportsAreJudged ==
  IngestionSpec => [](Checkable(entries) => VerdictIsExact)
<1>1. TravelInv => (Checkable(entries) => VerdictIsExact)
  BY InvIsExact DEF TravelInv
<1>2. QED
  BY <1>1, TravelInit, TravelStep, PTL DEF IngestionSpec

(* What is then judged has the explanations of what was recorded.          *)
LEMMA TravelledVerdict ==
  ASSUME NEW Known, DataIndependent(Known), DecodeIsOption,
         TravelInv, SameShape(recorded, entries), ToldApart(Known)
  PROVE  VerdictSurvivesTravel
<1> SUFFICES ASSUME verdict # "none"
             PROVE  verdict = "valid" <=> Explainable(OperationsOf(recorded))
  BY DEF VerdictSurvivesTravel
<1>1. PICK h, g : h = recorded /\ g = entries
  OBVIOUS
<1>2. h \in Seq(Range(h)) /\ Sequential(h) /\ DecodesOnce(h)
  BY <1>1 DEF TravelInv, Checkable, Sequential
<1>3. PICK n \in Nat : h = [i \in 1 .. n |-> h[i]] /\ DOMAIN h = 1 .. n
  BY <1>2
<1>4. /\ g = [i \in 1 .. n |-> g[i]] /\ DOMAIN g = 1 .. n
      /\ \A i \in 1 .. n : /\ g[i].kind = h[i].kind /\ g[i].process = h[i].process
                           /\ g[i].f = h[i].f
  BY <1>1, <1>3 DEF SameShape
<1>5. Checkable(g)
  <2>1. g \in Seq(Range(g))
    <3>1. g \in [1 .. n -> Range(g)]
      BY <1>4 DEF Range
    <3>2. QED
      BY <3>1
  <2>2. Sequential(g)
    <3>1. ASSUME NEW i \in 1 .. n, NEW j \in 1 .. n,
                 i < j, g[i].kind = "invoke", g[j].kind = "invoke", g[i].process = g[j].process
          PROVE  \E k \in (i + 1) .. (j - 1) :
                   g[k].process = g[i].process /\ g[k].kind # "invoke"
      <4>1. /\ h[i].kind = "invoke" /\ h[j].kind = "invoke"
            /\ h[i].process = h[j].process
            /\ i \in DOMAIN h /\ j \in DOMAIN h
        BY <1>3, <1>4, <3>1
      <4>2. PICK k \in (i + 1) .. (j - 1) :
              h[k].process = h[i].process /\ h[k].kind # "invoke"
        BY <1>2, <3>1, <4>1 DEF Sequential
      <4>3. k \in 1 .. n
        OBVIOUS
      <4>4. QED
        BY <1>4, <4>1, <4>2, <4>3
    <3>2. QED
      BY <1>4, <2>1, <3>1 DEF Sequential
  <2>3. DecodesOnce(g)
    BY DEF DecodeIsOption, DecodesOnce
  <2>4. QED
    BY <2>2, <2>3 DEF Checkable
<1>6. CheckerInv /\ (verdict = "valid" <=> Explainable(OperationsOf(g)))
  BY <1>1, <1>5, InvIsExact DEF TravelInv, VerdictIsExact
<1>7. IsFiniteSet(OperationsOf(g))
  BY <1>1, <1>6, ParsedOperations
<1>8. PICK R : /\ Renaming(R, Known) /\ <<InitState, InitState>> \in R
               /\ \A i \in 1 .. n : <<h[i].value, g[i].value>> \in R
  BY <1>1, <1>3, ToldApartRenames
<1>9. PICK S : /\ <<InitState, InitState>> \in S
               /\ \A f, v, w, x, y :
                    <<v, x>> \in R /\ <<w, y>> \in R => StepsAlike(S, f, v, w, x, y)
  BY <1>8 DEF DataIndependent
<1>10. Simulates(S, h, g)
  BY <1>3, <1>8, <1>9 DEF Simulates
<1>11. SameShape(h, g) /\ DecodesOnce(g)
  BY <1>1, <1>5 DEF Checkable
<1>12. Explainable(OperationsOf(h)) <=> Explainable(OperationsOf(g))
  BY <1>2, <1>3, <1>7, <1>10, <1>11, SameExplanations
<1>13. QED
  BY <1>1, <1>6, <1>12

(* A journey keeps the verdict if it keeps kinds, processes and functions, *)
(* replaces values that the model decodes by such values and others by     *)
(* others, and tells the former apart: for every encoding and every model  *)
(* that only compares the values it decodes.                               *)
THEOREM VerdictTravels ==
  ASSUME NEW CONSTANT Known, DataIndependent(Known), DecodeIsOption
  PROVE  IngestionSpec =>
           [](SameShape(recorded, entries) /\ ToldApart(Known) => VerdictSurvivesTravel)
<1>1. TravelInv => (SameShape(recorded, entries) /\ ToldApart(Known) => VerdictSurvivesTravel)
  BY TravelledVerdict
<1>2. QED
  BY <1>1, TravelInit, TravelStep, PTL DEF IngestionSpec

(* So it is for the register: a journey that keeps its integers apart, and *)
(* makes none of another value, keeps the verdict.                         *)
COROLLARY RegisterVerdictTravels ==
  ASSUME NEW CONSTANT read, NEW CONSTANT write, NEW CONSTANT Ints,
         IsRegister(read, write, Ints)
  PROVE  IngestionSpec =>
           [](SameShape(recorded, entries) /\ ToldApart(Ints) => VerdictSurvivesTravel)
<1>1. TravelInv => (SameShape(recorded, entries) /\ ToldApart(Ints) => VerdictSurvivesTravel)
  BY RegisterComparesOnly, TravelledVerdict
<1>2. QED
  BY <1>1, TravelInit, TravelStep, PTL DEF IngestionSpec

-----------------------------------------------------------------------------
(* The end of a check.                                                     *)

(* The recursion is as deep as there are operations in its order, at most  *)
(* as deep as there are operations: each of its loops is within the spans, *)
(* and at most one span is made of each entry.                             *)
LoopInv ==
  /\ Len(spans) < pos
  /\ \A k \in DOMAIN stack : /\ Cardinality(stack[k].done) = k - 1
                             /\ stack[k].next <= Len(spans) + 1

LEMMA CheckFacts ==
  ASSUME CheckerInv
  PROVE  /\ Len(entries) \in Nat /\ pos \in 1 .. (Len(entries) + 1)
         /\ spans \in Seq(Range(spans)) /\ Len(spans) \in Nat /\ Span = 1 .. Len(spans)
         /\ IsFiniteSet(Span) /\ Cardinality(Span) = Len(spans)
         /\ Len(stack) \in Nat /\ DOMAIN stack = 1 .. Len(stack)
         /\ stack # <<>> => Len(stack) # 0
         /\ \A k \in DOMAIN stack : stack[k].done \subseteq Span /\ stack[k].done # Span
                                    /\ stack[k].next \in Nat \ {0}
         /\ pos <= Len(entries) => stack = <<>>
<1>1. Len(entries) \in Nat /\ pos \in 1 .. (Len(entries) + 1)
  BY DEF Checkable, Sequential, CheckerInv, ParseInv
<1>2. spans \in Seq(Range(spans)) /\ stack \in Seq(Range(stack))
  BY DEF CheckerInv, SearchInv, Shapes
<1>3. Len(spans) \in Nat /\ Span = 1 .. Len(spans)
  BY <1>2 DEF Span
<1>4. IsFiniteSet(1 .. Len(spans)) /\ Cardinality(1 .. Len(spans)) = Len(spans)
  <2>1. ASSUME NEW n \in Nat
        PROVE  IsFiniteSet(1 .. n) /\ Cardinality(1 .. n) = n
    BY FS_Interval
  <2>2. QED
    BY <1>3, <2>1
<1>5. Len(stack) \in Nat /\ DOMAIN stack = 1 .. Len(stack)
  BY <1>2
<1>6. stack # <<>> => Len(stack) # 0
  BY <1>2, EmptySeq
<1>7. QED
  BY <1>1, <1>2, <1>3, <1>4, <1>5, <1>6 DEF CheckerInv, ParseInv, SearchInv, Shapes

LEMMA RecursionIsBounded ==
  ASSUME CheckerInv, LoopInv, NEW k \in DOMAIN stack
  PROVE  k <= Len(spans)
<1>1. /\ stack[k].done \subseteq Span /\ stack[k].done # Span /\ IsFiniteSet(Span)
      /\ Cardinality(Span) = Len(spans) /\ k \in Nat /\ Len(spans) \in Nat
  BY CheckFacts
<1>2. /\ Cardinality(stack[k].done) \in Nat
      /\ Cardinality(stack[k].done) < Cardinality(Span)
  BY <1>1, FS_Subset, FS_CardinalityType
<1>3. Cardinality(stack[k].done) = k - 1
  BY DEF LoopInv
<1>4. QED
  BY <1>1, <1>2, <1>3

(* The loop of the top activation goes on, with m activations afterwards.  *)
GoesOn(m) ==
  /\ verdict' = verdict /\ DOMAIN stack' = 1 .. m /\ stack' # <<>>
  /\ \A k \in 1 .. Len(stack) :
       /\ stack'[k].done = stack[k].done
       /\ stack'[k].next = IF k = Len(stack) THEN stack[k].next + 1 ELSE stack[k].next

Calls ==
  /\ GoesOn(Len(stack) + 1)
  /\ stack[Len(stack)].next \notin stack[Len(stack)].done
  /\ stack'[Len(stack) + 1].done = stack[Len(stack)].done \cup {stack[Len(stack)].next}
  /\ stack'[Len(stack) + 1].next = 1

LEMMA TrySpanMoves ==
  ASSUME CheckerInv, TrySpan
  PROVE  /\ verdict = "none" /\ stack # <<>> /\ Len(stack) \in DOMAIN stack
         /\ stack[Len(stack)].next \in Span
         /\ entries' = entries /\ pos' = pos /\ spans' = spans
         /\ \/ verdict' = "valid" /\ stack' = stack
            \/ GoesOn(Len(stack))
            \/ Calls
<1>1. /\ verdict = "none" /\ stack # <<>> /\ top.next \in Span
      /\ entries' = entries /\ pos' = pos /\ spans' = spans
  BY DEF TrySpan, Searching
<1>2. PICK last, child, after :
        /\ last = Len(stack) /\ child = top.done \cup {top.next}
        /\ after = Apply(top.state, spans[top.next].op).state
  OBVIOUS
<1>3. /\ last \in Nat \ {0} /\ DOMAIN stack = 1 .. last /\ top = stack[last]
      /\ Advance \in Seq(Range(Advance)) /\ Len(Advance) = last
      /\ DOMAIN Advance = 1 .. last
      /\ \A k \in 1 .. last :
           /\ Advance[k].done = stack[k].done
           /\ Advance[k].next = IF k = last THEN stack[k].next + 1 ELSE stack[k].next
  BY <1>1, <1>2, AdvanceFacts DEF CheckerInv, SearchInv
<1>4. \/ verdict' = "valid" /\ stack' = stack
      \/ verdict' = verdict /\ stack' = Advance
      \/ /\ verdict' = verdict /\ top.next \notin top.done
         /\ stack' = Append(Advance, Frame(child, after))
  BY <1>2 DEF TrySpan
<1>5. CASE verdict' = verdict /\ stack' = Advance
  <2>1. stack' # <<>>
    BY <1>3, <1>5
  <2>2. GoesOn(Len(stack))
    BY <1>2, <1>3, <1>5, <2>1 DEF GoesOn
  <2>3. QED
    BY <1>1, <1>2, <1>3, <2>2
<1>6. CASE /\ verdict' = verdict /\ top.next \notin top.done
           /\ stack' = Append(Advance, Frame(child, after))
  <2>1. PICK q, e : q = Advance /\ e = Frame(child, after)
    OBVIOUS
  <2>2. /\ DOMAIN stack' = 1 .. (last + 1)
        /\ \A k \in 1 .. last : stack'[k] = Advance[k]
        /\ stack'[last + 1] = e
    <3>1. q \in Seq(Range(q)) /\ Len(q) = last /\ stack' = Append(q, e)
      BY <1>3, <1>6, <2>1
    <3>2. QED
      BY <2>1, <3>1, AppendFacts
  <2>3. e.done = child /\ e.next = 1
    BY <2>1 DEF Frame
  <2>4. stack' # <<>>
    BY <1>3, <2>2
  <2>5. GoesOn(last + 1)
    <3>1. \A k \in 1 .. last :
            /\ stack'[k].done = stack[k].done
            /\ stack'[k].next = IF k = last THEN stack[k].next + 1 ELSE stack[k].next
      BY <1>3, <2>2
    <3>2. QED
      BY <1>2, <1>6, <2>2, <2>4, <3>1 DEF GoesOn
  <2>6. Calls
    BY <1>2, <1>3, <1>6, <2>2, <2>3, <2>5 DEF Calls
  <2>7. QED
    BY <1>1, <1>2, <1>3, <2>6
<1>7. QED
  BY <1>1, <1>2, <1>3, <1>4, <1>5, <1>6

LEMMA BacktrackMoves ==
  ASSUME CheckerInv, Backtrack
  PROVE  /\ verdict = "none" /\ stack # <<>> /\ Len(stack) \in DOMAIN stack
         /\ entries' = entries /\ pos' = pos /\ spans' = spans
         /\ DOMAIN stack' = 1 .. (Len(stack) - 1)
         /\ \A k \in 1 .. (Len(stack) - 1) : stack'[k] = stack[k]
         /\ verdict' = IF Len(stack) = 1 THEN "invalid" ELSE verdict
<1>1. /\ verdict = "none" /\ stack # <<>>
      /\ entries' = entries /\ pos' = pos /\ spans' = spans
      /\ stack' = Front(stack)
      /\ verdict' = IF Len(stack) = 1 THEN "invalid" ELSE verdict
  BY DEF Backtrack, Searching
<1>2. PICK q : q = stack
  OBVIOUS
<1>3. q \in Seq(Range(q)) /\ q # <<>>
  BY <1>1, <1>2 DEF CheckerInv, SearchInv, Shapes
<1>4. /\ Len(q) \in Nat \ {0} /\ DOMAIN q = 1 .. Len(q)
      /\ DOMAIN Front(q) = 1 .. (Len(q) - 1)
      /\ \A k \in 1 .. (Len(q) - 1) : Front(q)[k] = q[k]
  BY <1>3, FrontFacts
<1>5. QED
  BY <1>1, <1>2, <1>4

LEMMA LoopInit == Init => LoopInv
<1> SUFFICES ASSUME Init
             PROVE  LoopInv
  OBVIOUS
<1>1. spans = <<>> /\ stack = <<>> /\ pos = 1
  BY DEF Init
<1>2. Len(<<>>) = 0 /\ DOMAIN <<>> = {}
  OBVIOUS
<1>3. QED
  BY <1>1, <1>2 DEF LoopInv

LEMMA LoopStep == CheckerInv /\ LoopInv /\ [Next]_vars => LoopInv'
<1> SUFFICES ASSUME CheckerInv, LoopInv, [Next]_vars
             PROVE  LoopInv'
  OBVIOUS
<1>0. /\ Len(entries) \in Nat /\ pos \in Nat /\ Len(spans) \in Nat /\ Len(spans) < pos
      /\ Span = 1 .. Len(spans) /\ IsFiniteSet(Span)
      /\ Len(stack) \in Nat /\ DOMAIN stack = 1 .. Len(stack)
      /\ pos <= Len(entries) => stack = <<>>
  BY CheckFacts DEF LoopInv
<1>1. CASE ParseInvoke
  <2>1. pos' = pos + 1 /\ spans' = spans /\ stack' = stack
    BY <1>1 DEF ParseInvoke
  <2>2. QED
    BY <1>0, <2>1 DEF LoopInv
<1>2. CASE ParseCompletion
  <2>1. pos' = pos + 1 /\ stack' = stack /\ stack = <<>>
    BY <1>2 DEF ParseCompletion, Parsing
  <2>2. spans' = spans \/ \E s : spans' = Append(spans, s)
    BY <1>2 DEF ParseCompletion
  <2>3. Len(spans') \in Nat /\ Len(spans') <= Len(spans) + 1
    <3>1. CASE spans' = spans
      BY <1>0, <3>1
    <3>2. CASE \E s : spans' = Append(spans, s)
      <4>1. PICK q, s : q = spans /\ spans' = Append(q, s)
        BY <3>2
      <4>2. q \in Seq(Range(q)) /\ Len(q) = Len(spans)
        BY <4>1, CheckFacts
      <4>3. Len(Append(q, s)) = Len(q) + 1
        BY <4>2, AppendFacts
      <4>4. QED
        BY <1>0, <4>1, <4>2, <4>3
    <3>3. QED
      BY <2>2, <3>1, <3>2
  <2>4. QED
    BY <1>0, <2>1, <2>3 DEF LoopInv
<1>3. CASE StartSearch
  <2>1. pos' = pos /\ spans' = spans /\ stack = <<>>
    BY <1>3 DEF StartSearch
  <2>2. CASE stack' = stack
    BY <2>1, <2>2 DEF LoopInv
  <2>3. CASE stack' = <<Frame({}, InitState)>>
    <3>1. PICK f : f = Frame({}, InitState)
      OBVIOUS
    <3>2. f.done = {} /\ f.next = 1
      BY <3>1 DEF Frame
    <3>3. DOMAIN stack' = {1} /\ stack'[1] = f
      BY <2>3, <3>1
    <3>4. Cardinality({}) = 0
      BY FS_EmptySet
    <3>5. Cardinality(stack'[1].done) = 1 - 1 /\ stack'[1].next <= Len(spans) + 1
      <4>1. stack'[1].done = {} /\ stack'[1].next = 1
        BY <3>2, <3>3
      <4>2. 1 <= Len(spans) + 1 /\ 1 - 1 = 0
        BY <1>0
      <4>3. QED
        BY <3>4, <4>1, <4>2
    <3>6. \A k \in DOMAIN stack' : /\ Cardinality(stack'[k].done) = k - 1
                                   /\ stack'[k].next <= Len(spans) + 1
      BY <3>3, <3>5
    <3>7. QED
      BY <1>0, <2>1, <3>6 DEF LoopInv
  <2>4. QED
    BY <1>3, <2>2, <2>3 DEF StartSearch
<1>4. CASE TrySpan
  <2>1. /\ Len(stack) \in DOMAIN stack /\ stack[Len(stack)].next \in Span
        /\ pos' = pos /\ spans' = spans
        /\ stack' = stack \/ GoesOn(Len(stack)) \/ Calls
    BY <1>4, TrySpanMoves
  <2>2. CASE stack' = stack
    BY <2>1, <2>2 DEF LoopInv
  <2>3. ASSUME NEW m, GoesOn(m), NEW k \in 1 .. Len(stack)
        PROVE  Cardinality(stack'[k].done) = k - 1 /\ stack'[k].next <= Len(spans) + 1
    <3>1. Cardinality(stack[k].done) = k - 1 /\ stack[k].next <= Len(spans) + 1
      BY <1>0 DEF LoopInv
    <3>2. /\ stack'[k].done = stack[k].done
          /\ stack'[k].next = IF k = Len(stack) THEN stack[k].next + 1 ELSE stack[k].next
      BY <2>3 DEF GoesOn
    <3>3. CASE k = Len(stack)
      <4>1. stack[k].next \in 1 .. Len(spans)
        BY <1>0, <2>1, <3>3
      <4>2. stack[k].next + 1 <= Len(spans) + 1
        BY <1>0, <4>1
      <4>3. QED
        BY <3>1, <3>2, <3>3, <4>2
    <3>4. QED
      BY <3>1, <3>2, <3>3
  <2>4. CASE GoesOn(Len(stack))
    BY <1>0, <2>1, <2>3, <2>4 DEF GoesOn, LoopInv
  <2>5. CASE Calls
    <3>1. PICK n, done, i : /\ n = Len(stack) /\ done = stack[Len(stack)].done
                            /\ i = stack[Len(stack)].next
      OBVIOUS
    <3>2. /\ GoesOn(n + 1) /\ i \notin done
          /\ stack'[n + 1].done = done \cup {i} /\ stack'[n + 1].next = 1
      BY <2>5, <3>1 DEF Calls
    <3>3. IsFiniteSet(done) /\ Cardinality(done) = n - 1
      <4>1. done \subseteq Span
        BY <2>1, <3>1, CheckFacts
      <4>2. Cardinality(done) = n - 1
        BY <2>1, <3>1 DEF LoopInv
      <4>3. QED
        BY <1>0, <4>1, <4>2, FS_Subset
    <3>4. Cardinality(done \cup {i}) = (n - 1) + 1
      BY <3>2, <3>3, FS_AddElement
    <3>5. DOMAIN stack' = 1 .. (n + 1)
      BY <3>2 DEF GoesOn
    <3>6. n \in Nat /\ \A k \in 1 .. (n + 1) : k \in 1 .. n \/ k = n + 1
      BY <1>0, <3>1
    <3>7. Cardinality(stack'[n + 1].done) = (n + 1) - 1 /\ stack'[n + 1].next <= Len(spans) + 1
      BY <1>0, <3>2, <3>4, <3>6
    <3>8. \A k \in 1 .. n : /\ Cardinality(stack'[k].done) = k - 1
                            /\ stack'[k].next <= Len(spans) + 1
      BY <2>3, <3>1, <3>2
    <3>9. QED
      BY <1>0, <2>1, <3>5, <3>6, <3>7, <3>8 DEF LoopInv
  <2>6. QED
    BY <2>1, <2>2, <2>4, <2>5
<1>5. CASE Backtrack
  <2>1. /\ pos' = pos /\ spans' = spans /\ DOMAIN stack' = 1 .. (Len(stack) - 1)
        /\ \A k \in 1 .. (Len(stack) - 1) : stack'[k] = stack[k]
    BY <1>5, BacktrackMoves
  <2>2. QED
    BY <1>0, <2>1 DEF LoopInv
<1>6. CASE Done \/ UNCHANGED vars
  BY <1>6 DEF Done, vars, LoopInv
<1>7. QED
  BY <1>1, <1>2, <1>3, <1>4, <1>5, <1>6 DEF Next

LEMMA ToDoParts ==
  ASSUME CheckerInv
  PROVE  /\ DOMAIN ToDo = 1 .. (Len(entries) + 1)
         /\ ToDo[1] = PhasesLeft
         /\ \A d \in 1 .. Len(entries) : ToDo[d + 1] = LoopLeft(d)
<1>1. Len(entries) \in Nat
  BY CheckFacts
<1>2. 1 \in 1 .. (Len(entries) + 1)
  BY <1>1
<1>3. ASSUME NEW d \in 1 .. Len(entries)
      PROVE  d + 1 \in 1 .. (Len(entries) + 1) /\ d + 1 # 1 /\ (d + 1) - 1 = d
  BY <1>1
<1>4. QED
  BY <1>2, <1>3 DEF ToDo

(* The first phase comes nearer its end.                                   *)
LEMMA PhaseEnds ==
  ASSUME CheckerInv, CheckerInv', entries' = entries, PhasesLeft' < PhasesLeft
  PROVE  Lower(ToDo', ToDo)
<1>1. /\ 1 \in DOMAIN ToDo /\ ToDo[1] = PhasesLeft /\ ToDo'[1] = PhasesLeft'
  <2>1. ToDo[1] = PhasesLeft /\ DOMAIN ToDo = 1 .. (Len(entries) + 1) /\ Len(entries) \in Nat
    BY ToDoParts, CheckFacts
  <2>2. (ToDo[1] = PhasesLeft)'
    BY ToDoParts, PTL
  <2>3. QED
    BY <2>1, <2>2
<1>2. \A j \in 1 .. (1 - 1) : FALSE
  OBVIOUS
<1>3. QED
  BY <1>1, <1>2 DEF Lower

(* The loop at depth m comes nearer its end, those above it do not move.   *)
LEMMA LoopEnds ==
  ASSUME CheckerInv, CheckerInv', LoopInv, entries' = entries, PhasesLeft' = PhasesLeft,
         NEW m \in DOMAIN stack, LoopLeft(m)' < LoopLeft(m),
         \A k \in 1 .. (m - 1) : LoopLeft(k)' = LoopLeft(k)
  PROVE  Lower(ToDo', ToDo)
<1>1. m \in 1 .. Len(entries)
  <2>1. m <= Len(spans)
    BY RecursionIsBounded
  <2>2. /\ Len(spans) < pos /\ pos \in 1 .. (Len(entries) + 1) /\ Len(spans) \in Nat
        /\ Len(entries) \in Nat /\ DOMAIN stack = 1 .. Len(stack) /\ Len(stack) \in Nat
    BY CheckFacts DEF LoopInv
  <2>3. QED
    BY <2>1, <2>2
<1>2. /\ DOMAIN ToDo = 1 .. (Len(entries) + 1) /\ ToDo[1] = PhasesLeft
      /\ \A k \in 1 .. Len(entries) : ToDo[k + 1] = LoopLeft(k)
  BY ToDoParts
<1>3. /\ ToDo'[1] = PhasesLeft'
      /\ \A k \in 1 .. Len(entries) : ToDo'[k + 1] = LoopLeft(k)'
  <2>1. (/\ DOMAIN ToDo = 1 .. (Len(entries) + 1)
         /\ ToDo[1] = PhasesLeft
         /\ \A d \in 1 .. Len(entries) : ToDo[d + 1] = LoopLeft(d))'
    BY ToDoParts, PTL
  <2>2. QED
    BY <2>1
<1>4. Len(entries) \in Nat
  BY CheckFacts
<1>5. m + 1 \in DOMAIN ToDo /\ ToDo'[m + 1] < ToDo[m + 1]
  BY <1>1, <1>2, <1>3, <1>4
<1>6. ASSUME NEW j \in 1 .. ((m + 1) - 1)
      PROVE  ToDo'[j] = ToDo[j]
  <2>1. CASE j = 1
    BY <1>2, <1>3, <2>1
  <2>2. CASE j # 1
    <3>1. PICK k \in 1 .. (m - 1) : k + 1 = j /\ k \in 1 .. Len(entries)
      BY <1>1, <1>4, <2>2
    <3>2. QED
      BY <1>2, <1>3, <3>1
  <2>3. QED
    BY <2>1, <2>2
<1>7. QED
  BY <1>5, <1>6 DEF Lower

LEMMA ParsingNears ==
  ASSUME CheckerInv, CheckerInv', ParseInvoke \/ ParseCompletion \/ StartSearch
  PROVE  Lower(ToDo', ToDo)
<1>1. Len(entries) \in Nat /\ pos \in Nat
  BY CheckFacts
<1>2. entries' = entries
  BY DEF ParseInvoke, ParseCompletion, StartSearch
<1>3. CASE ParseInvoke \/ ParseCompletion
  <2>1. pos' = pos + 1 /\ stack' = stack /\ verdict' = verdict
    BY <1>3 DEF ParseInvoke, ParseCompletion
  <2>2. PhasesLeft' < PhasesLeft
    BY <1>1, <1>2, <2>1 DEF PhasesLeft
  <2>3. QED
    BY <1>2, <2>2, PhaseEnds
<1>4. CASE StartSearch
  <2>1. /\ pos' = pos /\ verdict = "none" /\ stack = <<>>
        /\ verdict' # "none" \/ stack' # <<>>
    BY <1>4 DEF StartSearch
  <2>2. PhasesLeft' < PhasesLeft
    BY <1>1, <1>2, <2>1 DEF PhasesLeft
  <2>3. QED
    BY <1>2, <2>2, PhaseEnds
<1>5. QED
  BY <1>3, <1>4

LEMMA SearchNears ==
  ASSUME CheckerInv, CheckerInv', LoopInv, TrySpan
  PROVE  Lower(ToDo', ToDo)
<1>1. /\ verdict = "none" /\ stack # <<>> /\ Len(stack) \in DOMAIN stack
      /\ stack[Len(stack)].next \in Span
      /\ entries' = entries /\ pos' = pos /\ spans' = spans
      /\ \/ verdict' = "valid" /\ stack' = stack
         \/ GoesOn(Len(stack))
         \/ Calls
  BY TrySpanMoves
<1>2. /\ Len(entries) \in Nat /\ pos \in Nat /\ Len(spans) \in Nat /\ Span = 1 .. Len(spans)
      /\ Len(stack) \in Nat /\ DOMAIN stack = 1 .. Len(stack)
  BY CheckFacts
<1>3. CASE verdict' = "valid" /\ stack' = stack
  <2>1. PhasesLeft' < PhasesLeft
    BY <1>1, <1>2, <1>3 DEF PhasesLeft
  <2>2. QED
    BY <1>1, <2>1, PhaseEnds
<1>4. ASSUME NEW m \in Nat, m >= Len(stack), GoesOn(m)
      PROVE  Lower(ToDo', ToDo)
  <2>0. PICK n : n = Len(stack)
    OBVIOUS
  <2>1. /\ verdict' = verdict /\ DOMAIN stack' = 1 .. m /\ stack' # <<>>
        /\ n \in Nat /\ DOMAIN stack = 1 .. n /\ m >= n /\ n \in 1 .. n
        /\ \A k \in 1 .. n :
             stack'[k].next = IF k = n THEN stack[k].next + 1 ELSE stack[k].next
    BY <1>1, <1>2, <1>4, <2>0 DEF GoesOn
  <2>2. PhasesLeft' = PhasesLeft
    BY <1>1, <2>1 DEF PhasesLeft
  <2>3. \A k \in 1 .. n : k \in DOMAIN stack /\ k \in DOMAIN stack'
    BY <2>1
  <2>4. \A k \in 1 .. n :
          /\ LoopLeft(k) = Len(spans) + 2 - stack[k].next
          /\ LoopLeft(k)' = Len(spans) + 2 - stack'[k].next
    BY <1>1, <2>3 DEF LoopLeft
  <2>5. LoopLeft(n)' < LoopLeft(n)
    <3>1. stack[n].next \in Nat
      BY <1>1, <1>2, <2>0
    <3>2. stack'[n].next = stack[n].next + 1
      BY <2>1
    <3>3. QED
      BY <1>2, <2>1, <2>4, <3>1, <3>2
  <2>6. \A k \in 1 .. (n - 1) : k \in 1 .. n /\ k # n
    BY <2>1
  <2>7. \A k \in 1 .. (n - 1) : LoopLeft(k)' = LoopLeft(k)
    BY <2>1, <2>4, <2>6
  <2>8. QED
    BY <1>1, <2>1, <2>2, <2>5, <2>7, LoopEnds
<1>5. CASE GoesOn(Len(stack))
  BY <1>2, <1>4, <1>5
<1>6. CASE Calls
  BY <1>2, <1>4, <1>6 DEF Calls
<1>7. QED
  BY <1>1, <1>3, <1>5, <1>6

LEMMA ReturnNears ==
  ASSUME CheckerInv, CheckerInv', LoopInv, Backtrack
  PROVE  Lower(ToDo', ToDo)
<1>1. /\ verdict = "none" /\ stack # <<>> /\ Len(stack) \in DOMAIN stack
      /\ entries' = entries /\ pos' = pos /\ spans' = spans
      /\ DOMAIN stack' = 1 .. (Len(stack) - 1)
      /\ \A k \in 1 .. (Len(stack) - 1) : stack'[k] = stack[k]
      /\ verdict' = IF Len(stack) = 1 THEN "invalid" ELSE verdict
  BY BacktrackMoves
<1>2. /\ Len(entries) \in Nat /\ pos \in Nat /\ Len(spans) \in Nat
      /\ Len(stack) \in Nat /\ DOMAIN stack = 1 .. Len(stack)
      /\ stack[Len(stack)].next \in Nat /\ stack[Len(stack)].next <= Len(spans) + 1
  BY <1>1, CheckFacts DEF LoopInv
<1>3. CASE Len(stack) = 1
  <2>1. PhasesLeft' < PhasesLeft
    BY <1>1, <1>2, <1>3 DEF PhasesLeft
  <2>2. QED
    BY <1>1, <2>1, PhaseEnds
<1>4. CASE Len(stack) # 1
  <2>1. stack' # <<>>
    <3>1. 1 \in DOMAIN stack'
      BY <1>1, <1>2, <1>4
    <3>2. QED
      BY <3>1
  <2>2. PhasesLeft' = PhasesLeft
    BY <1>1, <1>4, <2>1 DEF PhasesLeft
  <2>3. PICK n : n = Len(stack)
    OBVIOUS
  <2>4. LoopLeft(n)' < LoopLeft(n)
    <3>1. n \notin DOMAIN stack'
      BY <1>1, <1>2, <2>3
    <3>2. LoopLeft(n)' = 0
      BY <3>1 DEF LoopLeft
    <3>3. LoopLeft(n) = Len(spans) + 2 - stack[n].next
      BY <1>1, <2>3 DEF LoopLeft
    <3>4. QED
      BY <1>2, <2>3, <3>2, <3>3
  <2>5. \A k \in 1 .. (n - 1) : LoopLeft(k)' = LoopLeft(k)
    BY <1>1, <1>2, <2>3 DEF LoopLeft
  <2>6. QED
    BY <1>1, <2>2, <2>3, <2>4, <2>5, LoopEnds
<1>5. QED
  BY <1>3, <1>4

LEMMA LoopInvariant == Spec => [](CheckerInv /\ LoopInv)
<1>1. QED
  BY CheckerInit, CheckerStep, LoopInit, LoopStep, PTL DEF Spec

(* Every step of parse_spans, search and recurse brings the verdict        *)
(* nearer, for any history of sequential clients and any model, and the    *)
(* stack of recurse is never higher than the history is long.              *)
THEOREM VerdictNears == Spec => VerdictComesNearer
<1>1. /\ CheckerInv /\ CheckerInv' /\ LoopInv /\ [Next]_vars
      => [entries' = entries => Lower(ToDo', ToDo)]_vars
  <2> SUFFICES ASSUME CheckerInv, CheckerInv', LoopInv, Next, vars' # vars
               PROVE  Lower(ToDo', ToDo)
    OBVIOUS
  <2>1. ~Done
    BY DEF Done
  <2>2. QED
    BY <2>1, ParsingNears, SearchNears, ReturnNears DEF Next
<1>2. QED
  BY <1>1, LoopInvariant, PTL DEF Spec, VerdictComesNearer

(* What is left is a list of numbers, in every state of a check.           *)
THEOREM ToDoIsCounted == Spec => [](ToDo \in [1 .. (Len(entries) + 1) -> Nat])
<1>1. CheckerInv /\ LoopInv => ToDo \in [1 .. (Len(entries) + 1) -> Nat]
  <2> SUFFICES ASSUME CheckerInv, LoopInv
               PROVE  ToDo \in [1 .. (Len(entries) + 1) -> Nat]
    OBVIOUS
  <2>1. Len(entries) \in Nat /\ pos \in 1 .. (Len(entries) + 1) /\ Len(spans) \in Nat
    BY CheckFacts
  <2>2. PhasesLeft \in Nat
    BY <2>1 DEF PhasesLeft
  <2>3. ASSUME NEW d PROVE LoopLeft(d) \in Nat
    <3>1. CASE d \in DOMAIN stack
      <4>1. stack[d].next \in Nat /\ stack[d].next <= Len(spans) + 1
        BY <3>1, CheckFacts DEF LoopInv
      <4>2. QED
        BY <2>1, <3>1, <4>1 DEF LoopLeft
    <3>2. QED
      BY <3>1 DEF LoopLeft
  <2>4. QED
    BY <2>2, <2>3 DEF ToDo
<1>2. QED
  BY <1>1, LoopInvariant, PTL

Less == {p \in Nat \X Nat : p[1] < p[2]}

(* A list of numbers cannot be lowered for ever: with VerdictNears and     *)
(* ToDoIsCounted the recursion ends, whatever the model does.              *)
THEOREM LoweringEnds ==
  ASSUME NEW n \in Nat
  PROVE  ~ \E f \in [Nat -> [1 .. n -> Nat]] : \A k \in Nat : Lower(f[k + 1], f[k])
<1> SUFFICES ASSUME NEW f \in [Nat -> [1 .. n -> Nat]],
                    \A k \in Nat : Lower(f[k + 1], f[k])
             PROVE  FALSE
  OBVIOUS
<1>1. ASSUME NEW g \in [1 .. n -> Nat], NEW h \in [1 .. n -> Nat], Lower(g, h)
      PROVE  <<g, h>> \in LexProductOrdering(Less, Nat, n)
  <2>1. PICK j \in 1 .. n : g[j] < h[j] /\ \A i \in 1 .. (j - 1) : g[i] = h[i]
    BY <1>1 DEF Lower
  <2>2. g[j] \in Nat /\ h[j] \in Nat
    OBVIOUS
  <2>3. <<g[j], h[j]>> \in Less
    BY <2>1, <2>2 DEF Less
  <2>4. QED
    BY <2>1, <2>3 DEF LexProductOrdering
<1>2. \A k \in Nat : <<f[k + 1], f[k]>> \in LexProductOrdering(Less, Nat, n)
  <2> TAKE k \in Nat
  <2>1. k + 1 \in Nat
    OBVIOUS
  <2>2. f[k + 1] \in [1 .. n -> Nat] /\ f[k] \in [1 .. n -> Nat]
    BY <2>1
  <2>3. QED
    BY <1>1, <2>2
<1>3. IsWellFoundedOn(Less, Nat)
  <2>1. ASSUME NEW T \in SUBSET Nat, T # {}
        PROVE  \E x \in T : \A y \in T : ~ (<<y, x>> \in Less)
    <3>1. PICK x \in T : \A y \in T : x <= y
      BY <2>1, LeastExists
    <3>2. \A y \in T : ~(y < x)
      BY <3>1
    <3>3. QED
      BY <3>2 DEF Less
  <2>2. QED
    BY <2>1, MinWF
<1>4. IsWellFoundedOn(LexProductOrdering(Less, Nat, n), [1 .. n -> Nat])
  BY <1>3, WFLexProductOrdering
<1>5. QED
  BY <1>2, <1>4 DEF IsWellFoundedOn
=============================================================================
